------------------------------- MODULE Ledger -------------------------------
(***************************************************************************)
(* What ledger.Post promises its callers: a book that only grows, holds at *)
(* most one transaction per idempotency key, and only balanced ones.       *)
(* LedgerPost shows that concurrent calls keep the promise; the modules    *)
(* that settle payments build on it.                                       *)
(***************************************************************************)
EXTENDS Integers, Sequences

CONSTANTS
    Keys,           \* idempotency keys
    PostingLists    \* lists of postings a caller may send

VARIABLE book   \* book[k]: the postings recorded under k, <<>> without a row

Debits(ps) ==
    LET sum[i \in 0..Len(ps)] == IF i = 0 THEN 0 ELSE sum[i - 1] + ps[i].debit
    IN  sum[Len(ps)]

Credits(ps) ==
    LET sum[i \in 0..Len(ps)] == IF i = 0 THEN 0 ELSE sum[i - 1] + ps[i].credit
    IN  sum[Len(ps)]

OneSided(p) ==
    \/ p.debit > 0 /\ p.credit = 0
    \/ p.credit > 0 /\ p.debit = 0

\* What Validate accepts.
Valid(ps) ==
    /\ ps # <<>>
    /\ \A i \in 1..Len(ps) : OneSided(ps[i])
    /\ Debits(ps) = Credits(ps)

-----------------------------------------------------------------------------
Init == book = [k \in Keys |-> <<>>]

Record(k, ps) ==
    /\ Valid(ps)
    /\ book[k] = <<>>
    /\ book' = [book EXCEPT ![k] = ps]

Next == \E k \in Keys, ps \in PostingLists : Record(k, ps)

Spec == Init /\ [][Next]_book
=============================================================================
