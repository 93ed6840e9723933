----------------------------- MODULE LedgerPost -----------------------------
(***************************************************************************)
(* ledger.Post as concurrent database transactions (ledger/ledger.go and   *)
(* the ledger tables of migration 0001).                                   *)
(*                                                                         *)
(* Each element of Calls is one call of Post.  Its transaction looks the   *)
(* key up, inserts the ledger_transactions row, then one ledger_entries    *)
(* row per posting, and commits.  An INSERT of a key that another open     *)
(* transaction inserted waits for that transaction.                        *)
(***************************************************************************)
EXTENDS Integers, Sequences

CONSTANTS Keys, PostingLists, Calls, NoKey, Codes

ASSUME KeyAssumption == NoKey \notin Keys

\* A posting takes money out of (debit) or puts it into (credit) an account.
Posting == [account : Codes, debit : Int, credit : Int]

ASSUME PostingAssumption == PostingLists \subseteq Seq(Posting)

VARIABLES
    book,       \* book[k]: the committed postings of key k, <<>> without a row
    accounts,   \* codes that have a ledger_accounts row
    step,       \* step[p]: how far the call p is
    key,        \* key[p]: its idempotency key
    sent,       \* sent[p]: its postings
    entered     \* entered[p]: how many of them it has inserted

vars == <<book, accounts, step, key, sent, entered>>

Abstract == INSTANCE Ledger WITH book <- book

\* "existing": Post returned the id of an earlier transaction; "posted": of
\* its own; "unknown": it committed but its caller never heard so; "refused":
\* invalid postings or a missing account; "aborted": SQLSTATE 25P02 after the
\* lost race; "lost": rolled back by a failure.
Ended == {"existing", "posted", "unknown", "refused", "aborted", "lost"}
Steps == {"idle", "begun", "missed", "inserted"} \cup Ended

-----------------------------------------------------------------------------
Init ==
    /\ book = [k \in Keys |-> <<>>]
    /\ accounts = {}
    /\ step = [p \in Calls |-> "idle"]
    /\ key = [p \in Calls |-> NoKey]
    /\ sent = [p \in Calls |-> <<>>]
    /\ entered = [p \in Calls |-> 0]

Goto(p, s) == step' = [step EXCEPT ![p] = s]

\* ON CONFLICT DO NOTHING
EnsureAccount(a) ==
    /\ accounts' = accounts \cup {a}
    /\ UNCHANGED <<book, step, key, sent, entered>>

\* Validate, before the database is touched.
Start(p, k, ps) ==
    /\ step[p] = "idle"
    /\ Goto(p, IF Abstract!Valid(ps) THEN "begun" ELSE "refused")
    /\ key' = [key EXCEPT ![p] = k]
    /\ sent' = [sent EXCEPT ![p] = ps]
    /\ UNCHANGED <<book, accounts, entered>>

\* An open transaction of another call has inserted p's key.
KeyIsTaken(p) == \E q \in Calls : step[q] = "inserted" /\ key[q] = key[p]

\* Mutant: a SELECT that sees rows which are not committed.
LookUpUncommitted(p) ==
    /\ step[p] = "begun"
    /\ Goto(p, IF book[key[p]] = <<>> /\ ~KeyIsTaken(p) THEN "missed"
               ELSE "existing")
    /\ UNCHANGED <<book, accounts, key, sent, entered>>

LookUp(p) ==
    /\ step[p] = "begun"
    /\ Goto(p, IF book[key[p]] = <<>> THEN "missed" ELSE "existing")
    /\ UNCHANGED <<book, accounts, key, sent, entered>>

InsertTransaction(p) ==
    /\ step[p] = "missed"
    /\ ~KeyIsTaken(p)
    /\ book[key[p]] = <<>>
    /\ Goto(p, "inserted")
    /\ UNCHANGED <<book, accounts, key, sent, entered>>

\* Mutant: the race is noticed only while the other transaction is open.
LoseRaceEarly(p) ==
    /\ step[p] = "missed"
    /\ KeyIsTaken(p)
    /\ Goto(p, "aborted")
    /\ UNCHANGED <<book, accounts, key, sent, entered>>

\* 23505: somebody was faster.  The SELECT that follows runs in a transaction
\* that the failed INSERT has aborted, so it fails too.
LoseRace(p) ==
    /\ step[p] = "missed"
    /\ ~KeyIsTaken(p)
    /\ book[key[p]] # <<>>
    /\ Goto(p, "aborted")
    /\ UNCHANGED <<book, accounts, key, sent, entered>>

Account(p) == sent[p][entered[p] + 1].account

\* Mutant: a retried INSERT is counted twice.
InsertEntryTwice(p) ==
    /\ step[p] = "inserted"
    /\ entered[p] < Len(sent[p])
    /\ Account(p) \in accounts
    /\ entered' = [entered EXCEPT ![p] = @ + 2]
    /\ UNCHANGED <<book, accounts, step, key, sent>>

InsertEntry(p) ==
    /\ step[p] = "inserted"
    /\ entered[p] < Len(sent[p])
    /\ Account(p) \in accounts
    /\ entered' = [entered EXCEPT ![p] = @ + 1]
    /\ UNCHANGED <<book, accounts, step, key, sent>>

AccountMissing(p) ==
    /\ step[p] = "inserted"
    /\ entered[p] < Len(sent[p])
    /\ Account(p) \notin accounts
    /\ Goto(p, "refused")
    /\ UNCHANGED <<book, accounts, key, sent, entered>>

\* Mutant: entries are committed as they are inserted.
CommitPart(p) ==
    /\ step[p] = "inserted"
    /\ book' = [book EXCEPT ![key[p]] = SubSeq(sent[p], 1, entered[p])]
    /\ \E s \in {"posted", "unknown"} : Goto(p, s)
    /\ UNCHANGED <<accounts, key, sent, entered>>

\* COMMIT runs the ledger_balanced trigger over the entries inserted.
Commit(p) ==
    /\ step[p] = "inserted"
    /\ entered[p] = Len(sent[p])
    /\ LET entries == SubSeq(sent[p], 1, entered[p])
       IN  /\ Abstract!Debits(entries) = Abstract!Credits(entries)
           /\ book' = [book EXCEPT ![key[p]] = entries]
    /\ \E s \in {"posted", "unknown"} : Goto(p, s)
    /\ UNCHANGED <<accounts, key, sent, entered>>

\* A crash, a cancelled context, a lost connection.
Fail(p) ==
    /\ step[p] \in {"begun", "missed", "inserted"}
    /\ Goto(p, "lost")
    /\ UNCHANGED <<book, accounts, key, sent, entered>>

Proceed(p) ==
    \/ LookUp(p)
    \/ InsertTransaction(p)
    \/ LoseRace(p)
    \/ InsertEntry(p)
    \/ AccountMissing(p)
    \/ Commit(p)

Next ==
    \/ \E a \in Codes : EnsureAccount(a)
    \/ \E p \in Calls :
         \/ \E k \in Keys, ps \in PostingLists : Start(p, k, ps)
         \/ Proceed(p)
         \/ Fail(p)

Spec == Init /\ [][Next]_vars

\* A call that is under way goes on.
Fairness == \A p \in Calls : WF_vars(Proceed(p))

FairSpec == Spec /\ Fairness

-----------------------------------------------------------------------------
\* Properties

\* The type invariant: no call has inserted more entries than it was sent.
TypeOK ==
    /\ book \in [Keys -> Seq(Posting)]
    /\ accounts \in SUBSET Codes
    /\ step \in [Calls -> Steps]
    /\ key \in [Calls -> Keys \cup {NoKey}]
    /\ sent \in [Calls -> Seq(Posting)]
    /\ entered \in [Calls -> Nat]
    /\ \A p \in Calls : entered[p] <= Len(sent[p])

\* Whatever calls race under one key, the book holds exactly the postings of
\* one of them, whole: never a part, a mixture or two copies.
OneCallPerKey ==
    \A k \in Keys : book[k] # <<>> =>
      \E p \in Calls :
        /\ step[p] \in {"posted", "unknown"}
        /\ key[p] = k
        /\ sent[p] = book[k]
        /\ \A q \in Calls \ {p} : key[q] = k => step[q] \notin {"posted", "unknown"}

\* A caller who was told that its key is recorded, or who lost the race for
\* it, finds it recorded whatever fails afterwards; so a retry cannot charge
\* again.
ToldMeansRecorded ==
    \A p \in Calls : step[p] \in {"existing", "posted", "unknown", "aborted"} =>
      book[key[p]] # <<>>

\* Concurrent calls implement the book that Ledger specifies: every change of
\* the book records one valid list of postings under a key that had none.
ImplementsLedger == Abstract!Spec

\* Every call that began ends: waiting for the open transaction of the same
\* key is not a deadlock.
CallsEnd == <>[](\A p \in Calls : step[p] \in Ended \cup {"idle"})

\* "If idempotency_key exists, returns the existing id": a call that only
\* lost the race for its key is answered, not failed.
LostRaceIsAnswered == \A p \in Calls : step[p] # "aborted"
=============================================================================
