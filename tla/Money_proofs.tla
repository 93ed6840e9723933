---------------------------- MODULE Money_proofs ----------------------------
(***************************************************************************)
(* Proofs about money that is written down once: the ledger, and the       *)
(* settlement of rides that posts to it.                                   *)
(***************************************************************************)
EXTENDS MCMoney, SequenceTheorems, TLAPS

(***************************************************************************)
(* ledger.Post, for every set of keys, callers and posting lists: the book *)
(* holds one whole transaction per key, and concurrent calls implement the *)
(* abstract Ledger.  The invariant that carries both is Exclusive: a call  *)
(* that has inserted the row of its key is alone with it until it ends.    *)
(***************************************************************************)
Recorded == {"posted", "unknown"}

\* A call that passed Validate has a key and a valid list of postings; one
\* that has not begun has inserted nothing.
Validated ==
    \A p \in Calls :
      /\ step[p] = "idle" => entered[p] = 0
      /\ step[p] # "idle" => key[p] \in Keys
      /\ step[p] \in {"begun", "missed", "inserted"} \cup Recorded =>
           sent[p] \in PostingLists /\ Abstract!Valid(sent[p])

\* The unique index: the row of an open transaction has no committed twin and
\* no other open one.
Exclusive ==
    \A p \in Calls : step[p] = "inserted" =>
      /\ book[key[p]] = <<>>
      /\ \A q \in Calls \ {p} : step[q] = "inserted" => key[q] # key[p]

LedgerInv ==
    /\ TypeOK
    /\ Validated
    /\ Exclusive
    /\ OneCallPerKey
    /\ ToldMeansRecorded

\* The steps of a call that commits nothing.
Quiet(p) ==
    \/ LookUp(p)
    \/ InsertTransaction(p)
    \/ LoseRace(p)
    \/ InsertEntry(p)
    \/ AccountMissing(p)
    \/ Fail(p)

-----------------------------------------------------------------------------
\* COMMIT records the whole list: its SubSeq is all of what was sent.
LEMMA Whole ==
    ASSUME NEW S, NEW s \in Seq(S)
    PROVE  SubSeq(s, 1, Len(s)) = s
  BY SubSeqFull

LEMMA CommitRecords ==
    ASSUME TypeOK, Validated, NEW p \in Calls, Commit(p)
    PROVE  /\ key[p] \in Keys
           /\ sent[p] \in PostingLists
           /\ Abstract!Valid(sent[p])
           /\ sent[p] # <<>>
           /\ book' = [book EXCEPT ![key[p]] = sent[p]]
           /\ step[p] = "inserted"
<1>1. step[p] = "inserted" /\ entered[p] = Len(sent[p])
  BY DEF Commit
<1>2. sent[p] \in Seq(Posting)
  BY DEF TypeOK
<1>3. SubSeq(sent[p], 1, entered[p]) = sent[p]
  BY <1>1, <1>2, Whole
<1>4. book' = [book EXCEPT ![key[p]] = sent[p]]
  BY <1>3 DEF Commit
<1>5. key[p] \in Keys /\ sent[p] \in PostingLists /\ Abstract!Valid(sent[p])
  BY <1>1 DEF Validated
<1>6. sent[p] # <<>>
  BY <1>5 DEF Abstract!Valid
<1> QED
  BY <1>1, <1>4, <1>5, <1>6

-----------------------------------------------------------------------------
\* Type correctness

LEMMA LedgerStartsTyped == Init => TypeOK
  BY DEF Init, TypeOK, Steps

LEMMA QuietType ==
    ASSUME TypeOK, NEW p \in Calls, Quiet(p)
    PROVE  TypeOK'
<1>1. CASE LookUp(p)
  BY <1>1 DEF LookUp, TypeOK, Goto, Steps, Ended
<1>2. CASE InsertTransaction(p)
  BY <1>2 DEF InsertTransaction, TypeOK, Goto, Steps
<1>3. CASE LoseRace(p)
  BY <1>3 DEF LoseRace, TypeOK, Goto, Steps, Ended
<1>4. CASE InsertEntry(p)
  <2>1. entered[p] + 1 \in Nat /\ entered[p] + 1 <= Len(sent[p])
    BY <1>4 DEF InsertEntry, TypeOK
  <2> QED
    BY <1>4, <2>1 DEF InsertEntry, TypeOK
<1>5. CASE AccountMissing(p)
  BY <1>5 DEF AccountMissing, TypeOK, Goto, Steps, Ended
<1>6. CASE Fail(p)
  BY <1>6 DEF Fail, TypeOK, Goto, Steps, Ended
<1> QED
  BY <1>1, <1>2, <1>3, <1>4, <1>5, <1>6 DEF Quiet

-----------------------------------------------------------------------------
\* The inductive step

LEMMA LedgerStarts == Init => LedgerInv
<1> SUFFICES ASSUME Init
             PROVE  LedgerInv
  OBVIOUS
<1>1. Validated /\ Exclusive
  BY DEF Init, Validated, Exclusive, Recorded
<1>2. OneCallPerKey /\ ToldMeansRecorded
  BY DEF Init, OneCallPerKey, ToldMeansRecorded
<1> QED
  BY <1>1, <1>2, LedgerStartsTyped DEF LedgerInv

LEMMA StartInv ==
    ASSUME LedgerInv, NEW p \in Calls, NEW k \in Keys, NEW ps \in PostingLists,
           Start(p, k, ps)
    PROVE  LedgerInv'
<1> USE DEF LedgerInv
<1>1. step[p] = "idle" /\ entered[p] = 0
  BY DEF Start, Validated
<1>2. /\ step' = [step EXCEPT ![p] = step'[p]]
      /\ step'[p] \in {"begun", "refused"}
      /\ step'[p] = "begun" => Abstract!Valid(ps)
  BY DEF Start, Goto, TypeOK
<1>3. /\ key' = [key EXCEPT ![p] = k]
      /\ sent' = [sent EXCEPT ![p] = ps]
      /\ UNCHANGED <<book, accounts, entered>>
  BY DEF Start
<1>4. TypeOK'
  <2>1. ps \in Seq(Posting) /\ Len(ps) \in Nat
    BY PostingAssumption
  <2>2. step' \in [Calls -> Steps]
    BY <1>2 DEF TypeOK, Steps, Ended
  <2>3. key' \in [Calls -> Keys \cup {NoKey}] /\ sent' \in [Calls -> Seq(Posting)]
    BY <1>3, <2>1 DEF TypeOK
  <2>4. \A q \in Calls : entered'[q] <= Len(sent'[q])
    BY <1>1, <1>3, <2>1 DEF TypeOK
  <2> QED
    BY <1>3, <2>2, <2>3, <2>4 DEF TypeOK
<1>5. Validated'
  BY <1>1, <1>2, <1>3 DEF TypeOK, Validated, Recorded
<1>6. Exclusive'
  BY <1>1, <1>2, <1>3 DEF TypeOK, Exclusive
<1>7. OneCallPerKey'
  <2>1. \A q \in Calls : step'[q] \in Recorded <=> step[q] \in Recorded
    BY <1>1, <1>2 DEF TypeOK, Recorded
  <2>2. \A q \in Calls : step[q] \in Recorded =>
          key'[q] = key[q] /\ sent'[q] = sent[q]
    BY <1>1, <1>3 DEF TypeOK, Recorded
  <2> QED
    BY <1>3, <2>1, <2>2 DEF OneCallPerKey, Recorded
<1>8. ToldMeansRecorded'
  BY <1>1, <1>2, <1>3 DEF TypeOK, ToldMeansRecorded
<1> QED
  BY <1>4, <1>5, <1>6, <1>7, <1>8

\* What the quiet steps have in common: only one call moves, and it learns
\* that its key is recorded only when it is.
LEMMA QuietMoves ==
    ASSUME TypeOK, NEW p \in Calls, Quiet(p)
    PROVE  /\ UNCHANGED <<book, key, sent>>
           /\ step[p] \in {"begun", "missed", "inserted"}
           /\ step'[p] \notin {"idle", "begun"} \cup Recorded
           /\ step' = [step EXCEPT ![p] = step'[p]]
           /\ step'[p] \in {"existing", "aborted"} => book[key[p]] # <<>>
           /\ step'[p] = "inserted" /\ step[p] # "inserted" =>
                ~KeyIsTaken(p) /\ book[key[p]] = <<>>
<1> USE DEF TypeOK, Goto, Recorded
<1>1. CASE LookUp(p)
  BY <1>1 DEF LookUp
<1>2. CASE InsertTransaction(p)
  BY <1>2 DEF InsertTransaction
<1>3. CASE LoseRace(p)
  BY <1>3 DEF LoseRace
<1>4. CASE InsertEntry(p)
  BY <1>4 DEF InsertEntry
<1>5. CASE AccountMissing(p)
  BY <1>5 DEF AccountMissing
<1>6. CASE Fail(p)
  BY <1>6 DEF Fail
<1> QED
  BY <1>1, <1>2, <1>3, <1>4, <1>5, <1>6 DEF Quiet

LEMMA QuietInv ==
    ASSUME LedgerInv, NEW p \in Calls, Quiet(p)
    PROVE  LedgerInv'
<1> USE DEF LedgerInv
<1>1. TypeOK'
  BY QuietType
<1>2. Validated'
  <2> SUFFICES ASSUME NEW q \in Calls
               PROVE  /\ step'[q] = "idle" => entered'[q] = 0
                      /\ step'[q] # "idle" => key[q] \in Keys
                      /\ step'[q] \in {"begun", "missed", "inserted"} \cup Recorded =>
                           sent[q] \in PostingLists /\ Abstract!Valid(sent[q])
    BY QuietMoves DEF Validated
  <2>1. CASE q = p
    BY <2>1, QuietMoves DEF Validated
  <2>2. CASE q # p
    <3>1. step'[q] = step[q]
      BY <2>2, QuietMoves DEF TypeOK
    <3>2. entered'[q] = entered[q]
      BY <2>2 DEF TypeOK, Quiet, LookUp, InsertTransaction, LoseRace,
                  InsertEntry, AccountMissing, Fail
    <3> QED
      BY <3>1, <3>2 DEF Validated
  <2> QED
    BY <2>1, <2>2
<1>3. Exclusive'
  BY QuietMoves DEF TypeOK, Exclusive, KeyIsTaken
<1>4. OneCallPerKey'
  <2>1. \A q \in Calls : step'[q] \in Recorded <=> step[q] \in Recorded
    BY QuietMoves DEF TypeOK, Recorded
  <2> QED
    BY <2>1, QuietMoves DEF OneCallPerKey, Recorded
<1>5. ToldMeansRecorded'
  BY QuietMoves DEF TypeOK, ToldMeansRecorded, Recorded
<1> QED
  BY <1>1, <1>2, <1>3, <1>4, <1>5

LEMMA CommitInv ==
    ASSUME LedgerInv, NEW p \in Calls, Commit(p)
    PROVE  LedgerInv'
<1> USE DEF LedgerInv
<1>1. /\ step' = [step EXCEPT ![p] = step'[p]]
      /\ step'[p] \in Recorded
      /\ UNCHANGED <<accounts, key, sent, entered>>
  BY DEF Commit, Goto, TypeOK, Recorded
<1>2. /\ book[key[p]] = <<>>
      /\ \A q \in Calls \ {p} : step[q] = "inserted" => key[q] # key[p]
  BY CommitRecords DEF Exclusive
<1>3. book'[key[p]] = sent[p] /\ sent[p] # <<>>
  BY CommitRecords DEF TypeOK
<1>4. \A k \in Keys \ {key[p]} : book'[k] = book[k]
  BY CommitRecords DEF TypeOK
<1>5. \A q \in Calls \ {p} : key[q] = key[p] => step[q] \notin Recorded
  BY <1>2 DEF ToldMeansRecorded, Recorded
<1>6. TypeOK'
  <2>1. step' \in [Calls -> Steps]
    BY <1>1 DEF TypeOK, Steps, Ended, Recorded
  <2>2. book' \in [Keys -> Seq(Posting)]
    BY ZenonT(90), CommitRecords DEF TypeOK
  <2> QED
    BY <1>1, <2>1, <2>2 DEF TypeOK
<1>7. Validated'
  BY <1>1, CommitRecords DEF TypeOK, Validated, Recorded
<1>8. Exclusive'
  <2> SUFFICES ASSUME NEW q \in Calls, step'[q] = "inserted"
               PROVE  /\ book'[key[q]] = <<>>
                      /\ \A o \in Calls \ {q} :
                           step'[o] = "inserted" => key[o] # key[q]
    BY <1>1 DEF Exclusive
  <2>1. q # p /\ step[q] = "inserted"
    BY <1>1 DEF TypeOK, Recorded
  <2>2. key[q] \in Keys \ {key[p]}
    BY <1>2, <2>1 DEF Validated
  <2>3. \A o \in Calls : step'[o] = "inserted" => step[o] = "inserted"
    BY <1>1 DEF TypeOK, Recorded
  <2> QED
    BY <1>4, <2>1, <2>2, <2>3 DEF Exclusive
<1>9. OneCallPerKey'
  <2> SUFFICES ASSUME NEW k \in Keys, book'[k] # <<>>
               PROVE  \E o \in Calls :
                        /\ step'[o] \in Recorded
                        /\ key[o] = k
                        /\ sent[o] = book'[k]
                        /\ \A q \in Calls \ {o} : key[q] = k => step'[q] \notin Recorded
    BY <1>1 DEF OneCallPerKey, Recorded
  <2>1. CASE k = key[p]
    BY <1>1, <1>3, <1>5, <2>1 DEF TypeOK
  <2>2. CASE k # key[p]
    <3>1. PICK o \in Calls :
            /\ step[o] \in Recorded
            /\ key[o] = k
            /\ sent[o] = book[k]
            /\ \A q \in Calls \ {o} : key[q] = k => step[q] \notin Recorded
      BY <1>4, <2>2 DEF OneCallPerKey, Recorded
    <3>2. \A q \in Calls : key[q] = k => step'[q] = step[q]
      BY <1>1, <2>2 DEF TypeOK
    <3> QED
      BY <1>4, <2>2, <3>1, <3>2
  <2> QED
    BY <2>1, <2>2
<1>10. ToldMeansRecorded'
  <2> SUFFICES ASSUME NEW q \in Calls,
                      step'[q] \in {"existing", "aborted"} \cup Recorded
               PROVE  book'[key[q]] # <<>>
    BY <1>1 DEF ToldMeansRecorded, Recorded
  <2>1. CASE key[q] = key[p]
    BY <1>3, <2>1
  <2>2. CASE key[q] # key[p]
    <3>1. step[q] = step'[q]
      BY <1>1, <2>2 DEF TypeOK
    <3>2. key[q] \in Keys
      BY <3>1 DEF Validated, Recorded
    <3> QED
      BY <1>4, <2>2, <3>1, <3>2 DEF ToldMeansRecorded, Recorded
  <2> QED
    BY <2>1, <2>2
<1> QED
  BY <1>6, <1>7, <1>8, <1>9, <1>10

\* A step of Next, seen by what it does to the book.
LEMMA NextCases ==
    ASSUME [Next]_vars
    PROVE  \/ \E p \in Calls, k \in Keys, ps \in PostingLists : Start(p, k, ps)
           \/ \E p \in Calls : Quiet(p) \/ Commit(p)
           \/ (\E a \in Codes : EnsureAccount(a)) \/ UNCHANGED vars
  BY DEF Next, Proceed, Quiet

LEMMA LedgerStep == LedgerInv /\ [Next]_vars => LedgerInv'
<1> SUFFICES ASSUME LedgerInv, [Next]_vars
             PROVE  LedgerInv'
  OBVIOUS
<1>1. CASE (\E a \in Codes : EnsureAccount(a)) \/ UNCHANGED vars
  BY <1>1 DEF EnsureAccount, vars, LedgerInv, TypeOK, Validated, Exclusive,
              OneCallPerKey, ToldMeansRecorded
<1> QED
  BY <1>1, NextCases, StartInv, QuietInv, CommitInv

LEMMA LedgerInductive == Spec => []LedgerInv
  BY LedgerStarts, LedgerStep, PTL DEF Spec

-----------------------------------------------------------------------------
\* The theorems

\* Every reachable state is well typed, and no call inserts more entries than
\* it was sent.
THEOREM LedgerTypeCorrect == Spec => []TypeOK
  BY LedgerInductive, PTL DEF LedgerInv

\* Whatever calls race under one key, the book holds exactly the postings of
\* one of them, whole.
THEOREM OnePerKey == Spec => []OneCallPerKey
  BY LedgerInductive, PTL DEF LedgerInv

\* A caller who was told that its key is recorded, or who lost the race for
\* it, finds it recorded for ever after.
THEOREM ToldIsTrue == Spec => []ToldMeansRecorded
  BY LedgerInductive, PTL DEF LedgerInv

\* Every step of the transactions is a step of the abstract Ledger, or does
\* not touch the book.
LEMMA StepImplements == LedgerInv /\ [Next]_vars => [Abstract!Next]_book
<1> SUFFICES ASSUME LedgerInv, [Next]_vars
             PROVE  Abstract!Next \/ book' = book
  OBVIOUS
<1>1. ASSUME NEW p \in Calls, Commit(p)
      PROVE  Abstract!Next
  <2>1. book[key[p]] = <<>>
    BY <1>1, CommitRecords DEF LedgerInv, Exclusive
  <2>2. Abstract!Record(key[p], sent[p])
    BY <1>1, <2>1, CommitRecords DEF LedgerInv, Abstract!Record
  <2> QED
    BY <1>1, <2>2, CommitRecords DEF LedgerInv, Abstract!Next
<1>2. ASSUME NEW p \in Calls, Quiet(p)
      PROVE  book' = book
  BY <1>2, QuietMoves DEF LedgerInv
<1>3. CASE \/ \E p \in Calls, k \in Keys, ps \in PostingLists : Start(p, k, ps)
           \/ (\E a \in Codes : EnsureAccount(a)) \/ UNCHANGED vars
  BY <1>3 DEF Start, EnsureAccount, vars
<1> QED
  BY <1>1, <1>2, <1>3, NextCases

\* Concurrent calls of Post, whatever they race for and however they fail,
\* implement the book that Ledger specifies.
THEOREM PostImplementsLedger == Spec => ImplementsLedger
<1>1. Init => Abstract!Init
  BY DEF Init, Abstract!Init
<1> QED
  BY <1>1, StepImplements, LedgerInductive, PTL
     DEF Spec, ImplementsLedger, Abstract!Spec

-----------------------------------------------------------------------------
(***************************************************************************)
(* The safety of settlement, for every set of rides, payers and settlers,  *)
(* every price and any number of failures.  What makes the safety          *)
(* properties inductive is SettlersKnow: what a settler has learnt about   *)
(* its ride stays true while others settle the same ride.                  *)
(***************************************************************************)
\* A ride that ended has a payer and a way to be paid.
EndedRides ==
    \A r \in Rides : pay[r] # "open" => kind[r] \in Kinds /\ payer[r] \in Payers

\* A settler works on rides that ended, and reports "paid" only what the
\* ledger has recorded.
SettlersKnow ==
    \A s \in Settlers :
      /\ \A r \in settler[s].todo : pay[r] # "open"
      /\ settler[s].step # "next" =>
           settler[s].ride \in Rides /\ pay[settler[s].ride] # "open"
      /\ settler[s].step = "paid" => postings[settler[s].ride] = 1

MoneyInv == DebitedAtMostOnce /\ PaidMeansDebited /\ InvoiceMatchesPaidRides

SettlementInv == SettlementTypeOK /\ EndedRides /\ SettlersKnow /\ MoneyInv

SettlerRecord == [todo : SUBSET Rides, ride : Rides \cup {NoRide}, step : SettlerSteps]

-----------------------------------------------------------------------------
LEMMA SettlementStarts == SettlementInit => SettlementInv
<1> SUFFICES ASSUME SettlementInit
             PROVE  SettlementInv
  OBVIOUS
<1>1. Idle \in SettlerRecord
  BY DEF Idle, SettlerRecord, SettlerSteps
<1>2. failures \in 0..MaxFailures
  BY BoundAssumption DEF SettlementInit
<1>3. SettlementTypeOK
  BY <1>1, <1>2 DEF SettlementInit, SettlementTypeOK, SettlerRecord
<1>4. EndedRides /\ SettlersKnow
  BY DEF SettlementInit, EndedRides, SettlersKnow, Idle
<1>5. MoneyInv
  BY DEF SettlementInit, MoneyInv, DebitedAtMostOnce, PaidMeansDebited,
         InvoiceMatchesPaidRides
<1> QED
  BY <1>3, <1>4, <1>5 DEF SettlementInv

\* ledger.Post for a ride that ended: it is recorded once afterwards, and
\* nothing else is touched.
LEMMA PostRideOnce ==
    ASSUME SettlementInv, NEW r \in Rides, pay[r] # "open", PostRide(r)
    PROVE  /\ postings' \in [Rides -> Nat]
           /\ balance' \in [Payers -> Int]
           /\ postings'[r] = 1
           /\ \A q \in Rides \ {r} : postings'[q] = postings[q]
<1>1. payer[r] \in Payers
  BY DEF SettlementInv, EndedRides
<1>2. CASE postings[r] > 0
  BY <1>2 DEF PostRide, SettlementInv, SettlementTypeOK, MoneyInv, DebitedAtMostOnce
<1>3. CASE ~(postings[r] > 0)
  <2>1. postings[r] = 0
    BY <1>3 DEF SettlementInv, SettlementTypeOK
  <2>2. balance[payer[r]] \in Int
    BY <1>1 DEF SettlementInv, SettlementTypeOK
  <2>3. PICK n \in Nat : balance' = [balance EXCEPT ![payer[r]] = @ - n]
    BY <1>3, AmountAssumption DEF PostRide
  <2>4. postings' = [postings EXCEPT ![r] = 1]
    BY <1>3, <2>1 DEF PostRide
  <2>5. balance[payer[r]] - n \in Int
    BY <2>2
  <2>6. balance' \in [Payers -> Int]
    BY <2>3, <2>5 DEF SettlementInv, SettlementTypeOK
  <2>7. postings \in [Rides -> Nat]
    BY DEF SettlementInv, SettlementTypeOK
  <2> QED
    BY <2>4, <2>6, <2>7
<1> QED
  BY <1>2, <1>3

\* More postings of rides that ended disturb nothing that is known.
LEMMA PostingsGrow ==
    ASSUME SettlementInv, NEW r \in Rides, pay[r] # "open",
           postings'[r] = 1,
           \A q \in Rides \ {r} : postings'[q] = postings[q],
           UNCHANGED <<pay, kind, payer, charged, told>>
    PROVE  EndedRides' /\ MoneyInv'
<1>1. DebitedAtMostOnce'
  BY DEF SettlementInv, MoneyInv, DebitedAtMostOnce
<1>2. PaidMeansDebited'
  BY DEF SettlementInv, MoneyInv, PaidMeansDebited
<1>3. InvoiceMatchesPaidRides'
  BY DEF SettlementInv, MoneyInv, InvoiceMatchesPaidRides
<1> QED
  BY <1>1, <1>2, <1>3 DEF SettlementInv, EndedRides, MoneyInv

\* A step that changes settlers and other people's money only.
LEMMA FrameInv ==
    ASSUME SettlementInv, UNCHANGED <<pay, kind, payer, postings, charged, told>>
    PROVE  EndedRides' /\ MoneyInv'
  BY DEF SettlementInv, EndedRides, MoneyInv, DebitedAtMostOnce, PaidMeansDebited,
         InvoiceMatchesPaidRides

\* A settler moves to a record that knows no more than is true.
LEMMA SettlerMoves ==
    ASSUME SettlementInv, NEW s \in Settlers, NEW new \in SettlerRecord,
           settler' = [settler EXCEPT ![s] = new],
           \A r \in Rides : pay[r] # "open" => pay'[r] # "open",
           \A r \in Rides : postings[r] = 1 => postings'[r] = 1,
           \A r \in new.todo : pay[r] # "open",
           new.step # "next" => new.ride \in Rides /\ pay[new.ride] # "open",
           new.step = "paid" => postings'[new.ride] = 1
    PROVE  settler' \in [Settlers -> SettlerRecord] /\ SettlersKnow'
<1>1. settler \in [Settlers -> SettlerRecord]
  BY DEF SettlementInv, SettlementTypeOK, SettlerRecord
<1>2. settler' \in [Settlers -> SettlerRecord]
  BY <1>1
<1>3. ASSUME NEW o \in Settlers
      PROVE  /\ \A r \in settler'[o].todo : pay'[r] # "open"
             /\ settler'[o].step # "next" =>
                  settler'[o].ride \in Rides /\ pay'[settler'[o].ride] # "open"
             /\ settler'[o].step = "paid" => postings'[settler'[o].ride] = 1
  <2>1. CASE o = s
    <3>1. settler'[o] = new /\ new.todo \subseteq Rides
      BY <1>1, <2>1 DEF SettlerRecord
    <3> QED
      BY <3>1
  <2>2. CASE o # s
    <3>1. settler'[o] = settler[o] /\ settler[o].todo \subseteq Rides
      BY <1>1, <2>2 DEF SettlerRecord
    <3> QED
      BY <3>1 DEF SettlementInv, SettlersKnow
  <2> QED
    BY <2>1, <2>2
<1> QED
  BY <1>2, <1>3 DEF SettlersKnow

-----------------------------------------------------------------------------
\* One lemma per transaction

LEMMA EndRideInv ==
    ASSUME SettlementInv, NEW r \in Rides, NEW k \in Kinds, NEW p \in Payers,
           EndRide(r, k, p)
    PROVE  SettlementInv'
<1> USE DEF SettlementInv, SettlementTypeOK, EndRide
<1>1. SettlementTypeOK'
  BY DEF SettlerRecord
<1>2. EndedRides'
  BY DEF EndedRides
<1>3. SettlersKnow'
  BY DEF SettlersKnow
<1>4. DebitedAtMostOnce'
  BY DEF MoneyInv, DebitedAtMostOnce
<1>5. PaidMeansDebited'
  BY DEF MoneyInv, PaidMeansDebited
<1>6. InvoiceMatchesPaidRides'
  BY DEF MoneyInv, InvoiceMatchesPaidRides, DebitedAtMostOnce
<1> QED
  BY <1>1, <1>2, <1>3, <1>4, <1>5, <1>6 DEF MoneyInv

LEMMA TakeUpInv ==
    ASSUME SettlementInv, NEW s \in Settlers, NEW rs \in SUBSET Rides, TakeUp(s, rs)
    PROVE  SettlementInv'
<1> DEFINE new == [settler[s] EXCEPT !.todo = rs]
<1>1. settler' = [settler EXCEPT ![s] = new]
  BY DEF TakeUp, SettlementInv, SettlementTypeOK
<1>2. new \in SettlerRecord /\ new.todo = rs /\ new.step = "next"
  BY DEF SettlementInv, SettlementTypeOK, SettlerRecord, TakeUp, Idle
<1>3. settler' \in [Settlers -> SettlerRecord] /\ SettlersKnow'
  <2> HIDE DEF new
  <2> QED
    BY <1>1, <1>2, SettlerMoves DEF TakeUp
<1> QED
  BY <1>3, FrameInv DEF TakeUp, SettlementInv, SettlementTypeOK, SettlerRecord

LEMMA BeginInv ==
    ASSUME SettlementInv, NEW s \in Settlers, NEW r \in Rides, Begin(s, r)
    PROVE  SettlementInv'
<1> DEFINE new == [todo |-> settler[s].todo \ {r},
                   ride |-> r,
                   step |-> IF kind[r] \in {"fare", "business"} THEN "balance"
                            ELSE "post"]
<1>1. settler' = [settler EXCEPT ![s] = new]
  BY DEF Begin, SettlementInv, SettlementTypeOK
<1>2. /\ new \in SettlerRecord
      /\ new.todo \subseteq settler[s].todo
      /\ new.ride = r
      /\ new.step \in {"balance", "post"}
  BY DEF SettlementInv, SettlementTypeOK, SettlerRecord, SettlerSteps
<1>3. /\ \A q \in settler[s].todo : pay[q] # "open"
      /\ r \in settler[s].todo
  BY DEF Begin, SettlementInv, SettlersKnow
<1>4. settler' \in [Settlers -> SettlerRecord] /\ SettlersKnow'
  <2> HIDE DEF new
  <2> QED
    BY ZenonT(90), <1>1, <1>2, <1>3, SettlerMoves DEF Begin
<1> QED
  BY <1>4, FrameInv DEF Begin, SettlementInv, SettlementTypeOK, SettlerRecord

LEMMA ReadBalanceInv ==
    ASSUME SettlementInv, NEW s \in Settlers, ReadBalance(s)
    PROVE  SettlementInv'
<1> DEFINE new == [settler[s] EXCEPT !.step =
                     IF balance[payer[settler[s].ride]] < Price THEN "failed"
                     ELSE "post"]
<1>1. settler' = [settler EXCEPT ![s] = new]
  BY DEF ReadBalance, SettlementInv, SettlementTypeOK
<1>2. /\ new \in SettlerRecord
      /\ new.todo = settler[s].todo
      /\ new.ride = settler[s].ride
      /\ new.step \in {"failed", "post"}
  BY DEF SettlementInv, SettlementTypeOK, SettlerRecord, SettlerSteps
<1>3. /\ \A q \in settler[s].todo : pay[q] # "open"
      /\ settler[s].ride \in Rides /\ pay[settler[s].ride] # "open"
  BY DEF ReadBalance, SettlementInv, SettlersKnow
<1>4. settler' \in [Settlers -> SettlerRecord] /\ SettlersKnow'
  <2>1. pay' = pay /\ postings' = postings
    BY DEF ReadBalance
  <2> HIDE DEF new
  <2> QED
    BY <1>1, <1>2, <1>3, <2>1, SettlerMoves
<1> QED
  BY <1>4, FrameInv DEF ReadBalance, SettlementInv, SettlementTypeOK, SettlerRecord

LEMMA PostInv ==
    ASSUME SettlementInv, NEW s \in Settlers, Post(s)
    PROVE  SettlementInv'
<1> DEFINE r == settler[s].ride
           new == [settler[s] EXCEPT !.step = "paid"]
<1>1. settler' = [settler EXCEPT ![s] = new]
  BY DEF Post, SettlementInv, SettlementTypeOK
<1>2. new \in SettlerRecord /\ new.todo = settler[s].todo /\ new.ride = r
  BY DEF SettlementInv, SettlementTypeOK, SettlerRecord, SettlerSteps
<1>3. /\ \A q \in settler[s].todo : pay[q] # "open"
      /\ r \in Rides /\ pay[r] # "open"
  BY DEF Post, SettlementInv, SettlersKnow
<1>4. PostRide(r) /\ UNCHANGED <<pay, kind, payer, charged, told, failures>>
  BY DEF Post
<1> HIDE DEF new, r
<1>5. /\ postings' \in [Rides -> Nat]
      /\ balance' \in [Payers -> Int]
      /\ postings'[r] = 1
      /\ \A q \in Rides \ {r} : postings'[q] = postings[q]
  BY <1>3, <1>4, PostRideOnce
<1>6. settler' \in [Settlers -> SettlerRecord] /\ SettlersKnow'
  BY <1>1, <1>2, <1>3, <1>4, <1>5, SettlerMoves
<1>7. EndedRides' /\ MoneyInv'
  BY <1>3, <1>4, <1>5, PostingsGrow
<1> QED
  BY <1>4, <1>5, <1>6, <1>7 DEF SettlementInv, SettlementTypeOK, SettlerRecord

LEMMA SetStatusInv ==
    ASSUME SettlementInv, NEW s \in Settlers, SetStatus(s)
    PROVE  SettlementInv'
<1> DEFINE r == settler[s].ride
           status == IF settler[s].step = "paid" /\ kind[r] = "cash" THEN "cash"
                     ELSE settler[s].step
           new == [todo |-> settler[s].todo, ride |-> NoRide, step |-> "next"]
<1>1. settler' = [settler EXCEPT ![s] = new]
  BY DEF SetStatus, SettlementInv, SettlementTypeOK
<1>2. new \in SettlerRecord /\ new.todo = settler[s].todo /\ new.step = "next"
  BY DEF SettlementInv, SettlementTypeOK, SettlerRecord, SettlerSteps
<1>3. /\ \A q \in settler[s].todo : pay[q] # "open"
      /\ r \in Rides /\ pay[r] # "open"
      /\ settler[s].step = "paid" => postings[r] = 1
  BY DEF SetStatus, SettlementInv, SettlersKnow
<1>4. /\ status \in {"paid", "cash", "failed"}
      /\ status \in {"paid", "cash"} => postings[r] = 1
  BY <1>3 DEF SetStatus
<1>5. /\ pay' = [pay EXCEPT ![r] = IF @ = "pending" THEN status ELSE @]
      /\ charged' = charged \cup
           (IF status = "paid" /\ kind[r] = "business" THEN {r} ELSE {})
      /\ told' = told \cup {<<r, status>>}
      /\ UNCHANGED <<kind, payer, postings, balance, failures>>
  BY DEF SetStatus
<1> HIDE DEF new, r, status
<1>6. /\ \A q \in Rides \ {r} : pay'[q] = pay[q]
      /\ pay'[r] \in {pay[r], status}
      /\ pay'[r] # "open"
      /\ pay' \in [Rides -> {"open", "pending", "paid", "cash", "failed"}]
  BY <1>3, <1>4, <1>5 DEF SettlementInv, SettlementTypeOK
<1>7. settler' \in [Settlers -> SettlerRecord] /\ SettlersKnow'
  BY ZenonT(90), <1>1, <1>2, <1>3, <1>5, <1>6, SettlerMoves
<1>8. SettlementTypeOK'
  BY <1>3, <1>4, <1>5, <1>6, <1>7 DEF SettlementInv, SettlementTypeOK, SettlerRecord
<1>9. EndedRides'
  BY <1>3, <1>5, <1>6 DEF SettlementInv, EndedRides
<1>10. DebitedAtMostOnce'
  BY <1>3, <1>5, <1>6 DEF SettlementInv, MoneyInv, DebitedAtMostOnce
<1>11. PaidMeansDebited'
  BY <1>3, <1>4, <1>5, <1>6 DEF SettlementInv, MoneyInv, PaidMeansDebited
<1>12. InvoiceMatchesPaidRides'
  BY <1>3, <1>4, <1>5, <1>6 DEF SettlementInv, SettlementTypeOK, MoneyInv, InvoiceMatchesPaidRides
<1> QED
  BY <1>7, <1>8, <1>9, <1>10, <1>11, <1>12 DEF SettlementInv, MoneyInv

LEMMA StopInv ==
    ASSUME SettlementInv, NEW s \in Settlers, Stop(s)
    PROVE  SettlementInv'
<1>1. /\ settler' = [settler EXCEPT ![s] = Idle]
      /\ Idle \in SettlerRecord /\ Idle.todo = {} /\ Idle.step = "next"
  BY DEF Stop, Idle, SettlerRecord, SettlerSteps
<1>2. /\ UNCHANGED <<pay, kind, payer, charged, told>>
      /\ failures' \in 0..MaxFailures
  BY BoundAssumption DEF Stop, SettlementInv, SettlementTypeOK
<1>3. CASE UNCHANGED <<postings, balance>>
  <2>1. settler' \in [Settlers -> SettlerRecord] /\ SettlersKnow'
    BY <1>1, <1>2, <1>3, SettlerMoves
  <2> QED
    BY <1>2, <1>3, <2>1, FrameInv DEF SettlementInv, SettlementTypeOK, SettlerRecord
<1>4. CASE settler[s].step = "post" /\ PostRide(settler[s].ride)
  <2> DEFINE r == settler[s].ride
  <2>1. r \in Rides /\ pay[r] # "open"
    BY <1>4 DEF SettlementInv, SettlersKnow
  <2>2. PostRide(r)
    BY <1>4
  <2> HIDE DEF r
  <2>3. /\ postings' \in [Rides -> Nat]
        /\ balance' \in [Payers -> Int]
        /\ postings'[r] = 1
        /\ \A q \in Rides \ {r} : postings'[q] = postings[q]
    BY <2>1, <2>2, PostRideOnce
  <2>4. settler' \in [Settlers -> SettlerRecord] /\ SettlersKnow'
    BY <1>1, <1>2, <2>3, SettlerMoves
  <2>5. EndedRides' /\ MoneyInv'
    BY <1>2, <2>1, <2>3, PostingsGrow
  <2> QED
    BY <1>2, <2>3, <2>4, <2>5 DEF SettlementInv, SettlementTypeOK, SettlerRecord
<1> QED
  BY <1>3, <1>4 DEF Stop

LEMMA WalletInv ==
    ASSUME SettlementInv, NEW p \in Payers, Deposit(p) \/ Spend(p)
    PROVE  SettlementInv'
<1>1. balance' \in [Payers -> Int]
  BY AmountAssumption DEF Deposit, Spend, SettlementInv, SettlementTypeOK
<1>2. UNCHANGED <<pay, kind, payer, postings, charged, told, settler, failures>>
  BY DEF Deposit, Spend
<1> QED
  BY <1>1, <1>2, FrameInv DEF SettlementInv, SettlementTypeOK, SettlersKnow

LEMMA SettlementStep == SettlementInv /\ [SettlementNext]_settlementVars => SettlementInv'
<1> SUFFICES ASSUME SettlementInv, [SettlementNext]_settlementVars
             PROVE  SettlementInv'
  OBVIOUS
<1>1. CASE UNCHANGED settlementVars
  BY <1>1, FrameInv DEF settlementVars, SettlementInv, SettlementTypeOK, SettlersKnow
<1> QED
  BY <1>1, EndRideInv, TakeUpInv, BeginInv, ReadBalanceInv, PostInv,
     SetStatusInv, StopInv, WalletInv DEF SettlementNext, SettlerProceeds

LEMMA SettlementInductive == SettlementSpec => []SettlementInv
  BY SettlementStarts, SettlementStep, PTL DEF SettlementSpec

-----------------------------------------------------------------------------
\* The theorems

\* Every reachable state is well typed.
THEOREM SettlementTypeCorrect == SettlementSpec => []SettlementTypeOK
  BY SettlementInductive, PTL DEF SettlementInv

\* No ride is debited twice, however many settlers take it up and wherever
\* they stop.
THEOREM OneDebit == SettlementSpec => []DebitedAtMostOnce
  BY SettlementInductive, PTL DEF SettlementInv, MoneyInv

\* A ride that is shown as paid, or reported so, was debited.
THEOREM PaidIsTrue == SettlementSpec => []PaidMeansDebited
  BY SettlementInductive, PTL DEF SettlementInv, MoneyInv

\* A company's invoice and its debits agree.
THEOREM InvoiceIsTrue == SettlementSpec => []InvoiceMatchesPaidRides
  BY SettlementInductive, PTL DEF SettlementInv, MoneyInv

\* A decided payment status stays.
THEOREM DecidedOnce == SettlementSpec => StatusIsFinal
<1> DEFINE Kept == \A r \in Rides : pay[r] \notin {"open", "pending"} => pay'[r] = pay[r]
<1>1. ASSUME SettlementTypeOK, [SettlementNext]_settlementVars
      PROVE  Kept
  BY <1>1 DEF SettlementTypeOK, SettlementNext, SettlerProceeds, EndRide, TakeUp, Begin, ReadBalance, Post,
              SetStatus, Stop, Deposit, Spend, settlementVars
<1>2. SettlementTypeOK /\ [SettlementNext]_settlementVars => [Kept]_settlementVars
  BY <1>1
<1> HIDE DEF Kept
<1>3. SettlementSpec => [][Kept]_settlementVars
  BY <1>2, SettlementTypeCorrect, PTL DEF SettlementSpec
<1> QED
  BY <1>3, PTL DEF StatusIsFinal, Kept

-----------------------------------------------------------------------------
\* The ledger and settlement side by side are well typed: neither disturbs the
\* rows of the other.
THEOREM MoneyTypeCorrect == MoneySpec => []MoneyTypeOK
<1>1. MoneyInit => LedgerInv /\ SettlementInv
  BY LedgerStarts, SettlementStarts DEF MoneyInit
<1>2. LedgerInv /\ SettlementInv /\ [MoneyNext]_<<vars, settlementVars, focus>> => (LedgerInv /\ SettlementInv)'
  <2> SUFFICES ASSUME LedgerInv, SettlementInv, [MoneyNext]_<<vars, settlementVars, focus>>
               PROVE  LedgerInv' /\ SettlementInv'
    OBVIOUS
  <2>1. [Next]_vars /\ [SettlementNext]_settlementVars
    BY Zenon DEF MoneyNext
  <2> QED
    BY <2>1, LedgerStep, SettlementStep
<1>3. LedgerInv /\ SettlementInv => MoneyTypeOK
  BY DEF LedgerInv, SettlementInv, MoneyTypeOK
<1> QED
  BY <1>1, <1>2, <1>3, PTL DEF MoneySpec

\* Each behaves by its own specification beside the other.
LEMMA PartsOfMoney == MoneySpec => Spec /\ SettlementSpec
<1>1. MoneyInit => Init /\ SettlementInit
  BY DEF MoneyInit
<1>2. [MoneyNext]_<<vars, settlementVars, focus>> => [Next]_vars /\ [SettlementNext]_settlementVars
  BY Zenon DEF MoneyNext
<1> QED
  BY <1>1, <1>2, PTL DEF MoneySpec, Spec, SettlementSpec

\* Side by side the ledger tells the truth and implements Ledger, and rides are
\* debited once, shown as paid only then, and invoiced as they were debited.
THEOREM MoneyIsInOrder ==
    MoneySpec =>
        /\ [](ToldMeansRecorded /\ DebitedAtMostOnce /\ PaidMeansDebited /\ InvoiceMatchesPaidRides)
        /\ ImplementsLedger
<1>1. MoneySpec => []ToldMeansRecorded /\ ImplementsLedger
  BY PartsOfMoney, ToldIsTrue, PostImplementsLedger
<1>2. MoneySpec => []DebitedAtMostOnce /\ []PaidMeansDebited /\ []InvoiceMatchesPaidRides
  BY PartsOfMoney, OneDebit, PaidIsTrue, InvoiceIsTrue
<1> QED
  BY <1>1, <1>2, PTL
=============================================================================
