--------------------------- MODULE RideSettlement ---------------------------
(***************************************************************************)
(* How an ended ride is paid: settle and setPaymentStatus of               *)
(* rides/driver.go, called by the handler that ended the ride and by the   *)
(* worker's SettlePending, with business/members.go for company rides.     *)
(*                                                                         *)
(* A settlement reads the payer's balance, posts to the ledger under the   *)
(* ride's key, and writes the status: three transactions, so settlements   *)
(* of one ride and of other debits of its payer interleave, and each may   *)
(* stop between two of them.  ledger.Post is the atomic step LedgerPost    *)
(* shows it to be.  All fares are Price, all cancellation fees Fee, and a  *)
(* cash ride's commission is positive; the drivers' and the platform's     *)
(* accounts, which nothing here reads, and the split of the fare are left  *)
(* out.                                                                    *)
(***************************************************************************)
EXTENDS Integers, FiniteSets

CONSTANTS Rides, Payers, NoPayer, Settlers, NoRide,
    Price, Fee,
    MaxBalance,     \* bound of what deposits bring a payer to
    MaxFailures     \* bound of the settlements that stop half way

ASSUME AmountAssumption == Price \in Nat \ {0} /\ Fee \in Nat \ {0}
ASSUME NoRideAssumption == NoRide \notin Rides /\ NoPayer \notin Payers
ASSUME BoundAssumption == MaxFailures \in Nat

VARIABLES
    pay,        \* pay[r]: rides.payment_status, "open" before the ride ended
    kind,       \* kind[r]: how the ended ride is paid
    payer,      \* payer[r]: whose wallet is debited for it
    postings,   \* postings[r]: ledger transactions that debited it
    balance,    \* balance[p]: ledger.Balance of p's wallet
    charged,    \* rides with a business_charges row
    told,       \* payment events emitted, as <<ride, status>>
    settler,    \* settler[s]: the rides it has listed and the one at hand
    failures    \* settlements that stopped half way

settlementVars == <<pay, kind, payer, postings, balance, charged, told, settler, failures>>

\* "fare" is paid from the customer's wallet, "business" from the company's,
\* "cash" owes a commission, "fee" is a cancellation fee by wallet.
Kinds == {"fare", "business", "cash", "fee"}
SettlerSteps == {"next", "balance", "post", "paid", "failed"}
Idle == [todo |-> {}, ride |-> NoRide, step |-> "next"]

-----------------------------------------------------------------------------
SettlementInit ==
    /\ pay = [r \in Rides |-> "open"]
    /\ kind = [r \in Rides |-> "none"]
    /\ payer = [r \in Rides |-> NoPayer]
    /\ postings = [r \in Rides |-> 0]
    /\ balance = [p \in Payers |-> 0]
    /\ charged = {}
    /\ told = {}
    /\ settler = [s \in Settlers |-> Idle]
    /\ failures = 0

\* Complete, or CancelByCustomer with a fee: payment_status = 'pending'.
EndRide(r, k, p) ==
    /\ pay[r] = "open"
    /\ pay' = [pay EXCEPT ![r] = "pending"]
    /\ kind' = [kind EXCEPT ![r] = k]
    /\ payer' = [payer EXCEPT ![r] = p]
    /\ UNCHANGED <<postings, balance, charged, told, settler, failures>>

-----------------------------------------------------------------------------
\* settle

\* SettlePending lists pending rides, and the handler that ended a ride has
\* just that one; by the time a ride's turn comes the list may be stale.
TakeUp(s, rs) ==
    /\ settler[s] = Idle
    /\ rs # {}
    /\ \A r \in rs : pay[r] = "pending"
    /\ settler' = [settler EXCEPT ![s].todo = rs]
    /\ UNCHANGED <<pay, kind, payer, postings, balance, charged, told, failures>>

Begin(s, r) ==
    /\ settler[s].step = "next"
    /\ r \in settler[s].todo
    /\ settler' = [settler EXCEPT ![s] =
         [todo |-> @.todo \ {r},
          ride |-> r,
          step |-> IF kind[r] \in {"fare", "business"} THEN "balance" ELSE "post"]]
    /\ UNCHANGED <<pay, kind, payer, postings, balance, charged, told, failures>>

\* Mutant: a ride whose payer has too little is left for a later try.
ReadBalanceLeavingPending(s) ==
    /\ settler[s].step = "balance"
    /\ settler' = [settler EXCEPT ![s] =
         IF balance[payer[@.ride]] < Price
         THEN [todo |-> @.todo, ride |-> NoRide, step |-> "next"]
         ELSE [@ EXCEPT !.step = "post"]]
    /\ UNCHANGED <<pay, kind, payer, postings, balance, charged, told, failures>>

ReadBalance(s) ==
    /\ settler[s].step = "balance"
    /\ settler' = [settler EXCEPT ![s].step =
         IF balance[payer[settler[s].ride]] < Price THEN "failed" ELSE "post"]
    /\ UNCHANGED <<pay, kind, payer, postings, balance, charged, told, failures>>

\* Mutant: a key of its own for every call.
PostRideAgain(r) ==
    /\ postings' = [postings EXCEPT ![r] = @ + 1]
    /\ balance' = [balance EXCEPT ![payer[r]] =
         @ - (IF kind[r] = "fee" THEN Fee
              ELSE IF kind[r] = "cash" THEN 0 ELSE Price)]

\* ledger.Post under the ride's key: nothing when the key is recorded.
PostRide(r) ==
    IF postings[r] > 0 THEN UNCHANGED <<postings, balance>>
    ELSE /\ postings' = [postings EXCEPT ![r] = @ + 1]
         /\ balance' = [balance EXCEPT ![payer[r]] =
              @ - (IF kind[r] = "fee" THEN Fee
                   ELSE IF kind[r] = "cash" THEN 0 ELSE Price)]

\* Mutant: an error of Post is ignored.
PostIgnoringErrors(s) ==
    /\ settler[s].step = "post"
    /\ PostRide(settler[s].ride) \/ UNCHANGED <<postings, balance>>
    /\ settler' = [settler EXCEPT ![s].step = "paid"]
    /\ UNCHANGED <<pay, kind, payer, charged, told, failures>>

Post(s) ==
    /\ settler[s].step = "post"
    /\ PostRide(settler[s].ride)
    /\ settler' = [settler EXCEPT ![s].step = "paid"]
    /\ UNCHANGED <<pay, kind, payer, charged, told, failures>>

\* Mutant: the company is charged for its failed rides too.
SetStatusCharging(s) ==
    LET r == settler[s].ride
        status == IF settler[s].step = "paid" /\ kind[r] = "cash" THEN "cash"
                  ELSE settler[s].step
    IN  /\ settler[s].step \in {"paid", "failed"}
        /\ pay' = [pay EXCEPT ![r] = IF @ = "pending" THEN status ELSE @]
        /\ charged' = charged \cup
             (IF kind[r] = "business" THEN {r} ELSE {})
        /\ told' = told \cup {<<r, status>>}
        /\ settler' = [settler EXCEPT ![s] =
                         [todo |-> @.todo, ride |-> NoRide, step |-> "next"]]
        /\ UNCHANGED <<kind, payer, postings, balance, failures>>

\* setPaymentStatus, one transaction: the status if the ride is still
\* pending, the company's charge row and the event in any case.
SetStatus(s) ==
    LET r == settler[s].ride
        status == IF settler[s].step = "paid" /\ kind[r] = "cash" THEN "cash"
                  ELSE settler[s].step
    IN  /\ settler[s].step \in {"paid", "failed"}
        /\ pay' = [pay EXCEPT ![r] = IF @ = "pending" THEN status ELSE @]
        /\ charged' = charged \cup
             (IF status = "paid" /\ kind[r] = "business" THEN {r} ELSE {})
        /\ told' = told \cup {<<r, status>>}
        /\ settler' = [settler EXCEPT ![s] =
                         [todo |-> @.todo, ride |-> NoRide, step |-> "next"]]
        /\ UNCHANGED <<kind, payer, postings, balance, failures>>

\* An error or a crash: the rest of the list is dropped with the ride at
\* hand.  Post may have committed without the settler knowing.
Stop(s) ==
    /\ settler[s] # Idle
    /\ failures < MaxFailures
    /\ failures' = failures + 1
    /\ \/ UNCHANGED <<postings, balance>>
       \/ settler[s].step = "post" /\ PostRide(settler[s].ride)
    /\ settler' = [settler EXCEPT ![s] = Idle]
    /\ UNCHANGED <<pay, kind, payer, charged, told>>

-----------------------------------------------------------------------------
\* The rest of the system moves money in the same wallets

Deposit(p) ==
    /\ balance[p] + Price <= MaxBalance
    /\ balance' = [balance EXCEPT ![p] = @ + Price]
    /\ UNCHANGED <<pay, kind, payer, postings, charged, told, settler, failures>>

\* An order, a refund or a payout that finds the money there.
Spend(p) ==
    /\ balance[p] >= Price
    /\ balance' = [balance EXCEPT ![p] = @ - Price]
    /\ UNCHANGED <<pay, kind, payer, postings, charged, told, settler, failures>>

-----------------------------------------------------------------------------
SettlerProceeds(s) ==
    \/ \E r \in Rides : Begin(s, r)
    \/ ReadBalance(s)
    \/ Post(s)
    \/ SetStatus(s)

SettlementNext ==
    \/ \E r \in Rides, k \in Kinds, p \in Payers : EndRide(r, k, p)
    \/ \E s \in Settlers :
         \/ \E rs \in SUBSET Rides : TakeUp(s, rs)
         \/ SettlerProceeds(s)
         \/ Stop(s)
    \/ \E p \in Payers : Deposit(p) \/ Spend(p)

SettlementSpec == SettlementInit /\ [][SettlementNext]_settlementVars

\* The worker lists what is pending every ten seconds, fifty rides at a time
\* and the longest waiting first, so each pending ride is listed in the end.
SettlementFairness ==
    /\ \A s \in Settlers : WF_settlementVars(SettlerProceeds(s))
    /\ \A r \in Rides :
         SF_settlementVars(\E s \in Settlers, rs \in SUBSET Rides : r \in rs /\ TakeUp(s, rs))

SettlementFairSpec == SettlementSpec /\ SettlementFairness

-----------------------------------------------------------------------------
\* Properties

\* The type invariant: every status is one the database accepts.
SettlementTypeOK ==
    /\ pay \in [Rides -> {"open", "pending", "paid", "cash", "failed"}]
    /\ kind \in [Rides -> Kinds \cup {"none"}]
    /\ payer \in [Rides -> Payers \cup {NoPayer}]
    /\ postings \in [Rides -> Nat]
    /\ balance \in [Payers -> Int]
    /\ charged \in SUBSET Rides
    /\ told \in SUBSET (Rides \X {"paid", "cash", "failed"})
    /\ settler \in [Settlers -> [todo : SUBSET Rides, ride : Rides \cup {NoRide},
                                 step : SettlerSteps]]
    /\ failures \in 0..MaxFailures

\* However many settlers work on a ride and wherever they stop, it is debited
\* at most once, and never before it ended.
DebitedAtMostOnce ==
    \A r \in Rides :
      /\ postings[r] <= 1
      /\ pay[r] = "open" => postings[r] = 0

\* A ride is shown as paid, and its customer told so, only when the ledger has
\* taken the money, although the status is written from a stale snapshot.
PaidMeansDebited ==
    \A r \in Rides :
      \/ pay[r] \in {"paid", "cash"}
      \/ <<r, "paid">> \in told
      \/ <<r, "cash">> \in told
      => postings[r] = 1

\* The company's invoice has every company ride that is shown as paid, and
\* only rides of the company that the ledger has debited.
InvoiceMatchesPaidRides ==
    \A r \in Rides :
      /\ pay[r] = "paid" /\ kind[r] = "business" => r \in charged
      /\ r \in charged => kind[r] = "business" /\ postings[r] = 1

\* A payment status that was decided never changes, although late settlers
\* decide again.
StatusIsFinal ==
    [][\A r \in Rides : pay[r] \notin {"open", "pending"} => pay'[r] = pay[r]]_settlementVars

\* Every ride that ended is settled: what a stopped settler leaves pending is
\* taken up again.
PendingIsSettled == <>[](\A r \in Rides : pay[r] # "pending")

\* A ride left pending is tried again, and trying again changes nothing that
\* was recorded: a ride whose fare was taken does not become failed.
FailedMeansNotDebited ==
    \A r \in Rides : pay[r] = "failed" => postings[r] = 0
=============================================================================
