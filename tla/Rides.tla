------------------------------- MODULE Rides -------------------------------
(***************************************************************************)
(* The PostgreSQL side of a ride: the state machine of rides/state.go, the *)
(* customer's and the driver's handlers of rides/service.go and            *)
(* rides/driver.go, and the worker's dispatch of dispatch/dispatch.go.     *)
(*                                                                         *)
(* Transactions that wait for one another are split where they take row    *)
(* locks: AcceptOffer locks the offer and then the ride, CancelByCustomer  *)
(* and Round lock the ride and then touch its offers.  PostgreSQL breaks   *)
(* the resulting deadlocks by aborting one transaction.                    *)
(*                                                                         *)
(* Left out: what a ride costs and its payment_status (RideSettlement),    *)
(* categories and distances, the drivers' presence in Redis (RidePresence *)
(* adds it; here Nearest may return any driver), the pickup code (fixed    *)
(* for the life of a ride) and the audit rows.                             *)
(***************************************************************************)
EXTENDS Naturals, FiniteSets

CONSTANTS Customers, Drivers, Rides, NoCustomer, NoDriver

ASSUME SentinelAssumption ==
    /\ NoCustomer \notin Customers
    /\ NoDriver \notin Drivers

VARIABLES
    state,      \* state[r]: rides.state, "none" before the row exists
    customer,   \* customer[r]: rides.customer_id
    driver,     \* driver[r]: rides.driver_id
    offer,      \* offer[r][d]: ride_offers.state, "none" without a row; an
                \* 'offered' row is "open" until its expires_at, then "overdue"
    timedOut,   \* rides searching for longer than MatchingTimeout
    lock,       \* lock[r]: the open transaction that holds the ride's row
    accepting,  \* accepting[r][d]: how far d's AcceptOffer call for r is
    approved    \* drivers with drivers.status = 'approved'

vars == <<state, customer, driver, offer, timedOut, lock,
          accepting, approved>>

-----------------------------------------------------------------------------
\* The state machine

Active == {"matching", "assigned", "arrived", "in_progress"}
Driving == {"assigned", "arrived", "in_progress"}
Terminal == {"completed", "cancelled", "no_driver"}
RideStates == {"none"} \cup Active \cup Terminal

\* The pairs of the `transitions' table.
Transitions ==
    ({"matching"} \X {"assigned", "cancelled", "no_driver"})
      \cup ({"assigned"} \X {"arrived", "cancelled", "matching"})
      \cup ({"arrived"} \X {"in_progress", "cancelled", "matching"})
      \cup {<<"in_progress", "completed">>}

CanTransition(from, to) == <<from, to>> \in Transitions

Offered == {"open", "overdue"}
OfferStates == {"none", "accepted", "declined", "expired", "withdrawn"}
                 \cup Offered

Free == [by |-> "free", driver |-> NoDriver]

-----------------------------------------------------------------------------
\* What a statement of a transaction sees

HoldsOffer(d, r) == accepting[r][d] = "holding"

\* The unique index rides_driver_active_idx has a row of d.
HasActiveRide(d) == \E r \in Rides : driver[r] = d /\ state[r] \in Driving

\* The WHERE of Round's eligibility query, but for the category.
Eligible(d) ==
    /\ d \in approved
    /\ ~HasActiveRide(d)
    /\ \A r \in Rides : offer[r][d] # "open"

\* An UPDATE of the ride's 'offered' rows need not wait for an AcceptOffer
\* of another driver than d.
OffersUnlocked(r, d) == \A e \in Drivers \ {d} : ~HoldsOffer(e, r)

\* `UPDATE ride_offers SET state = 'withdrawn' ... AND state = 'offered''
Withdrawn(offers) ==
    [d \in Drivers |-> IF offers[d] \in Offered THEN "withdrawn" ELSE offers[d]]

-----------------------------------------------------------------------------
Init ==
    /\ state = [r \in Rides |-> "none"]
    /\ customer = [r \in Rides |-> NoCustomer]
    /\ driver = [r \in Rides |-> NoDriver]
    /\ offer = [r \in Rides |-> [d \in Drivers |-> "none"]]
    /\ timedOut = {}
    /\ lock = [r \in Rides |-> Free]
    /\ accepting = [r \in Rides |-> [d \in Drivers |-> "idle"]]
    /\ approved = Drivers

\* Request: the INSERT, which rides_customer_active_idx refuses while the
\* customer has an active ride.  A retry with the same idempotency key names
\* a ride that exists and changes nothing.
Request(c, r) ==
    /\ state[r] = "none"
    /\ \A q \in Rides : customer[q] = c => state[q] \notin Active
    /\ state' = [state EXCEPT ![r] = "matching"]
    /\ customer' = [customer EXCEPT ![r] = c]
    /\ UNCHANGED <<driver, offer, timedOut, lock, accepting, approved>>

-----------------------------------------------------------------------------
\* CancelByCustomer: FOR UPDATE on the ride, then the ride, then its offers

CancelLock(r) ==
    /\ lock[r] = Free
    /\ CanTransition(state[r], "cancelled")
    /\ lock' = [lock EXCEPT ![r] = [by |-> "customer", driver |-> NoDriver]]
    /\ UNCHANGED <<state, customer, driver, offer, timedOut,
                   accepting, approved>>

\* Mutant: the offers of a cancelled ride stay open.
CancelCommitKeepingOffers(r) ==
    /\ lock[r].by = "customer"
    /\ state' = [state EXCEPT ![r] = "cancelled"]
    /\ lock' = [lock EXCEPT ![r] = Free]
    /\ UNCHANGED <<customer, driver, offer, timedOut, accepting, approved>>

CancelCommit(r) ==
    /\ lock[r].by = "customer"
    /\ OffersUnlocked(r, NoDriver)
    /\ state' = [state EXCEPT ![r] = "cancelled"]
    /\ offer' = [offer EXCEPT ![r] = Withdrawn(offer[r])]
    /\ lock' = [lock EXCEPT ![r] = Free]
    /\ UNCHANGED <<customer, driver, timedOut, accepting, approved>>

-----------------------------------------------------------------------------
\* AcceptOffer: Approved, then FOR UPDATE on the offer, then on the ride

AcceptCheck(d, r) ==
    /\ accepting[r][d] = "idle"
    /\ d \in approved
    /\ offer[r][d] \in Offered
    /\ accepting' = [accepting EXCEPT ![r][d] = "checked"]
    /\ UNCHANGED <<state, customer, driver, offer, timedOut, lock,
                   approved>>

\* An offer that is closed, or whose expires_at has passed although no sweep
\* has expired it yet, is ErrOfferGone.  One clock stands for the server's,
\* which this handler reads, and the database's, which the sweep reads.
AcceptLockOffer(d, r) ==
    /\ accepting[r][d] = "checked"
    /\ accepting' = [accepting EXCEPT ![r][d] =
                       IF offer[r][d] = "open" THEN "holding" ELSE "idle"]
    /\ UNCHANGED <<state, customer, driver, offer, timedOut, lock,
                   approved>>

\* The ride is no longer searching: ErrOfferGone.  The error rolls the
\* transaction back, and the UPDATE of the offer with it.
AcceptLate(d, r) ==
    /\ HoldsOffer(d, r)
    /\ lock[r] = Free
    /\ state[r] # "matching"
    /\ accepting' = [accepting EXCEPT ![r][d] = "idle"]
    /\ UNCHANGED <<state, customer, driver, offer, timedOut, lock,
                   approved>>

AcceptLockRide(d, r) ==
    /\ HoldsOffer(d, r)
    /\ lock[r] = Free
    /\ state[r] = "matching"
    /\ lock' = [lock EXCEPT ![r] = [by |-> "accept", driver |-> d]]
    /\ UNCHANGED <<state, customer, driver, offer, timedOut,
                   accepting, approved>>

\* The UPDATE of the ride meets rides_driver_active_idx: ErrActiveRide.
AcceptRefused(d, r) ==
    /\ lock[r] = [by |-> "accept", driver |-> d]
    /\ HasActiveRide(d)
    /\ lock' = [lock EXCEPT ![r] = Free]
    /\ accepting' = [accepting EXCEPT ![r][d] = "idle"]
    /\ UNCHANGED <<state, customer, driver, offer, timedOut,
                   approved>>

\* Mutant: no unique index on the driver of an active ride.
AcceptCommitUnindexed(d, r) ==
    /\ lock[r] = [by |-> "accept", driver |-> d]
    /\ OffersUnlocked(r, d)
    /\ state' = [state EXCEPT ![r] = "assigned"]
    /\ driver' = [driver EXCEPT ![r] = d]
    /\ offer' = [offer EXCEPT ![r] =
                   Withdrawn([offer[r] EXCEPT ![d] = "accepted"])]
    /\ lock' = [lock EXCEPT ![r] = Free]
    /\ accepting' = [accepting EXCEPT ![r][d] = "idle"]
    /\ UNCHANGED <<customer, timedOut, approved>>

AcceptCommit(d, r) ==
    /\ lock[r] = [by |-> "accept", driver |-> d]
    /\ ~HasActiveRide(d)
    /\ OffersUnlocked(r, d)
    /\ state' = [state EXCEPT ![r] = "assigned"]
    /\ driver' = [driver EXCEPT ![r] = d]
    /\ offer' = [offer EXCEPT ![r] =
                   Withdrawn([offer[r] EXCEPT ![d] = "accepted"])]
    /\ lock' = [lock EXCEPT ![r] = Free]
    /\ accepting' = [accepting EXCEPT ![r][d] = "idle"]
    /\ UNCHANGED <<customer, timedOut, approved>>

DeclineOffer(d, r) ==
    /\ offer[r][d] \in Offered
    /\ ~HoldsOffer(d, r)
    /\ offer' = [offer EXCEPT ![r][d] = "declined"]
    /\ UNCHANGED <<state, customer, driver, timedOut, lock,
                   accepting, approved>>

-----------------------------------------------------------------------------
\* The driver's steps: Arrived, Start and Complete

DriverTransition(d, r, to) ==
    /\ lock[r] = Free
    /\ driver[r] = d
    /\ CanTransition(state[r], to)
    /\ to \in {"arrived", "in_progress", "completed"}
    /\ state' = [state EXCEPT ![r] = to]
    /\ UNCHANGED <<customer, driver, offer, timedOut, lock, accepting,
                   approved>>

\* Mutant: the offer of the driver who gives up stays accepted.
CancelByDriverKeepingOffer(d, r) ==
    /\ lock[r] = Free
    /\ driver[r] = d
    /\ CanTransition(state[r], "matching")
    /\ state' = [state EXCEPT ![r] = "matching"]
    /\ driver' = [driver EXCEPT ![r] = NoDriver]
    /\ timedOut' = timedOut \ {r}
    /\ UNCHANGED <<customer, offer, lock, accepting, approved>>

\* The search starts again: requested_at = now().
CancelByDriver(d, r) ==
    /\ lock[r] = Free
    /\ driver[r] = d
    /\ CanTransition(state[r], "matching")
    /\ state' = [state EXCEPT ![r] = "matching"]
    /\ driver' = [driver EXCEPT ![r] = NoDriver]
    /\ timedOut' = timedOut \ {r}
    /\ offer' = [offer EXCEPT ![r][d] = "declined"]
    /\ UNCHANGED <<customer, lock, accepting, approved>>

-----------------------------------------------------------------------------
\* The worker: Sweep expires offers and runs Round for every searching ride

ExpireOffer(r, d) ==
    /\ offer[r][d] = "overdue"
    /\ ~HoldsOffer(d, r)
    /\ offer' = [offer EXCEPT ![r][d] = "expired"]
    /\ UNCHANGED <<state, customer, driver, timedOut, lock,
                   accepting, approved>>

\* FOR UPDATE on the ride and the two early returns of Round.
Searching(r) ==
    /\ lock[r] = Free
    /\ state[r] = "matching"
    /\ \A d \in Drivers : offer[r][d] # "open"

\* Mutant: Round returns on an empty list of drivers before it looks at the
\* clock.
RoundNoDriverLate(r) ==
    /\ Searching(r)
    /\ r \in timedOut
    /\ \E d \in Drivers : offer[r][d] = "none" /\ Eligible(d)
    /\ state' = [state EXCEPT ![r] = "no_driver"]
    /\ UNCHANGED <<customer, driver, offer, timedOut, lock,
                   accepting, approved>>

RoundNoDriver(r) ==
    /\ Searching(r)
    /\ r \in timedOut
    /\ state' = [state EXCEPT ![r] = "no_driver"]
    /\ UNCHANGED <<customer, driver, offer, timedOut, lock,
                   accepting, approved>>

\* Round reads who is eligible and inserts the offer in a later statement:
\* a Round of another ride, or an accepted offer, may come between.
RoundPick(r, d) ==
    /\ Searching(r)
    /\ r \notin timedOut
    /\ offer[r][d] = "none"                                \* not excluded
    /\ Eligible(d)
    /\ lock' = [lock EXCEPT ![r] = [by |-> "round", driver |-> d]]
    /\ UNCHANGED <<state, customer, driver, offer, timedOut,
                   accepting, approved>>

RoundInsert(r, d) ==
    /\ lock[r] = [by |-> "round", driver |-> d]
    /\ offer' = [offer EXCEPT ![r][d] = "open"]
    /\ lock' = [lock EXCEPT ![r] = Free]
    /\ UNCHANGED <<state, customer, driver, timedOut, accepting,
                   approved>>

-----------------------------------------------------------------------------
\* A transaction that is rolled back: a deadlock victim, a lost connection

Rollback(r) ==
    /\ lock[r] # Free
    /\ lock' = [lock EXCEPT ![r] = Free]
    /\ accepting' = [accepting EXCEPT ![r] = [d \in Drivers |->
                       IF lock[r] = [by |-> "accept", driver |-> d]
                       THEN "idle" ELSE accepting[r][d]]]
    /\ UNCHANGED <<state, customer, driver, offer, timedOut,
                   approved>>

RollbackAccept(d, r) ==
    /\ HoldsOffer(d, r)
    /\ lock[r] # [by |-> "accept", driver |-> d]
    /\ accepting' = [accepting EXCEPT ![r][d] = "idle"]
    /\ UNCHANGED <<state, customer, driver, offer, timedOut, lock,
                   approved>>

\* The ride's holder waits for the offer of d, whose AcceptOffer waits for
\* the ride; the deadlock detector picks that AcceptOffer.
DeadlockVictim(d, r) ==
    /\ \/ lock[r].by = "customer"
       \/ lock[r].by = "accept" /\ lock[r].driver # d
    /\ RollbackAccept(d, r)

-----------------------------------------------------------------------------
\* Time and the admin

LapseOffer(r, d) ==
    /\ offer[r][d] = "open"
    /\ offer' = [offer EXCEPT ![r][d] = "overdue"]
    /\ UNCHANGED <<state, customer, driver, timedOut, lock, accepting,
                   approved>>

TimeOutSearch(r) ==
    /\ state[r] = "matching"
    /\ r \notin timedOut
    /\ timedOut' = timedOut \cup {r}
    /\ UNCHANGED <<state, customer, driver, offer, lock,
                   accepting, approved>>

Suspend(d) ==
    /\ approved' = approved \ {d}
    /\ UNCHANGED <<state, customer, driver, offer, timedOut, lock,
                   accepting>>

Approve(d) ==
    /\ approved' = approved \cup {d}
    /\ UNCHANGED <<state, customer, driver, offer, timedOut, lock,
                   accepting>>

-----------------------------------------------------------------------------
CustomerStep(r) ==
    \/ \E c \in Customers : Request(c, r)
    \/ CancelLock(r)
    \/ CancelCommit(r)

AcceptStep(d, r) ==
    \/ AcceptCheck(d, r)
    \/ AcceptLockOffer(d, r)
    \/ AcceptLate(d, r)
    \/ AcceptLockRide(d, r)
    \/ AcceptRefused(d, r)
    \/ AcceptCommit(d, r)

DriverStep(d, r) ==
    \/ AcceptStep(d, r)
    \/ DeclineOffer(d, r)
    \/ \E to \in {"arrived", "in_progress", "completed"} :
         DriverTransition(d, r, to)
    \/ CancelByDriver(d, r)

WorkerStep(r) ==
    \/ RoundNoDriver(r)
    \/ \E d \in Drivers : ExpireOffer(r, d) \/ RoundPick(r, d) \/ RoundInsert(r, d)

FailureStep(r) ==
    \/ Rollback(r)
    \/ \E d \in Drivers : RollbackAccept(d, r)

ClockStep(r) ==
    \/ TimeOutSearch(r)
    \/ \E d \in Drivers : LapseOffer(r, d)

AdminStep == \E d \in Drivers : Suspend(d) \/ Approve(d)

Next ==
    \/ \E r \in Rides :
         \/ CustomerStep(r)
         \/ \E d \in Drivers : DriverStep(d, r)
         \/ WorkerStep(r)
         \/ FailureStep(r)
         \/ ClockStep(r)
    \/ AdminStep

Spec == Init /\ [][Next]_vars

\* The worker loop runs every second and the clock does not stop; a call that
\* is under way goes on, and the deadlock detector always runs.  Row locks are
\* granted in the order they are asked for, so the Round that closes a search
\* is not overtaken for ever by customers whose cancellations roll back.
Fairness ==
    \A r \in Rides :
      /\ SF_vars(RoundNoDriver(r))
      /\ WF_vars(TimeOutSearch(r))
      /\ WF_vars(CancelCommit(r))
      /\ \A d \in Drivers :
           /\ WF_vars(RoundInsert(r, d))
           /\ WF_vars(LapseOffer(r, d))
           /\ WF_vars(AcceptStep(d, r) /\ ~AcceptCheck(d, r))
           /\ WF_vars(DeadlockVictim(d, r))

FairSpec == Spec /\ Fairness

-----------------------------------------------------------------------------
\* Properties

Locks == [by : {"free", "customer", "accept", "round"},
          driver : Drivers \cup {NoDriver}]

\* The type invariant of the rides, the offers and the open transactions.
TypeOK ==
    /\ state \in [Rides -> RideStates]
    /\ customer \in [Rides -> Customers \cup {NoCustomer}]
    /\ driver \in [Rides -> Drivers \cup {NoDriver}]
    /\ offer \in [Rides -> [Drivers -> OfferStates]]
    /\ timedOut \in SUBSET Rides
    /\ lock \in [Rides -> Locks]
    /\ accepting \in [Rides -> [Drivers -> {"idle", "checked", "holding"}]]
    /\ approved \in SUBSET Drivers

\* A customer has at most one active ride and a driver drives at most one,
\* although the checks that Round makes are stale by the time a driver
\* accepts: only the answer of the two unique indexes protects them.
OneActiveRide ==
    \A q, r \in Rides : q # r =>
      /\ state[q] \in Active /\ state[r] \in Active => customer[q] # customer[r]
      /\ state[q] \in Driving /\ state[r] \in Driving => driver[q] # driver[r]

\* A ride has a driver exactly when that driver's offer is the accepted one,
\* whatever cancellations, expiries, rollbacks and rounds came between the
\* offer and now; so no ride ever has two winners.
DriverHoldsTheAcceptedOffer ==
    \A r \in Rides, d \in Drivers : offer[r][d] = "accepted" <=> driver[r] = d

\* An offer a driver can still take belongs to a ride that still searches,
\* and it is the only one of its ride: a driver never gets ErrOfferGone for an
\* offer that is open, unless time passes before his call has both its locks.
OpenOffersAreLive ==
    \A r \in Rides, d \in Drivers : offer[r][d] = "open" =>
      /\ state[r] = "matching"
      /\ \A e \in Drivers \ {d} : offer[r][e] # "open"

\* What a transaction has read under its locks is still true when it writes,
\* although the two writes are steps apart and nobody asks again.
LockedReadsStayTrue ==
    \A r \in Rides :
      /\ lock[r].by = "free" <=> lock[r] = Free
      /\ lock[r].by = "customer" => CanTransition(state[r], "cancelled")
      /\ lock[r].by = "accept" =>
           /\ state[r] = "matching"
           /\ lock[r].driver \in Drivers
           /\ HoldsOffer(lock[r].driver, r)
      /\ lock[r].by = "round" =>
           /\ state[r] = "matching"
           /\ lock[r].driver \in Drivers
           /\ offer[r][lock[r].driver] = "none"
           /\ \A d \in Drivers : offer[r][d] # "open"
      /\ \A d \in Drivers : HoldsOffer(d, r) => offer[r][d] \in Offered

\* A ride's state moves along the table of state.go even though Round and
\* AcceptOffer write it without asking CanTransition; terminal rides keep
\* their state, their customer and their driver.
RideStepsFollowTable ==
    [][\A r \in Rides :
         /\ state'[r] # state[r] =>
              CanTransition(state[r], state'[r]) \/ state[r] = "none"
         /\ state[r] \in Terminal =>
              /\ customer'[r] = customer[r]
              /\ driver'[r] = driver[r]]_vars

\* An offer opens at most once: one that was answered, expired or withdrawn
\* never opens again, so a driver who gave the ride up is not asked again.
OffersOpenOnce ==
    [][\A r \in Rides, d \in Drivers :
         offer'[r][d] = "open" /\ offer[r][d] # "open" => offer[r][d] = "none"]_vars

\* A search ends: the ride gets a driver, is cancelled, or becomes no_driver,
\* however often transactions deadlock and drivers let offers lapse.
SearchEnds ==
    \A r \in Rides : state[r] = "matching" ~> state[r] # "matching"
=============================================================================
