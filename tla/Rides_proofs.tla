---------------------------- MODULE Rides_proofs ----------------------------
(***************************************************************************)
(* The safety properties of Rides, for every set of customers, drivers and *)
(* rides.  The inductive invariant IInv adds to the properties themselves  *)
(* that a ride has a driver exactly while its state says so.  The two      *)
(* action properties follow from it step by step.                          *)
(***************************************************************************)
EXTENDS Rides, TLAPS

\* A ride has no driver before it is assigned and one while it is driven.
DriverMatchesState ==
    \A r \in Rides :
      /\ state[r] \in {"none", "matching", "no_driver"} => driver[r] = NoDriver
      /\ state[r] \in Driving => driver[r] \in Drivers

\* The parts of the invariant that speak of rides and offers only.
RidesInv ==
    /\ DriverMatchesState
    /\ DriverHoldsTheAcceptedOffer
    /\ OneActiveRide
    /\ OpenOffersAreLive

IInv == TypeOK /\ LockedReadsStayTrue /\ RidesInv

rideVars == <<state, customer, driver, offer>>

-----------------------------------------------------------------------------
\* The table of state.go, read by its second column: the form in which the
\* proofs use CanTransition.
LEMMA Table ==
    ASSUME NEW s
    PROVE  /\ CanTransition(s, "cancelled") <=> s \in {"matching", "assigned", "arrived"}
           /\ CanTransition(s, "matching") <=> s \in {"assigned", "arrived"}
           /\ CanTransition(s, "arrived") <=> s = "assigned"
           /\ CanTransition(s, "in_progress") <=> s = "arrived"
           /\ CanTransition(s, "completed") <=> s = "in_progress"
           /\ CanTransition(s, "assigned") <=> s = "matching"
           /\ CanTransition(s, "no_driver") <=> s = "matching"
  BY DEF CanTransition, Transitions

\* What withdrawing does to one offer, and that it leaves a row of offers.
LEMMA WithdrawnOffers ==
    ASSUME NEW offers \in [Drivers -> OfferStates]
    PROVE  /\ Withdrawn(offers) \in [Drivers -> OfferStates]
           /\ \A d \in Drivers :
                Withdrawn(offers)[d] = IF offers[d] \in Offered THEN "withdrawn"
                                       ELSE offers[d]
  BY DEF Withdrawn, OfferStates, Offered

-----------------------------------------------------------------------------
\* Type correctness

LEMMA InitType == Init => TypeOK
  BY DEF Init, TypeOK, RideStates, OfferStates, Locks, Free

LEMMA NextType == TypeOK /\ [Next]_vars => TypeOK'
<1> SUFFICES ASSUME TypeOK, [Next]_vars
             PROVE  TypeOK'
  OBVIOUS
<1> USE DEF TypeOK
<1>1. ASSUME NEW r \in Rides, CustomerStep(r)
      PROVE  TypeOK'
  <2>1. ASSUME NEW c \in Customers, Request(c, r)
        PROVE  TypeOK'
    BY <2>1 DEF Request, RideStates, Active
  <2>2. CASE CancelLock(r)
    BY <2>2 DEF CancelLock, Locks
  <2>3. CASE CancelCommit(r)
    BY <2>3, WithdrawnOffers DEF CancelCommit, RideStates, Terminal, Locks, Free
  <2> QED
    BY <1>1, <2>1, <2>2, <2>3 DEF CustomerStep
<1>2. ASSUME NEW r \in Rides, NEW d \in Drivers, AcceptStep(d, r)
      PROVE  TypeOK'
  <2>1. CASE AcceptCheck(d, r)
    BY <2>1 DEF AcceptCheck
  <2>2. CASE AcceptLockOffer(d, r)
    BY <2>2 DEF AcceptLockOffer
  <2>3. CASE AcceptLate(d, r)
    BY <2>3 DEF AcceptLate
  <2>4. CASE AcceptLockRide(d, r)
    BY <2>4 DEF AcceptLockRide, Locks
  <2>5. CASE AcceptRefused(d, r)
    BY <2>5 DEF AcceptRefused, Locks, Free
  <2>6. CASE AcceptCommit(d, r)
    <3>1. [offer[r] EXCEPT ![d] = "accepted"] \in [Drivers -> OfferStates]
      BY DEF OfferStates
    <3> QED
      BY <2>6, <3>1, WithdrawnOffers
         DEF AcceptCommit, RideStates, Active, Locks, Free
  <2> QED
    BY <1>2, <2>1, <2>2, <2>3, <2>4, <2>5, <2>6 DEF AcceptStep
<1>3. ASSUME NEW r \in Rides, NEW d \in Drivers, DriverStep(d, r)
      PROVE  TypeOK'
  <2>1. CASE DeclineOffer(d, r)
    BY <2>1 DEF DeclineOffer, OfferStates
  <2>2. ASSUME NEW to \in {"arrived", "in_progress", "completed"},
               DriverTransition(d, r, to)
        PROVE  TypeOK'
    BY <2>2 DEF DriverTransition, RideStates, Active, Terminal
  <2>3. CASE CancelByDriver(d, r)
    BY <2>3 DEF CancelByDriver, RideStates, Active, OfferStates
  <2> QED
    BY <1>2, <1>3, <2>1, <2>2, <2>3 DEF DriverStep
<1>4. ASSUME NEW r \in Rides, WorkerStep(r)
      PROVE  TypeOK'
  <2>1. CASE RoundNoDriver(r)
    BY <2>1 DEF RoundNoDriver, RideStates, Terminal
  <2>2. ASSUME NEW d \in Drivers, ExpireOffer(r, d)
        PROVE  TypeOK'
    BY <2>2 DEF ExpireOffer, OfferStates
  <2>3. ASSUME NEW d \in Drivers, RoundPick(r, d)
        PROVE  TypeOK'
    BY <2>3 DEF RoundPick, Locks
  <2>4. ASSUME NEW d \in Drivers, RoundInsert(r, d)
        PROVE  TypeOK'
    BY <2>4 DEF RoundInsert, OfferStates, Offered, Locks, Free
  <2> QED
    BY <1>4, <2>1, <2>2, <2>3, <2>4 DEF WorkerStep
<1>5. ASSUME NEW r \in Rides, FailureStep(r)
      PROVE  TypeOK'
  <2>1. CASE Rollback(r)
    BY <2>1 DEF Rollback, Locks, Free
  <2>2. ASSUME NEW d \in Drivers, RollbackAccept(d, r)
        PROVE  TypeOK'
    BY <2>2 DEF RollbackAccept
  <2> QED
    BY <1>5, <2>1, <2>2 DEF FailureStep
<1>6. ASSUME NEW r \in Rides, ClockStep(r)
      PROVE  TypeOK'
  <2>1. CASE TimeOutSearch(r)
    BY <2>1 DEF TimeOutSearch
  <2>2. ASSUME NEW d \in Drivers, LapseOffer(r, d)
        PROVE  TypeOK'
    BY <2>2 DEF LapseOffer, OfferStates, Offered
  <2> QED
    BY <1>6, <2>1, <2>2 DEF ClockStep
<1>7. CASE AdminStep
  BY <1>7 DEF AdminStep, Suspend, Approve
<1>8. CASE UNCHANGED vars
  BY <1>8 DEF vars
<1> QED
  BY <1>1, <1>3, <1>4, <1>5, <1>6, <1>7, <1>8 DEF Next

\* Every reachable state is well typed.
THEOREM TypeCorrect == Spec => []TypeOK
  BY InitType, NextType, PTL DEF Spec

-----------------------------------------------------------------------------
\* The inductive step

LEMMA InitInv == Init => IInv
<1> SUFFICES ASSUME Init
             PROVE  IInv
  OBVIOUS
<1>1. TypeOK
  BY InitType
<1>2. LockedReadsStayTrue
  BY DEF Init, LockedReadsStayTrue, Free, HoldsOffer
<1>3. DriverMatchesState
  BY DEF Init, DriverMatchesState, Driving
<1>4. DriverHoldsTheAcceptedOffer
  BY SentinelAssumption DEF Init, DriverHoldsTheAcceptedOffer
<1>5. OneActiveRide
  BY DEF Init, OneActiveRide, Active, Driving
<1>6. OpenOffersAreLive
  BY DEF Init, OpenOffersAreLive
<1> QED
  BY <1>1, <1>2, <1>3, <1>4, <1>5, <1>6 DEF IInv, RidesInv

\* Steps that only take, release or prepare locks keep what is said of rides
\* and offers.
LEMMA FrameInv == RidesInv /\ UNCHANGED rideVars => RidesInv'
  BY DEF RidesInv, DriverMatchesState, DriverHoldsTheAcceptedOffer,
         OneActiveRide, HasActiveRide, OpenOffersAreLive, rideVars

\* The customer's steps.
LEMMA CustomerInv ==
    ASSUME IInv, NEW r \in Rides, CustomerStep(r)
    PROVE  LockedReadsStayTrue' /\ RidesInv'
<1> USE DEF IInv, RidesInv
<1>1. ASSUME NEW c \in Customers, Request(c, r)
      PROVE  LockedReadsStayTrue' /\ RidesInv'
  <2>1. LockedReadsStayTrue'
    BY <1>1, Table
       DEF Request, TypeOK, LockedReadsStayTrue, HoldsOffer, Free, Offered
  <2>2. DriverMatchesState'
    BY <1>1
       DEF Request, TypeOK, DriverMatchesState, Driving
  <2>3. DriverHoldsTheAcceptedOffer'
    BY <1>1, SentinelAssumption
       DEF Request, TypeOK, DriverMatchesState, DriverHoldsTheAcceptedOffer
  <2>4. OneActiveRide'
    BY <1>1
       DEF Request, TypeOK, OneActiveRide, Active, Driving, HasActiveRide
  <2>5. OpenOffersAreLive'
    BY <1>1
       DEF Request, TypeOK, LockedReadsStayTrue, OpenOffersAreLive
  <2> QED
    BY <2>1, <2>2, <2>3, <2>4, <2>5
<1>2. CASE CancelLock(r)
  <2>1. LockedReadsStayTrue'
    BY <1>2 DEF CancelLock, TypeOK, LockedReadsStayTrue, HoldsOffer, Free
  <2> QED
    BY <1>2, <2>1, FrameInv DEF CancelLock, rideVars
<1>3. CASE CancelCommit(r)
  <2>1. LockedReadsStayTrue'
    BY <1>3, Table, WithdrawnOffers, SentinelAssumption
       DEF CancelCommit, OffersUnlocked, TypeOK, LockedReadsStayTrue, HoldsOffer, Free, Offered
  <2>2. DriverMatchesState'
    BY <1>3, Table, WithdrawnOffers
       DEF CancelCommit, OffersUnlocked, TypeOK, DriverMatchesState, Driving, LockedReadsStayTrue
  <2>3. DriverHoldsTheAcceptedOffer'
    <3>1. /\ offer'[r] = Withdrawn(offer[r])
          /\ \A q \in Rides \ {r} : offer'[q] = offer[q]
      BY <1>3 DEF CancelCommit, TypeOK
    <3>2. \A d \in Drivers :
            Withdrawn(offer[r])[d] = "accepted" <=> offer[r][d] = "accepted"
      BY WithdrawnOffers DEF TypeOK, Offered
    <3> QED
      BY <1>3, <3>1, <3>2 DEF CancelCommit, DriverHoldsTheAcceptedOffer
  <2>4. OneActiveRide'
    BY <1>3, Table, WithdrawnOffers
       DEF CancelCommit, OffersUnlocked, TypeOK, OneActiveRide, Active, Driving, HasActiveRide
  <2>5. OpenOffersAreLive'
    BY SMTT(60), <1>3, Table, WithdrawnOffers
       DEF CancelCommit, OffersUnlocked, TypeOK, LockedReadsStayTrue, OpenOffersAreLive, Offered
  <2> QED
    BY <2>1, <2>2, <2>3, <2>4, <2>5
<1> QED
  BY <1>1, <1>2, <1>3 DEF CustomerStep

\* The steps of an AcceptOffer call.
LEMMA AcceptInv ==
    ASSUME IInv, NEW r \in Rides, NEW d \in Drivers, AcceptStep(d, r)
    PROVE  LockedReadsStayTrue' /\ RidesInv'
<1> USE DEF IInv, RidesInv
<1>1. CASE AcceptCheck(d, r)
  <2>1. LockedReadsStayTrue'
    BY <1>1
       DEF AcceptCheck, TypeOK, LockedReadsStayTrue, HoldsOffer, Free
  <2> QED
    BY <1>1, <2>1, FrameInv DEF AcceptCheck, rideVars
<1>2. CASE AcceptLockOffer(d, r)
  <2>1. LockedReadsStayTrue'
    BY <1>2
       DEF AcceptLockOffer, TypeOK, LockedReadsStayTrue, HoldsOffer, Free, Offered
  <2> QED
    BY <1>2, <2>1, FrameInv DEF AcceptLockOffer, rideVars
<1>3. CASE AcceptLate(d, r)
  <2>1. LockedReadsStayTrue'
    BY <1>3
       DEF AcceptLate, TypeOK, LockedReadsStayTrue, HoldsOffer, Free
  <2> QED
    BY <1>3, <2>1, FrameInv DEF AcceptLate, rideVars
<1>4. CASE AcceptLockRide(d, r)
  <2>1. LockedReadsStayTrue'
    BY <1>4
       DEF AcceptLockRide, TypeOK, LockedReadsStayTrue, HoldsOffer, Free
  <2> QED
    BY <1>4, <2>1, FrameInv DEF AcceptLockRide, rideVars
<1>5. CASE AcceptRefused(d, r)
  <2>1. LockedReadsStayTrue'
    BY <1>5
       DEF AcceptRefused, TypeOK, LockedReadsStayTrue, HoldsOffer, Free
  <2> QED
    BY <1>5, <2>1, FrameInv DEF AcceptRefused, rideVars
<1>6. CASE AcceptCommit(d, r)
  <2> DEFINE row == Withdrawn([offer[r] EXCEPT ![d] = "accepted"])
  <2>a. /\ offer'[r] = row
        /\ \A q \in Rides \ {r} : offer'[q] = offer[q]
    BY <1>6 DEF AcceptCommit, TypeOK
  <2>b. \A e \in Drivers :
          row[e] = IF e = d THEN "accepted"
                   ELSE IF offer[r][e] \in Offered THEN "withdrawn"
                   ELSE offer[r][e]
    <3>1. [offer[r] EXCEPT ![d] = "accepted"] \in [Drivers -> OfferStates]
      BY DEF TypeOK, OfferStates
    <3> QED
      BY ZenonT(90), <3>1, WithdrawnOffers DEF TypeOK, Offered
  <2>c. \A e \in Drivers \ {d} : ~HoldsOffer(e, r)
    BY <1>6 DEF AcceptCommit, OffersUnlocked
  <2>d. state[r] = "matching" /\ lock[r].by = "accept"
    BY <1>6 DEF AcceptCommit, LockedReadsStayTrue
  <2> HIDE DEF row
  <2>1. LockedReadsStayTrue'
    <3>1. \A e \in Drivers : accepting'[r][e] # "holding"
      BY <1>6, <2>c DEF AcceptCommit, HoldsOffer, TypeOK
    <3>2. \A q \in Rides \ {r} :
            /\ lock'[q] = lock[q]
            /\ state'[q] = state[q]
            /\ accepting'[q] = accepting[q]
      BY <1>6 DEF AcceptCommit, TypeOK
    <3>3. lock'[r] = Free
      BY <1>6 DEF AcceptCommit, TypeOK
    <3> QED
      BY <2>a, <3>1, <3>2, <3>3 DEF LockedReadsStayTrue, HoldsOffer, Free
  <2>2. DriverMatchesState'
    BY <1>6
       DEF AcceptCommit, TypeOK, DriverMatchesState, Driving
  <2>3. DriverHoldsTheAcceptedOffer'
    <3>1. driver[r] = NoDriver
      BY <2>d DEF DriverMatchesState
    <3>2. driver'[r] = d /\ \A q \in Rides \ {r} : driver'[q] = driver[q]
      BY <1>6 DEF AcceptCommit, TypeOK
    <3> QED
      BY <2>a, <2>b, <3>1, <3>2, SentinelAssumption
         DEF DriverHoldsTheAcceptedOffer, Offered
  <2>4. OneActiveRide'
    BY <1>6
       DEF AcceptCommit, TypeOK, OneActiveRide, Active, Driving, HasActiveRide, LockedReadsStayTrue
  <2>5. OpenOffersAreLive'
    <3>1. \A q \in Rides \ {r} : state'[q] = state[q]
      BY <1>6 DEF AcceptCommit, TypeOK
    <3> QED
      BY <2>a, <2>b, <3>1 DEF OpenOffersAreLive, Offered
  <2> QED
    BY <2>1, <2>2, <2>3, <2>4, <2>5
<1> QED
  BY <1>1, <1>2, <1>3, <1>4, <1>5, <1>6 DEF AcceptStep

\* The other steps of a driver.
LEMMA DriverInv ==
    ASSUME IInv, NEW r \in Rides, NEW d \in Drivers, DriverStep(d, r)
    PROVE  LockedReadsStayTrue' /\ RidesInv'
<1> USE DEF IInv, RidesInv
<1>1. CASE DeclineOffer(d, r)
  <2>1. LockedReadsStayTrue'
    BY <1>1
       DEF DeclineOffer, TypeOK, LockedReadsStayTrue, HoldsOffer, Free, Offered
  <2>2. DriverMatchesState'
    BY <1>1
       DEF DeclineOffer, TypeOK, DriverMatchesState, Driving
  <2>3. DriverHoldsTheAcceptedOffer'
    BY <1>1
       DEF DeclineOffer, TypeOK, DriverMatchesState, DriverHoldsTheAcceptedOffer, Offered
  <2>4. OneActiveRide'
    BY <1>1
       DEF DeclineOffer, TypeOK, OneActiveRide, Active, Driving
  <2>5. OpenOffersAreLive'
    BY <1>1
       DEF DeclineOffer, TypeOK, LockedReadsStayTrue, OpenOffersAreLive
  <2> QED
    BY <2>1, <2>2, <2>3, <2>4, <2>5
<1>2. ASSUME NEW to \in {"arrived", "in_progress", "completed"},
             DriverTransition(d, r, to)
      PROVE  LockedReadsStayTrue' /\ RidesInv'
  <2>1. LockedReadsStayTrue'
    BY <1>2, Table
       DEF DriverTransition, TypeOK, LockedReadsStayTrue, HoldsOffer, Free, Offered, Free
  <2>2. DriverMatchesState'
    BY <1>2, Table
       DEF DriverTransition, TypeOK, DriverMatchesState, Driving
  <2>3. DriverHoldsTheAcceptedOffer'
    BY <1>2, Table
       DEF DriverTransition, TypeOK, DriverMatchesState, DriverHoldsTheAcceptedOffer
  <2>4. OneActiveRide'
    BY <1>2, Table
       DEF DriverTransition, TypeOK, OneActiveRide, Active, Driving
  <2>5. OpenOffersAreLive'
    BY <1>2, Table
       DEF DriverTransition, TypeOK, LockedReadsStayTrue, OpenOffersAreLive
  <2> QED
    BY <2>1, <2>2, <2>3, <2>4, <2>5
<1>3. CASE CancelByDriver(d, r)
  <2>1. LockedReadsStayTrue'
    BY <1>3, Table
       DEF CancelByDriver, TypeOK, LockedReadsStayTrue, HoldsOffer, Free, Offered, DriverHoldsTheAcceptedOffer
  <2>2. DriverMatchesState'
    BY <1>3, Table
       DEF CancelByDriver, TypeOK, DriverMatchesState, Driving
  <2>3. DriverHoldsTheAcceptedOffer'
    BY <1>3, SentinelAssumption
       DEF CancelByDriver, TypeOK, DriverMatchesState, DriverHoldsTheAcceptedOffer
  <2>4. OneActiveRide'
    BY <1>3, Table
       DEF CancelByDriver, TypeOK, OneActiveRide, Active, Driving
  <2>5. OpenOffersAreLive'
    BY <1>3, Table
       DEF CancelByDriver, TypeOK, LockedReadsStayTrue, OpenOffersAreLive
  <2> QED
    BY <2>1, <2>2, <2>3, <2>4, <2>5
<1> QED
  BY <1>1, <1>2, <1>3, AcceptInv DEF DriverStep

\* The worker's steps.
LEMMA WorkerInv ==
    ASSUME IInv, NEW r \in Rides, WorkerStep(r)
    PROVE  LockedReadsStayTrue' /\ RidesInv'
<1> USE DEF IInv, RidesInv
<1>1. CASE RoundNoDriver(r)
  <2>1. LockedReadsStayTrue'
    BY <1>1
       DEF RoundNoDriver, Searching, TypeOK, LockedReadsStayTrue, HoldsOffer, Free, Offered
  <2>2. DriverMatchesState'
    BY <1>1
       DEF RoundNoDriver, Searching, TypeOK, DriverMatchesState, Driving
  <2>3. DriverHoldsTheAcceptedOffer'
    BY <1>1
       DEF RoundNoDriver, Searching, TypeOK, DriverMatchesState, DriverHoldsTheAcceptedOffer
  <2>4. OneActiveRide'
    BY <1>1
       DEF RoundNoDriver, Searching, TypeOK, OneActiveRide, Active, Driving
  <2>5. OpenOffersAreLive'
    BY <1>1
       DEF RoundNoDriver, Searching, TypeOK, LockedReadsStayTrue, OpenOffersAreLive
  <2> QED
    BY <2>1, <2>2, <2>3, <2>4, <2>5
<1>2. ASSUME NEW d \in Drivers, ExpireOffer(r, d)
      PROVE  LockedReadsStayTrue' /\ RidesInv'
  <2>1. LockedReadsStayTrue'
    BY <1>2
       DEF ExpireOffer, TypeOK, LockedReadsStayTrue, HoldsOffer, Free, Offered
  <2>2. DriverMatchesState'
    BY <1>2
       DEF ExpireOffer, TypeOK, DriverMatchesState, Driving
  <2>3. DriverHoldsTheAcceptedOffer'
    BY <1>2
       DEF ExpireOffer, TypeOK, DriverMatchesState, DriverHoldsTheAcceptedOffer
  <2>4. OneActiveRide'
    BY <1>2
       DEF ExpireOffer, TypeOK, OneActiveRide, Active, Driving
  <2>5. OpenOffersAreLive'
    BY <1>2
       DEF ExpireOffer, TypeOK, LockedReadsStayTrue, OpenOffersAreLive
  <2> QED
    BY <2>1, <2>2, <2>3, <2>4, <2>5
<1>3. ASSUME NEW d \in Drivers, RoundPick(r, d)
      PROVE  LockedReadsStayTrue' /\ RidesInv'
  <2>1. LockedReadsStayTrue'
    BY <1>3
       DEF RoundPick, Searching, TypeOK, LockedReadsStayTrue, HoldsOffer, Free
  <2> QED
    BY <1>3, <2>1, FrameInv DEF RoundPick, Searching, rideVars
<1>4. ASSUME NEW d \in Drivers, RoundInsert(r, d)
      PROVE  LockedReadsStayTrue' /\ RidesInv'
  <2>1. LockedReadsStayTrue'
    BY <1>4
       DEF RoundInsert, TypeOK, LockedReadsStayTrue, HoldsOffer, Free, Offered
  <2>2. DriverMatchesState'
    BY <1>4
       DEF RoundInsert, TypeOK, DriverMatchesState, Driving
  <2>3. DriverHoldsTheAcceptedOffer'
    BY <1>4
       DEF RoundInsert, TypeOK, DriverMatchesState, DriverHoldsTheAcceptedOffer, LockedReadsStayTrue
  <2>4. OneActiveRide'
    BY <1>4
       DEF RoundInsert, TypeOK, OneActiveRide, Active, Driving
  <2>5. OpenOffersAreLive'
    BY <1>4
       DEF RoundInsert, TypeOK, LockedReadsStayTrue, OpenOffersAreLive
  <2> QED
    BY <2>1, <2>2, <2>3, <2>4, <2>5
<1> QED
  BY <1>1, <1>2, <1>3, <1>4 DEF WorkerStep

\* Rollbacks, the clock and the admin.
LEMMA EnvironmentInv ==
    ASSUME IInv, \/ \E r \in Rides : FailureStep(r) \/ ClockStep(r)
                 \/ AdminStep
    PROVE  LockedReadsStayTrue' /\ RidesInv'
<1> USE DEF IInv, RidesInv
<1>1. ASSUME NEW r \in Rides, Rollback(r)
      PROVE  LockedReadsStayTrue' /\ RidesInv'
  <2>1. LockedReadsStayTrue'
    BY <1>1
       DEF Rollback, TypeOK, LockedReadsStayTrue, HoldsOffer, Free
  <2> QED
    BY <1>1, <2>1, FrameInv DEF Rollback, rideVars
<1>2. ASSUME NEW r \in Rides, NEW d \in Drivers, RollbackAccept(d, r)
      PROVE  LockedReadsStayTrue' /\ RidesInv'
  <2>1. \A q \in Rides, e \in Drivers :
          accepting'[q][e] = IF q = r /\ e = d THEN "idle" ELSE accepting[q][e]
    BY <1>2 DEF RollbackAccept, TypeOK
  <2>2. lock[r].by = "accept" => lock[r].driver # d
    <3>1. lock[r] \in Locks
      BY DEF TypeOK
    <3> QED
      BY <1>2, <3>1 DEF RollbackAccept, Locks
  <2>3. LockedReadsStayTrue'
    BY <1>2, <2>1, <2>2 DEF RollbackAccept, LockedReadsStayTrue, HoldsOffer
  <2> QED
    BY <1>2, <2>3, FrameInv DEF RollbackAccept, rideVars
<1>3. ASSUME NEW r \in Rides, TimeOutSearch(r)
      PROVE  LockedReadsStayTrue' /\ RidesInv'
  <2>1. LockedReadsStayTrue'
    BY <1>3
       DEF TimeOutSearch, TypeOK, LockedReadsStayTrue, HoldsOffer, Free
  <2> QED
    BY <1>3, <2>1, FrameInv DEF TimeOutSearch, rideVars
<1>4. ASSUME NEW r \in Rides, NEW d \in Drivers, LapseOffer(r, d)
      PROVE  LockedReadsStayTrue' /\ RidesInv'
  <2>1. LockedReadsStayTrue'
    BY <1>4
       DEF LapseOffer, TypeOK, LockedReadsStayTrue, HoldsOffer, Free, Offered
  <2>2. DriverMatchesState'
    BY <1>4
       DEF LapseOffer, TypeOK, DriverMatchesState, Driving
  <2>3. DriverHoldsTheAcceptedOffer'
    BY <1>4
       DEF LapseOffer, TypeOK, DriverMatchesState, DriverHoldsTheAcceptedOffer
  <2>4. OneActiveRide'
    BY <1>4
       DEF LapseOffer, TypeOK, OneActiveRide, Active, Driving
  <2>5. OpenOffersAreLive'
    BY <1>4
       DEF LapseOffer, TypeOK, LockedReadsStayTrue, OpenOffersAreLive
  <2> QED
    BY <2>1, <2>2, <2>3, <2>4, <2>5
<1>5. ASSUME NEW d \in Drivers, Suspend(d) \/ Approve(d)
      PROVE  LockedReadsStayTrue' /\ RidesInv'
  <2>1. LockedReadsStayTrue'
    BY <1>5
       DEF Suspend, Approve, TypeOK, LockedReadsStayTrue, HoldsOffer, Free
  <2> QED
    BY <1>5, <2>1, FrameInv DEF Suspend, Approve, rideVars
<1> QED
  BY <1>1, <1>2, <1>3, <1>4, <1>5 DEF FailureStep, ClockStep, AdminStep

LEMMA NextInv == IInv /\ [Next]_vars => IInv'
<1> SUFFICES ASSUME IInv, [Next]_vars
             PROVE  LockedReadsStayTrue' /\ RidesInv'
  BY NextType DEF IInv
<1>1. CASE UNCHANGED vars
  <2>1. LockedReadsStayTrue'
    BY <1>1 DEF IInv, vars, LockedReadsStayTrue, HoldsOffer
  <2> QED
    BY <1>1, <2>1, FrameInv DEF IInv, vars, rideVars
<1> QED
  BY <1>1, CustomerInv, DriverInv, WorkerInv, EnvironmentInv DEF Next

LEMMA Invariance == Spec => []IInv
  BY InitInv, NextInv, PTL DEF Spec

-----------------------------------------------------------------------------
\* The safety properties

\* No customer has two active rides and no driver drives two, whatever the
\* stale reads of Round and the order of the two unique indexes' answers.
THEOREM NobodyHasTwoRides == Spec => []OneActiveRide
  BY Invariance, PTL DEF IInv, RidesInv

\* The driver of a ride is the one whose offer was accepted: no ride has two
\* winners, and none has a winner without an offer.
THEOREM OneWinner == Spec => []DriverHoldsTheAcceptedOffer
  BY Invariance, PTL DEF IInv, RidesInv

\* An open offer is the only one of a ride that still searches.
THEOREM OffersOfSearchingRides == Spec => []OpenOffersAreLive
  BY Invariance, PTL DEF IInv, RidesInv

\* What a transaction read under its row locks is still so when it writes.
THEOREM LocksProtectReads == Spec => []LockedReadsStayTrue
  BY Invariance, PTL DEF IInv

-----------------------------------------------------------------------------
\* The action properties, one ride and one offer at a time

StepFollowsTable(r) ==
    /\ state'[r] # state[r] =>
         CanTransition(state[r], state'[r]) \/ state[r] = "none"
    /\ state[r] \in Terminal =>
         /\ customer'[r] = customer[r]
         /\ driver'[r] = driver[r]

StepOpensOnce(r, d) ==
    offer'[r][d] = "open" /\ offer[r][d] # "open" => offer[r][d] = "none"

\* Every step of Next, by the actor that takes it.
LEMMA StepFollowsTableInv ==
    ASSUME IInv, [Next]_vars, NEW q \in Rides
    PROVE  StepFollowsTable(q)
<1> USE DEF IInv, TypeOK, StepFollowsTable
<1>1. ASSUME NEW r \in Rides, CustomerStep(r)
      PROVE  StepFollowsTable(q)
  <2>1. ASSUME NEW c \in Customers, Request(c, r)
        PROVE  StepFollowsTable(q)
    BY <2>1 DEF Request, Terminal
  <2>2. CASE CancelLock(r)
    BY <2>2 DEF CancelLock
  <2>3. CASE CancelCommit(r)
    BY <2>3 DEF CancelCommit, LockedReadsStayTrue
  <2> QED
    BY <1>1, <2>1, <2>2, <2>3 DEF CustomerStep
<1>2. ASSUME NEW r \in Rides, NEW d \in Drivers, AcceptStep(d, r)
      PROVE  StepFollowsTable(q)
  <2>1. CASE AcceptCommit(d, r)
    <3>1. state[r] = "matching"
      BY <2>1 DEF AcceptCommit, LockedReadsStayTrue
    <3> QED
      BY <2>1, <3>1, Table DEF AcceptCommit, Terminal
  <2>2. CASE UNCHANGED rideVars
    BY <2>2 DEF rideVars
  <2> QED
    BY <1>2, <2>1, <2>2
       DEF AcceptStep, AcceptCheck, AcceptLockOffer, AcceptLate,
           AcceptLockRide, AcceptRefused, rideVars
<1>3. ASSUME NEW r \in Rides, NEW d \in Drivers, DriverStep(d, r)
      PROVE  StepFollowsTable(q)
  <2>1. CASE DeclineOffer(d, r)
    BY <2>1 DEF DeclineOffer
  <2>2. ASSUME NEW to \in {"arrived", "in_progress", "completed"},
               DriverTransition(d, r, to)
        PROVE  StepFollowsTable(q)
    BY <2>2 DEF DriverTransition
  <2>3. CASE CancelByDriver(d, r)
    BY <2>3, Table DEF CancelByDriver, Terminal
  <2> QED
    BY <1>2, <1>3, <2>1, <2>2, <2>3 DEF DriverStep
<1>4. ASSUME NEW r \in Rides, WorkerStep(r)
      PROVE  StepFollowsTable(q)
  <2>1. CASE RoundNoDriver(r)
    BY <2>1, Table DEF RoundNoDriver, Searching
  <2> QED
    BY <1>4, <2>1 DEF WorkerStep, ExpireOffer, RoundPick, RoundInsert
<1>5. CASE \/ \E r \in Rides : FailureStep(r) \/ ClockStep(r)
           \/ AdminStep
  BY <1>5 DEF FailureStep, Rollback, RollbackAccept, ClockStep, TimeOutSearch,
              LapseOffer, AdminStep, Suspend, Approve
<1>6. CASE UNCHANGED vars
  BY <1>6 DEF vars
<1> QED
  BY <1>1, <1>3, <1>4, <1>5, <1>6 DEF Next

\* Offers change in seven actions; only RoundInsert opens one.
LEMMA StepOpensOnceInv ==
    ASSUME IInv, [Next]_vars, NEW q \in Rides, NEW e \in Drivers
    PROVE  StepOpensOnce(q, e)
<1> USE DEF IInv, TypeOK, StepOpensOnce
<1>1. ASSUME NEW r \in Rides, CustomerStep(r)
      PROVE  StepOpensOnce(q, e)
  <2>1. CASE CancelCommit(r)
    <3>1. offer[r] \in [Drivers -> OfferStates]
      OBVIOUS
    <3>2. offer'[q] = IF q = r THEN Withdrawn(offer[r]) ELSE offer[q]
      BY <2>1 DEF CancelCommit
    <3> QED
      BY <3>1, <3>2, WithdrawnOffers DEF Offered
  <2> QED
    BY <1>1, <2>1 DEF CustomerStep, Request, CancelLock
<1>2. ASSUME NEW r \in Rides, NEW d \in Drivers, AcceptStep(d, r)
      PROVE  StepOpensOnce(q, e)
  <2>1. CASE AcceptCommit(d, r)
    <3>1. [offer[r] EXCEPT ![d] = "accepted"] \in [Drivers -> OfferStates]
      BY DEF OfferStates
    <3>2. offer'[q] = IF q = r
                      THEN Withdrawn([offer[r] EXCEPT ![d] = "accepted"])
                      ELSE offer[q]
      BY <2>1 DEF AcceptCommit
    <3> QED
      BY <3>1, <3>2, WithdrawnOffers DEF Offered
  <2>2. CASE UNCHANGED rideVars
    BY <2>2 DEF rideVars
  <2> QED
    BY <1>2, <2>1, <2>2
       DEF AcceptStep, AcceptCheck, AcceptLockOffer, AcceptLate,
           AcceptLockRide, AcceptRefused, rideVars
<1>3. ASSUME NEW r \in Rides, NEW d \in Drivers, DriverStep(d, r)
      PROVE  StepOpensOnce(q, e)
  <2>1. CASE DeclineOffer(d, r)
    BY <2>1 DEF DeclineOffer
  <2>2. CASE CancelByDriver(d, r)
    BY <2>2 DEF CancelByDriver
  <2> QED
    BY <1>2, <1>3, <2>1, <2>2 DEF DriverStep, DriverTransition
<1>4. ASSUME NEW r \in Rides, WorkerStep(r)
      PROVE  StepOpensOnce(q, e)
  <2>1. ASSUME NEW d \in Drivers, ExpireOffer(r, d)
        PROVE  StepOpensOnce(q, e)
    BY <2>1 DEF ExpireOffer
  <2>2. ASSUME NEW d \in Drivers, RoundInsert(r, d)
        PROVE  StepOpensOnce(q, e)
    BY <2>2 DEF RoundInsert, LockedReadsStayTrue
  <2> QED
    BY <1>4, <2>1, <2>2 DEF WorkerStep, RoundNoDriver, RoundPick
<1>5. ASSUME NEW r \in Rides, NEW d \in Drivers, LapseOffer(r, d)
      PROVE  StepOpensOnce(q, e)
  BY <1>5 DEF LapseOffer
<1>6. CASE \/ \E r \in Rides : FailureStep(r) \/ ClockStep(r)
           \/ AdminStep
  BY <1>5, <1>6 DEF FailureStep, Rollback, RollbackAccept, ClockStep,
                    TimeOutSearch, AdminStep, Suspend, Approve
<1>7. CASE UNCHANGED vars
  BY <1>7 DEF vars
<1> QED
  BY <1>1, <1>3, <1>4, <1>6, <1>7 DEF Next

\* The states of a ride follow the table of state.go, and a terminal ride
\* keeps its people.
THEOREM StatesFollowTheTable == Spec => RideStepsFollowTable
<1>1. IInv /\ [Next]_vars => [\A r \in Rides : StepFollowsTable(r)]_vars
  BY StepFollowsTableInv
<1> QED
  BY <1>1, Invariance, PTL DEF Spec, RideStepsFollowTable, StepFollowsTable

\* No driver is asked twice for the same ride.
THEOREM NobodyIsAskedTwice == Spec => OffersOpenOnce
<1>1. IInv /\ [Next]_vars =>
        [\A r \in Rides, d \in Drivers : StepOpensOnce(r, d)]_vars
  BY StepOpensOnceInv
<1> QED
  BY <1>1, Invariance, PTL DEF Spec, OffersOpenOnce, StepOpensOnce

=============================================================================
