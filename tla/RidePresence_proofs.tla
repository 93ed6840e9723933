------------------------ MODULE RidePresence_proofs ------------------------
(***************************************************************************)
(* Rides and presence together: RidePresence implements Rides, so the      *)
(* theorems about rides hold beside Redis too, and a driver's positions go *)
(* to a ride that he no longer drives only for the reasons MaySayBusy      *)
(* names, for every set of customers, drivers and rides and whatever       *)
(* becomes of the calls to Redis.                                          *)
(***************************************************************************)
EXTENDS RidePresence, Rides_proofs

\* A SetBusy under way belongs to a ride the driver drives, or else the call
\* of that ride's end is under way, lost or already made.
CallsOfOwnRides ==
    \A c \in calls : c.op = "SetBusy" => c.ride \in Rides /\ MaySayBusy(c.driver, c.ride)

PInv == PresenceTypeOK /\ CallsOfOwnRides /\ PublishesOnlyToOwnRide

-----------------------------------------------------------------------------
\* Every step beside Redis is a step of Rides or leaves Rides alone.
LEMMA StepOfRides == [NextP]_allVars => [Next]_vars
<1> SUFFICES ASSUME NextP
             PROVE  [Next]_vars
  BY DEF allVars, vars
<1>1. ASSUME NEW r \in Rides, QuietStep(r)
      PROVE  Next
  BY <1>1 DEF QuietStep, Next, CustomerStep, WorkerStep, DriverStep, AcceptStep
<1>2. ASSUME NEW r \in Rides, CancelByCustomer(r)
      PROVE  Next
  BY <1>2 DEF CancelByCustomer, Next, CustomerStep
<1>3. ASSUME NEW r \in Rides, NEW d \in Drivers,
             Accept(d, r) \/ Complete(d, r) \/ GiveUp(d, r) \/ Offer(r, d)
      PROVE  Next
  BY <1>3 DEF Accept, Complete, GiveUp, Offer, Next, DriverStep, AcceptStep, WorkerStep
<1>4. ASSUME NEW d \in Drivers, SuspendDriver(d) \/ Approve(d)
      PROVE  Next
  BY <1>4 DEF SuspendDriver, Next, AdminStep
<1>5. ASSUME \/ \E d \in Drivers : GoOnline(d) \/ GoOffline(d) \/ HashExpires(d)
             \/ \E c \in calls : Perform(c) \/ Lose(c)
      PROVE  UNCHANGED vars
  BY <1>5 DEF GoOnline, GoOffline, HashExpires, Perform, Lose
<1> QED
  BY <1>1, <1>2, <1>3, <1>4, <1>5 DEF NextP

\* Rides beside Redis behave as Rides alone: presence only narrows whom a
\* round may pick.
THEOREM PresenceImplementsRides == SpecP => Spec
<1>1. InitP => Init
  BY DEF InitP
<1> QED
  BY <1>1, StepOfRides, PTL DEF SpecP, Spec

\* The invariant of Rides holds beside Redis.
LEMMA RidesInvariance == SpecP => []IInv
  BY PresenceImplementsRides, Invariance, PTL

-----------------------------------------------------------------------------
\* Who drives a ride goes on driving it, in every step but those three.
LEMMA DrivingGoesOn ==
    ASSUME IInv, NEW q \in Rides, NEW e \in Drivers, Drives(e, q),
           \/ \E r \in Rides :
                \/ QuietStep(r)
                \/ CancelCommit(r) /\ (r = q => FALSE)
                \/ \E d \in Drivers :
                     \/ AcceptCommit(d, r)
                     \/ DriverTransition(d, r, "completed") /\ (r = q => FALSE)
                     \/ CancelByDriver(d, r) /\ (r = q => FALSE)
                     \/ RoundPick(r, d)
           \/ AdminStep
           \/ UNCHANGED vars
    PROVE  Drives(e, q)'
<1> USE DEF IInv, TypeOK
<1>1. driver[q] = e /\ state[q] \in Driving
  BY DEF Drives
<1>2. state[q] \notin {"none", "matching", "completed", "cancelled", "no_driver"}
  BY <1>1 DEF Driving
<1>3. ASSUME driver' = driver, state' = state
      PROVE  Drives(e, q)'
  BY <1>1, <1>3 DEF Drives
<1>4. ASSUME NEW r \in Rides, r # q,
             driver' = driver \/ \E x \in Drivers \cup {NoDriver} : driver' = [driver EXCEPT ![r] = x],
             state' = state \/ \E x \in RideStates : state' = [state EXCEPT ![r] = x]
      PROVE  Drives(e, q)'
  <2>1. driver'[q] = driver[q] /\ state'[q] = state[q]
    BY <1>4
  <2> QED
    BY <2>1, <1>1 DEF Drives
<1>5. ASSUME NEW r \in Rides, QuietStep(r)
      PROVE  Drives(e, q)'
  <2>1. ASSUME NEW c \in Customers, Request(c, r)
        PROVE  Drives(e, q)'
    <3>1. r # q /\ driver' = driver /\ state' = [state EXCEPT ![r] = "matching"]
      BY <2>1, <1>2 DEF Request
    <3> QED
      BY <3>1, <1>4 DEF RideStates, Active
  <2>2. CASE RoundNoDriver(r)
    <3>1. r # q /\ driver' = driver /\ state' = [state EXCEPT ![r] = "no_driver"]
      BY <2>2, <1>2 DEF RoundNoDriver, Searching
    <3> QED
      BY <3>1, <1>4 DEF RideStates, Terminal
  <2>3. ASSUME NEW d \in Drivers, NEW to \in {"arrived", "in_progress"},
               DriverTransition(d, r, to)
        PROVE  Drives(e, q)'
    <3>1. driver' = driver /\ state' = [state EXCEPT ![r] = to] /\ to \in Driving
      BY <2>3 DEF DriverTransition, Driving
    <3>2. state'[q] \in Driving
      BY <3>1, <1>1
    <3> QED
      BY <3>1, <3>2, <1>1 DEF Drives
  <2>4. CASE CancelLock(r) \/ FailureStep(r) \/ ClockStep(r)
    BY <2>4, <1>3 DEF CancelLock, FailureStep, Rollback, RollbackAccept, ClockStep,
                      TimeOutSearch, LapseOffer
  <2>5. ASSUME NEW d \in Drivers,
               \/ AcceptCheck(d, r) \/ AcceptLockOffer(d, r) \/ AcceptLate(d, r)
               \/ AcceptLockRide(d, r) \/ AcceptRefused(d, r)
        PROVE  Drives(e, q)'
    BY <2>5, <1>3 DEF AcceptCheck, AcceptLockOffer, AcceptLate, AcceptLockRide, AcceptRefused
  <2>6. ASSUME NEW d \in Drivers,
               DeclineOffer(d, r) \/ ExpireOffer(r, d) \/ RoundInsert(r, d)
        PROVE  Drives(e, q)'
    BY <2>6, <1>3 DEF DeclineOffer, ExpireOffer, RoundInsert
  <2> QED
    BY ZenonT(90), <1>5, <2>1, <2>2, <2>3, <2>4, <2>5, <2>6 DEF QuietStep
<1>6. ASSUME NEW r \in Rides, CancelCommit(r), r # q
      PROVE  Drives(e, q)'
  <2>1. driver' = driver /\ state' = [state EXCEPT ![r] = "cancelled"]
    BY <1>6 DEF CancelCommit
  <2> QED
    BY <2>1, <1>4, <1>6 DEF RideStates, Terminal
<1>7. ASSUME NEW r \in Rides, NEW d \in Drivers, AcceptCommit(d, r)
      PROVE  Drives(e, q)'
  <2>1. state[r] = "matching"
    BY <1>7 DEF AcceptCommit, LockedReadsStayTrue
  <2>2. r # q /\ driver' = [driver EXCEPT ![r] = d] /\ state' = [state EXCEPT ![r] = "assigned"]
    BY <2>1, <1>2, <1>7 DEF AcceptCommit
  <2> QED
    BY <2>2, <1>4 DEF RideStates, Active
<1>8. ASSUME NEW r \in Rides, NEW d \in Drivers, DriverTransition(d, r, "completed"), r # q
      PROVE  Drives(e, q)'
  <2>1. driver' = driver /\ state' = [state EXCEPT ![r] = "completed"]
    BY <1>8 DEF DriverTransition
  <2> QED
    BY <2>1, <1>4, <1>8 DEF RideStates, Terminal
<1>9. ASSUME NEW r \in Rides, NEW d \in Drivers, CancelByDriver(d, r), r # q
      PROVE  Drives(e, q)'
  <2>1. driver' = [driver EXCEPT ![r] = NoDriver] /\ state' = [state EXCEPT ![r] = "matching"]
    BY <1>9 DEF CancelByDriver
  <2> QED
    BY <2>1, <1>4, <1>9 DEF RideStates, Active
<1>10. ASSUME NEW r \in Rides, NEW d \in Drivers, RoundPick(r, d)
       PROVE  Drives(e, q)'
  BY <1>10, <1>3 DEF RoundPick
<1>11. CASE AdminStep \/ UNCHANGED vars
  BY <1>11, <1>3 DEF AdminStep, Suspend, Approve, vars
<1> QED
  BY <1>5, <1>6, <1>7, <1>8, <1>9, <1>10, <1>11

\* The driver drives the ride when his SetBusy is issued.
LEMMA AcceptDrives ==
    ASSUME IInv, NEW r \in Rides, NEW d \in Drivers, AcceptCommit(d, r)
    PROVE  Drives(d, r)'
  BY DEF Drives, AcceptCommit, IInv, TypeOK, Driving

-----------------------------------------------------------------------------
\* The inductive step

\* A call is named by its three parts.
LEMMA CallParts ==
    ASSUME NEW op \in RideOps \cup Ops, NEW d \in Drivers, NEW r \in Rides \cup {NoRide}
    PROVE  /\ (r \in Rides <=> op \in RideOps) => Call(op, d, r) \in Calls
           /\ Call(op, d, r).op = op /\ Call(op, d, r).driver = d /\ Call(op, d, r).ride = r
  BY NoRideAssumption DEF Call, Calls, RideOps, Ops

LEMMA CallIsItsParts ==
    ASSUME NEW c \in Calls
    PROVE  c = Call(c.op, c.driver, c.ride)
  BY DEF Call, Calls

\* Presence unchanged, at most one new call, and whoever stops driving a ride
\* has the call of its end under way.
LEMMA CallsInv ==
    ASSUME IInv, PInv, UNCHANGED <<presence, lost, overtaken>>,
           calls \subseteq calls', calls' \in SUBSET Calls,
           \A c \in calls' \ calls : c.op = "SetBusy" =>
             c.ride \in Rides /\ Drives(c.driver, c.ride)',
           \A e \in Drivers, q \in Rides : Drives(e, q) =>
             Drives(e, q)' \/ Call("SetAvailable", e, q) \in calls'
    PROVE  PInv'
<1>1. PresenceTypeOK'
  BY DEF PInv, PresenceTypeOK
<1>2. \A e \in Drivers, q \in Rides : MaySayBusy(e, q) => MaySayBusy(e, q)'
  BY DEF MaySayBusy
<1>3. CallsOfOwnRides'
  <2> SUFFICES ASSUME NEW c \in calls', c.op = "SetBusy"
               PROVE  c.ride \in Rides /\ MaySayBusy(c.driver, c.ride)'
    BY DEF CallsOfOwnRides
  <2>1. CASE c \in calls
    <3>1. c.ride \in Rides /\ c.driver \in Drivers /\ MaySayBusy(c.driver, c.ride)
      BY <2>1 DEF PInv, CallsOfOwnRides, PresenceTypeOK, Calls
    <3> QED
      BY <3>1, <1>2
  <2>2. CASE c \notin calls
    BY <2>2 DEF MaySayBusy
  <2> QED
    BY <2>1, <2>2
<1>4. PublishesOnlyToOwnRide'
  <2> SUFFICES ASSUME NEW d \in Drivers, presence[d].ride # NoRide
               PROVE  MaySayBusy(d, presence[d].ride)'
    BY DEF PublishesOnlyToOwnRide
  <2>1. presence[d].ride \in Rides /\ MaySayBusy(d, presence[d].ride)
    BY DEF PInv, PresenceTypeOK, PublishesOnlyToOwnRide
  <2> QED
    BY <2>1, <1>2
<1> QED
  BY <1>1, <1>3, <1>4 DEF PInv

\* The hash of one driver changes and a call is used up: the new hash may say
\* what it says, and what another hash or call said is still excused.
LEMMA HashInv ==
    ASSUME PInv, calls' \subseteq calls,
           lost' \in SUBSET (Drivers \X Rides), overtaken' \in SUBSET (Drivers \X Rides),
           NEW d \in Drivers,
           NEW hash \in [status : Statuses, ride : Rides \cup {NoRide}],
           presence' = [presence EXCEPT ![d] = hash],
           hash.ride # NoRide <=> hash.status = "busy",
           hash.ride # NoRide => MaySayBusy(d, hash.ride)',
           \A e \in Drivers, q \in Rides :
             /\ e # d => (MaySayBusy(e, q) => MaySayBusy(e, q)')
             /\ Call("SetBusy", e, q) \in calls' => (MaySayBusy(e, q) => MaySayBusy(e, q)')
    PROVE  PInv'
<1>1. \A e \in Drivers : presence'[e] = IF e = d THEN hash ELSE presence[e]
  BY DEF PInv, PresenceTypeOK
<1>2. PresenceTypeOK'
  BY <1>1 DEF PInv, PresenceTypeOK
<1>3. CallsOfOwnRides'
  <2> SUFFICES ASSUME NEW c \in calls', c.op = "SetBusy"
               PROVE  c.ride \in Rides /\ MaySayBusy(c.driver, c.ride)'
    BY DEF CallsOfOwnRides
  <2>1. /\ c \in Calls /\ c.driver \in Drivers
        /\ c.ride \in Rides /\ MaySayBusy(c.driver, c.ride)
    BY DEF PInv, CallsOfOwnRides, PresenceTypeOK, Calls
  <2>2. c = Call("SetBusy", c.driver, c.ride)
    BY <2>1, CallIsItsParts
  <2> QED
    BY <2>1, <2>2
<1>4. PublishesOnlyToOwnRide'
  <2> SUFFICES ASSUME NEW e \in Drivers, NEW q, q = presence'[e].ride, q # NoRide
               PROVE  MaySayBusy(e, q)'
    BY DEF PublishesOnlyToOwnRide
  <2>1. CASE e = d
    BY <1>1, <2>1
  <2>2. CASE e # d
    <3>1. presence'[e] = presence[e]
      BY <1>1, <2>2
    <3>2. q \in Rides /\ MaySayBusy(e, q)
      BY <3>1 DEF PInv, PresenceTypeOK, PublishesOnlyToOwnRide
    <3> QED
      BY <2>2, <3>2
  <2> QED
    BY <2>1, <2>2
<1> QED
  BY <1>2, <1>3, <1>4 DEF PInv

LEMMA HandlersInv ==
    ASSUME IInv, PInv,
           \/ \E r \in Rides :
                \/ QuietStep(r) /\ UNCHANGED presenceVars
                \/ CancelByCustomer(r)
                \/ \E d \in Drivers :
                     Accept(d, r) \/ Complete(d, r) \/ GiveUp(d, r) \/ Offer(r, d)
           \/ \E d \in Drivers :
                \/ SuspendDriver(d)
                \/ Approve(d) /\ UNCHANGED presenceVars
                \/ GoOnline(d)
    PROVE  PInv'
<1>1. calls \in SUBSET Calls
  BY DEF PInv, PresenceTypeOK
<1>2. ASSUME NEW op \in RideOps \cup Ops, NEW d \in Drivers, NEW r \in Rides \cup {NoRide},
             r \in Rides <=> op \in RideOps, Issue(op, d, r),
             op = "SetBusy" => Drives(d, r)',
             \A e \in Drivers, q \in Rides : Drives(e, q) =>
               Drives(e, q)' \/ (op = "SetAvailable" /\ e = d /\ q = r)
      PROVE  PInv'
  <2> DEFINE c == Call(op, d, r)
  <2>1. c \in Calls /\ c.op = op /\ c.driver = d /\ c.ride = r
    BY <1>2, CallParts
  <2>2. calls' = calls \cup {c} /\ UNCHANGED <<presence, lost, overtaken>>
    BY <1>2 DEF Issue
  <2>3. \A e \in Drivers, q \in Rides : Drives(e, q) =>
          Drives(e, q)' \/ Call("SetAvailable", e, q) \in calls'
    <3> SUFFICES ASSUME NEW e \in Drivers, NEW q \in Rides, Drives(e, q), ~Drives(e, q)'
                 PROVE  Call("SetAvailable", e, q) \in calls'
      OBVIOUS
    <3>1. op = "SetAvailable" /\ e = d /\ q = r
      BY <1>2
    <3> QED
      BY <2>2, <3>1
  <2> HIDE DEF c
  <2>4. /\ calls \subseteq calls' /\ calls' \in SUBSET Calls
        /\ \A b \in calls' \ calls : b = c
    BY <1>1, <2>1, <2>2
  <2>5. \A b \in calls' \ calls : b.op = "SetBusy" =>
          b.ride \in Rides /\ Drives(b.driver, b.ride)'
    <3>1. op = "SetBusy" => r \in Rides /\ Drives(d, r)'
      BY <1>2 DEF RideOps
    <3> QED
      BY <2>1, <2>4, <3>1
  <2> QED
    BY <2>2, <2>3, <2>4, <2>5, CallsInv
<1>3. ASSUME UNCHANGED presenceVars,
             \A e \in Drivers, q \in Rides : Drives(e, q) => Drives(e, q)'
      PROVE  PInv'
  BY <1>1, <1>3, CallsInv DEF presenceVars
<1>4. ASSUME NEW r \in Rides, NEW d \in Drivers, Accept(d, r)
      PROVE  PInv'
  <2>1. AcceptCommit(d, r) /\ Issue("SetBusy", d, r)
    BY <1>4 DEF Accept
  <2>2. Drives(d, r)' /\ \A e \in Drivers, q \in Rides : Drives(e, q) => Drives(e, q)'
    BY <2>1, AcceptDrives, DrivingGoesOn
  <2> QED
    BY <1>2, <2>1, <2>2 DEF Ops, RideOps
<1>5. ASSUME NEW r \in Rides, CancelByCustomer(r)
      PROVE  PInv'
  <2>1. /\ CancelCommit(r)
        /\ IF driver[r] = NoDriver THEN UNCHANGED presenceVars
           ELSE Issue("SetAvailable", driver[r], r)
    BY <1>5 DEF CancelByCustomer
  <2>2. driver[r] = NoDriver \/ driver[r] \in Drivers
    BY DEF IInv, TypeOK
  <2>3. \A e \in Drivers, q \in Rides : Drives(e, q) => Drives(e, q)' \/ (q = r /\ e = driver[r])
    BY <2>1, DrivingGoesOn DEF Drives
  <2>4. CASE driver[r] = NoDriver
    BY <1>3, <2>1, <2>3, <2>4, SentinelAssumption
  <2>5. CASE driver[r] # NoDriver
    BY <1>2, <2>1, <2>2, <2>3, <2>5 DEF Ops, RideOps
  <2> QED
    BY <2>4, <2>5
<1>6. ASSUME NEW r \in Rides, NEW d \in Drivers,
             Complete(d, r) \/ GiveUp(d, r)
      PROVE  PInv'
  <2>1. /\ DriverTransition(d, r, "completed") \/ CancelByDriver(d, r)
        /\ Issue("SetAvailable", d, r)
    BY <1>6 DEF Complete, GiveUp
  <2>2. driver[r] = d
    BY <2>1 DEF DriverTransition, CancelByDriver
  <2>3. \A e \in Drivers, q \in Rides : Drives(e, q) => Drives(e, q)' \/ (q = r /\ e = d)
    BY <2>1, <2>2, DrivingGoesOn DEF Drives
  <2>4. "SetAvailable" \in RideOps
    BY DEF RideOps
  <2> QED
    BY <1>2, <2>1, <2>3, <2>4
<1>7. ASSUME NEW d \in Drivers, SuspendDriver(d) \/ GoOnline(d)
      PROVE  PInv'
  <2>1. \A e \in Drivers, q \in Rides : Drives(e, q) => Drives(e, q)'
    BY <1>7, DrivingGoesOn DEF SuspendDriver, GoOnline, AdminStep
  <2>2. PICK op \in Ops : Issue(op, d, NoRide)
    BY <1>7 DEF SuspendDriver, GoOnline, Ops
  <2>3. op \notin RideOps /\ op # "SetBusy" /\ NoRide \notin Rides
    BY NoRideAssumption DEF Ops, RideOps
  <2> QED
    BY <1>2, <2>1, <2>2, <2>3
<1>8. ASSUME NEW r \in Rides, NEW d \in Drivers, Offer(r, d)
      PROVE  PInv'
  BY <1>3, <1>8, DrivingGoesOn DEF Offer
<1>9. ASSUME NEW r \in Rides, QuietStep(r), UNCHANGED presenceVars
      PROVE  PInv'
  BY <1>3, <1>9, DrivingGoesOn
<1>10. ASSUME NEW d \in Drivers, Approve(d), UNCHANGED presenceVars
       PROVE  PInv'
  BY <1>3, <1>10, DrivingGoesOn DEF AdminStep
<1> QED
  BY <1>4, <1>5, <1>6, <1>7, <1>8, <1>9, <1>10

LEMMA RedisInv ==
    ASSUME IInv, PInv,
           \/ \E d \in Drivers : GoOffline(d) \/ HashExpires(d)
           \/ \E c \in calls : Perform(c) \/ Lose(c)
    PROVE  PInv'
<1>1. /\ Offline \in [status : Statuses, ride : Rides \cup {NoRide}]
      /\ Offline.ride = NoRide /\ Offline.status # "busy"
  BY DEF Offline, Statuses
<1>2. ASSUME NEW d \in Drivers, GoOffline(d) \/ HashExpires(d)
      PROVE  PInv'
  <2>1. /\ presence' = [presence EXCEPT ![d] = Offline]
        /\ UNCHANGED <<calls, lost, overtaken>> /\ UNCHANGED vars
    BY <1>2 DEF GoOffline, HashExpires
  <2>2. \A e \in Drivers, q \in Rides : MaySayBusy(e, q) => MaySayBusy(e, q)'
    BY <2>1 DEF MaySayBusy, Drives, vars
  <2>3. lost \in SUBSET (Drivers \X Rides) /\ overtaken \in SUBSET (Drivers \X Rides)
    BY DEF PInv, PresenceTypeOK
  <2> QED
    BY <1>1, <2>1, <2>2, <2>3, HashInv
<1>3. ASSUME NEW c \in calls, Perform(c)
      PROVE  PInv'
  <2>1. c \in Calls /\ c.driver \in Drivers /\ c.op \in RideOps \cup Ops /\ c = Call(c.op, c.driver, c.ride)
    BY CallIsItsParts DEF PInv, PresenceTypeOK, Calls
  <2>2. /\ presence' = [presence EXCEPT ![c.driver] = Applied(c)]
        /\ calls' = calls \ {c} /\ lost' = lost /\ UNCHANGED vars
    BY <1>3 DEF Perform
  <2>3. /\ overtaken \subseteq overtaken'
        /\ overtaken' \subseteq overtaken \cup {<<c.driver, c.ride>>}
    BY <1>3 DEF Perform
  <2>4. overtaken' = overtaken \/ c.ride \in Rides
    BY <1>3, <2>1, NoRideAssumption DEF Perform, Calls, Ops, RideOps
  <2>5. lost' \in SUBSET (Drivers \X Rides) /\ overtaken' \in SUBSET (Drivers \X Rides)
    BY <2>1, <2>2, <2>3, <2>4 DEF PInv, PresenceTypeOK
  <2>6. \A e \in Drivers, q \in Rides : Call("SetAvailable", e, q) # c =>
          (MaySayBusy(e, q) => MaySayBusy(e, q)')
    BY <2>2, <2>3 DEF MaySayBusy, Drives, vars
  <2>7. \A e \in Drivers, q \in Rides : e # c.driver => Call("SetAvailable", e, q) # c
    BY CallParts DEF Ops, RideOps
  <2>8. ASSUME NEW e \in Drivers, NEW q \in Rides, Call("SetBusy", e, q) \in calls',
               Call("SetAvailable", e, q) = c
        PROVE  MaySayBusy(e, q)'
    <3>1. c.op = "SetAvailable" /\ c.driver = e /\ c.ride = q
      BY <2>8, CallParts DEF Ops, RideOps
    <3>2. Call("SetBusy", c.driver, c.ride) \in calls
      BY <2>2, <2>8, <3>1
    <3>3. <<e, q>> \in overtaken'
      BY <1>3, <3>1, <3>2 DEF Perform
    <3> QED
      BY <3>3 DEF MaySayBusy
  <2>9. \A e \in Drivers, q \in Rides :
          /\ e # c.driver => (MaySayBusy(e, q) => MaySayBusy(e, q)')
          /\ Call("SetBusy", e, q) \in calls' => (MaySayBusy(e, q) => MaySayBusy(e, q)')
    BY <2>6, <2>7, <2>8
  <2>10. CASE c.op = "SetBusy"
    <3>1. Applied(c) = [status |-> "busy", ride |-> c.ride]
      BY <2>10 DEF Applied
    <3>2. c.ride \in Rides /\ MaySayBusy(c.driver, c.ride)
      BY <2>10 DEF PInv, CallsOfOwnRides
    <3>3. /\ Applied(c) \in [status : Statuses, ride : Rides \cup {NoRide}]
          /\ Applied(c).ride = c.ride /\ Applied(c).status = "busy"
      BY <3>1, <3>2 DEF Statuses
    <3>4. Call("SetAvailable", c.driver, c.ride) # c
      BY <2>1, <2>10, <3>2, CallParts DEF Ops, RideOps
    <3>5. MaySayBusy(c.driver, c.ride)'
      BY <2>1, <2>6, <3>2, <3>4
    <3>6. calls' \subseteq calls /\ c.ride # NoRide
      BY <2>2, <3>2, NoRideAssumption
    <3> QED
      BY <2>1, <2>2, <2>5, <2>9, <3>2, <3>3, <3>5, <3>6, HashInv
  <2>11. CASE c.op # "SetBusy"
    <3>1. \/ Applied(c) = Offline
          \/ Applied(c) = [status |-> "available", ride |-> NoRide]
      BY <2>1, <2>11 DEF Applied, Ops, RideOps
    <3>2. /\ Applied(c) \in [status : Statuses, ride : Rides \cup {NoRide}]
          /\ Applied(c).ride = NoRide /\ Applied(c).status # "busy"
      BY <1>1, <3>1 DEF Statuses
    <3>3. calls' \subseteq calls
      BY <2>2
    <3> QED
      BY <2>1, <2>2, <2>5, <2>9, <3>2, <3>3, HashInv
  <2> QED
    BY <2>10, <2>11
<1>4. ASSUME NEW c \in calls, Lose(c)
      PROVE  PInv'
  <2>1. c \in Calls /\ c.driver \in Drivers
    BY DEF PInv, PresenceTypeOK, Calls
  <2>2. UNCHANGED vars /\ UNCHANGED <<presence, overtaken>> /\ calls' = calls \ {c}
    BY <1>4 DEF Lose
  <2>3. lost' \in SUBSET (Drivers \X Rides) /\ overtaken \in SUBSET (Drivers \X Rides)
    BY <1>4, <2>1 DEF Lose, PInv, PresenceTypeOK, Calls, Ops
  <2>4. \A e \in Drivers, q \in Rides : MaySayBusy(e, q) => MaySayBusy(e, q)'
    <3> SUFFICES ASSUME NEW e \in Drivers, NEW q \in Rides, MaySayBusy(e, q)
                 PROVE  MaySayBusy(e, q)'
      OBVIOUS
    <3>1. CASE c = Call("SetAvailable", e, q)
      <4>1. c.op = "SetAvailable" /\ c.driver = e /\ c.ride = q
        BY <3>1, CallParts DEF RideOps
      <4>2. <<e, q>> \in lost'
        BY <1>4, <4>1 DEF Lose
      <4> QED
        BY <4>2 DEF MaySayBusy
    <3>2. CASE c # Call("SetAvailable", e, q)
      <4>1. lost \subseteq lost'
        BY <1>4 DEF Lose
      <4> QED
        BY <2>2, <3>2, <4>1 DEF MaySayBusy, Drives, vars
    <3> QED
      BY <3>1, <3>2
  <2>p. PICK hash \in [status : Statuses, ride : Rides \cup {NoRide}] :
          hash = presence[c.driver]
    BY <2>1 DEF PInv, PresenceTypeOK
  <2>5. /\ hash.ride # NoRide <=> hash.status = "busy"
        /\ hash.ride # NoRide => MaySayBusy(c.driver, hash.ride)
    BY <2>1, <2>p DEF PInv, PresenceTypeOK, PublishesOnlyToOwnRide
  <2>6. hash.ride # NoRide => MaySayBusy(c.driver, hash.ride)'
    BY <2>1, <2>4, <2>5
  <2>7. presence' = [presence EXCEPT ![c.driver] = hash] /\ calls' \subseteq calls
    BY <2>2, <2>p DEF PInv, PresenceTypeOK
  <2> QED
    BY <2>1, <2>2, <2>3, <2>4, <2>5, <2>6, <2>7, HashInv
<1> QED
  BY <1>2, <1>3, <1>4

LEMMA NextPInv == IInv /\ PInv /\ [NextP]_allVars => PInv'
<1> SUFFICES ASSUME IInv, PInv, [NextP]_allVars
             PROVE  PInv'
  OBVIOUS
<1>2. CASE UNCHANGED allVars
  BY <1>2 DEF allVars, vars, presenceVars, PInv, PresenceTypeOK,
              CallsOfOwnRides, PublishesOnlyToOwnRide, MaySayBusy, Drives
<1> QED
  BY <1>2, HandlersInv, RedisInv DEF NextP

LEMMA PresenceInvariance == SpecP => []PInv
<1>1. InitP => PInv
  BY DEF InitP, PInv, PresenceTypeOK, CallsOfOwnRides, PublishesOnlyToOwnRide,
         Offline, Statuses
<1> QED
  BY <1>1, NextPInv, RidesInvariance, PTL DEF SpecP

-----------------------------------------------------------------------------
\* The theorems

\* The hashes and the calls are well typed; only a busy driver has a ride_id.
THEOREM PresenceTypeCorrect == SpecP => []PresenceTypeOK
  BY PresenceInvariance, PTL DEF PInv

\* Whatever becomes of the calls to Redis, a driver's positions go to the ride
\* he drives, or to one whose end has not reached Redis: its SetAvailable is
\* under way, was lost, or was made before the SetBusy.
THEOREM NobodyIsTracked == SpecP => []PublishesOnlyToOwnRide
  BY PresenceInvariance, PTL DEF PInv

=============================================================================
