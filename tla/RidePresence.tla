---------------------------- MODULE RidePresence ----------------------------
(***************************************************************************)
(* The drivers' presence in Redis (location/location.go) beside the rides  *)
(* in PostgreSQL.  A handler commits its transaction and only then tells   *)
(* Redis; the calls of several handlers are in flight together, arrive in  *)
(* any order, and are lost with the process that would make them (their    *)
(* errors are ignored too).                                                *)
(*                                                                         *)
(* presence[d] is the hash driver:{d}: its status, "offline" without a     *)
(* hash, and its ride_id.  Each call is atomic; the GEO sets, which only   *)
(* decide who is near, and the samples are left out.                       *)
(***************************************************************************)
EXTENDS Rides

CONSTANT NoRide

ASSUME NoRideAssumption == NoRide \notin Rides

VARIABLES
    presence,   \* presence[d]: the hash of driver d
    calls,      \* calls the handlers have yet to make
    lost,       \* history: pairs <<d, r>> whose SetAvailable was never made
    overtaken   \* history: pairs <<d, r>> whose SetAvailable was made while
                \* their SetBusy was still under way

presenceVars == <<presence, calls, lost, overtaken>>
allVars == <<vars, presenceVars>>

Statuses == {"offline", "available", "busy"}
RideOps == {"SetBusy", "SetAvailable"}
Ops == {"SetOnline", "SetOffline"}
Calls == [op : RideOps, driver : Drivers, ride : Rides]
           \cup [op : Ops, driver : Drivers, ride : {NoRide}]

Call(op, d, r) == [op |-> op, driver |-> d, ride |-> r]

Offline == [status |-> "offline", ride |-> NoRide]

\* The hash of c's driver after the call c.  SetBusy creates the hash of a
\* driver who went offline again; SetAvailable leaves him offline.
Applied(c) ==
    LET old == presence[c.driver]
        available == [status |-> "available", ride |-> NoRide]
    IN  [SetBusy |-> [status |-> "busy", ride |-> c.ride],
         SetAvailable |-> IF old = Offline THEN Offline ELSE available,
         SetOnline |-> available,
         SetOffline |-> Offline][c.op]

Issue(op, d, r) ==
    /\ calls' = calls \cup {Call(op, d, r)}
    /\ UNCHANGED <<presence, lost, overtaken>>

-----------------------------------------------------------------------------
InitP ==
    /\ Init
    /\ presence = [d \in Drivers |-> Offline]
    /\ calls = {}
    /\ lost = {}
    /\ overtaken = {}

\* The handlers that touch presence when their transaction has committed

Accept(d, r) == AcceptCommit(d, r) /\ Issue("SetBusy", d, r)

\* Mutant: the driver of a cancelled ride is not set free.
CancelByCustomerSilently(r) ==
    /\ CancelCommit(r)
    /\ UNCHANGED presenceVars

CancelByCustomer(r) ==
    /\ CancelCommit(r)
    /\ IF driver[r] = NoDriver THEN UNCHANGED presenceVars
       ELSE Issue("SetAvailable", driver[r], r)

Complete(d, r) ==
    /\ DriverTransition(d, r, "completed")
    /\ Issue("SetAvailable", d, r)

GiveUp(d, r) == CancelByDriver(d, r) /\ Issue("SetAvailable", d, r)

SuspendDriver(d) == Suspend(d) /\ Issue("SetOffline", d, NoRide)

\* GoOnline reads drivers.status and calls SetOnline later.
GoOnline(d) ==
    /\ d \in approved
    /\ Issue("SetOnline", d, NoRide)
    /\ UNCHANGED vars

GoOffline(d) ==
    /\ presence' = [presence EXCEPT ![d] = Offline]
    /\ UNCHANGED <<vars, calls, lost, overtaken>>

\* Nearest: a candidate is available.
Offer(r, d) ==
    /\ presence[d].status = "available"
    /\ RoundPick(r, d)
    /\ UNCHANGED presenceVars

-----------------------------------------------------------------------------
\* Redis

Perform(c) ==
    /\ c \in calls
    /\ presence' = [presence EXCEPT ![c.driver] = Applied(c)]
    /\ calls' = calls \ {c}
    /\ overtaken' = IF /\ c.op = "SetAvailable"
                        /\ Call("SetBusy", c.driver, c.ride) \in calls
                    THEN overtaken \cup {<<c.driver, c.ride>>} ELSE overtaken
    /\ UNCHANGED <<vars, lost>>

Lose(c) ==
    /\ c \in calls
    /\ calls' = calls \ {c}
    /\ lost' = IF c.op = "SetAvailable"
               THEN lost \cup {<<c.driver, c.ride>>} ELSE lost
    /\ UNCHANGED <<vars, presence, overtaken>>

\* No position for hashTTL: the hash of an idle phone expires.
HashExpires(d) ==
    /\ presence' = [presence EXCEPT ![d] = Offline]
    /\ UNCHANGED <<vars, calls, lost, overtaken>>

-----------------------------------------------------------------------------
\* The steps of Rides that leave presence alone

QuietStep(r) ==
    \/ \E c \in Customers : Request(c, r)
    \/ CancelLock(r)
    \/ RoundNoDriver(r)
    \/ FailureStep(r)
    \/ ClockStep(r)
    \/ \E d \in Drivers :
         \/ AcceptCheck(d, r)
         \/ AcceptLockOffer(d, r)
         \/ AcceptLate(d, r)
         \/ AcceptLockRide(d, r)
         \/ AcceptRefused(d, r)
         \/ DeclineOffer(d, r)
         \/ \E to \in {"arrived", "in_progress"} : DriverTransition(d, r, to)
         \/ ExpireOffer(r, d)
         \/ RoundInsert(r, d)

NextP ==
    \/ \E r \in Rides :
         \/ QuietStep(r) /\ UNCHANGED presenceVars
         \/ CancelByCustomer(r)
         \/ \E d \in Drivers :
              Accept(d, r) \/ Complete(d, r) \/ GiveUp(d, r) \/ Offer(r, d)
    \/ \E d \in Drivers :
         \/ SuspendDriver(d)
         \/ Approve(d) /\ UNCHANGED presenceVars
         \/ GoOnline(d)
         \/ GoOffline(d)
         \/ HashExpires(d)
    \/ \E c \in calls : Perform(c) \/ Lose(c)

SpecP == InitP /\ [][NextP]_allVars

-----------------------------------------------------------------------------
\* Properties

\* The type invariant of the presence hashes and the calls in flight; only a
\* busy driver has a ride_id.
PresenceTypeOK ==
    /\ presence \in [Drivers -> [status : Statuses, ride : Rides \cup {NoRide}]]
    /\ calls \in SUBSET Calls
    /\ lost \in SUBSET (Drivers \X Rides)
    /\ overtaken \in SUBSET (Drivers \X Rides)
    /\ \A d \in Drivers : presence[d].ride # NoRide <=> presence[d].status = "busy"

Drives(d, r) == driver[r] = d /\ state[r] \in Driving

\* The ways in which the hash of d may still say r: he drives it, or the
\* SetAvailable of its end is under way, was lost or came before the SetBusy.
MaySayBusy(d, r) ==
    \/ Drives(d, r)
    \/ Call("SetAvailable", d, r) \in calls
    \/ <<d, r>> \in lost \cup overtaken

\* A driver's positions are published on the channel of a ride (Ingest reads
\* ride_id) only while he drives that ride, until the call that its end makes
\* has arrived.  Only that call's loss, and a SetBusy that comes after it,
\* leave him on a ride that is no longer his: they really do (BusyMeansDriving).
PublishesOnlyToOwnRide ==
    \A d \in Drivers : presence[d].ride # NoRide => MaySayBusy(d, presence[d].ride)

\* `SetBusy / SetAvailable: the state of work (an active ride or not)': once
\* every call was made and none was lost, a busy driver has an active ride.
BusyMeansDriving ==
    \A d \in Drivers :
      /\ \A r \in Rides : <<d, r>> \notin lost
      /\ \A c \in calls : c.driver # d
      /\ presence[d].status = "busy"
      => HasActiveRide(d)
=============================================================================
