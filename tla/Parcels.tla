------------------------------- MODULE Parcels -------------------------------
(***************************************************************************)
(* Parcels inside the city: parcels.go, courier.go and dispatch.go of      *)
(* modules/parcels and the worker's loop.  Each handler is one transaction *)
(* that locks the parcel's row.  A dispatch round reads which couriers are *)
(* free and inserts the offer later, holding its own parcel's row but not  *)
(* the couriers', so it is two steps; and so is an acceptance, which holds *)
(* the offer while it waits for the row.  Declining, and the sweep's       *)
(* expiry, touch offers only.                                              *)
(* Codes, addresses and prices are left out, and couriers' presence in     *)
(* Redis, which RidePresence is about.                                     *)
(***************************************************************************)
EXTENDS JobPayments, CourierPool

CONSTANTS Parcels

ASSUME ParcelsAssumption == Parcels \subseteq PaidJobs

VARIABLES
    parcel,         \* parcel[p]: the row: state, courier_id, whether Timeout
                    \* has passed since created_at, the courier that the round
                    \* holding the row's lock has picked, and the couriers
                    \* whose AcceptOffer has found the offer open and holds
                    \* its lock, waiting for this row
    parcelOffer     \* parcelOffer[p][k]: "none" without a row

parcelVars == <<parcel, parcelOffer>>

ParcelStates == {"none", "requested", "courier_assigned", "picked_up",
                 "delivered", "cancelled", "no_courier"}
ParcelActive == {"courier_assigned", "picked_up"}

ParcelTransitions ==
    {<<"requested", "courier_assigned">>, <<"requested", "cancelled">>,
     <<"requested", "no_courier">>, <<"courier_assigned", "picked_up">>,
     <<"courier_assigned", "requested">>, <<"courier_assigned", "cancelled">>,
     <<"picked_up", "delivered">>}

\* The couriers that parcels keep busy, or may: read by a round.
CarriesParcel(k) ==
    \E p \in Parcels : parcel[p].courier = k /\ parcel[p].state \in ParcelActive
AskedForParcel(k) == \E p \in Parcels : parcelOffer[p][k] = "offered"

ParcelUnlocked(p) == parcel[p].pick = NoCourier

-----------------------------------------------------------------------------
ParcelsInit ==
    /\ parcel = [p \in Parcels |->
         [state |-> "none", courier |-> NoCourier, late |-> FALSE, pick |-> NoCourier,
          accepting |-> {}]]
    /\ parcelOffer = [p \in Parcels |-> [k \in Couriers |-> "none"]]

\* Create; a repeated idempotency key finds the row and changes nothing, so p
\* stands for the customer's key.
CreateParcel(p) ==
    /\ parcel[p].state = "none"
    /\ parcel' = [parcel EXCEPT ![p].state = "requested"]
    /\ PayBecomes(p, "pending")
    /\ UNCHANGED parcelOffer

\* Cancel: the courier stays in the row, and the open offers are withdrawn,
\* whose locks must be free.
CancelParcel(p) ==
    /\ parcel[p].state \in {"requested", "courier_assigned"}
    /\ ParcelUnlocked(p)
    /\ parcel[p].accepting = {}
    /\ parcel' = [parcel EXCEPT ![p].state = "cancelled"]
    /\ parcelOffer' = [parcelOffer EXCEPT ![p] = OffersWithdrawn(@)]
    /\ PayBecomes(p, "none")

-----------------------------------------------------------------------------
\* Dispatch

\* Round, up to the insert: `elsewhere' are couriers who are not near, not
\* approved, or busy in the other tables that it reads.
ParcelRoundPick(p, k, elsewhere) ==
    /\ parcel[p].state = "requested"
    /\ ParcelUnlocked(p)
    /\ \A c \in Couriers : parcelOffer[p][c] # "offered"
    /\ ~parcel[p].late
    /\ parcelOffer[p][k] = "none"
    /\ ~CarriesParcel(k)
    /\ ~AskedForParcel(k)
    /\ k \notin elsewhere
    /\ parcel' = [parcel EXCEPT ![p].pick = k]
    /\ UNCHANGED <<parcelOffer, payVars>>

ParcelRoundInsert(p) ==
    /\ ~ParcelUnlocked(p)
    /\ parcelOffer' = [parcelOffer EXCEPT ![p][parcel[p].pick] = "offered"]
    /\ parcel' = [parcel EXCEPT ![p].pick = NoCourier]
    /\ UNCHANGED payVars

\* The round's transaction is rolled back.
ParcelRoundFails(p) ==
    /\ ~ParcelUnlocked(p)
    /\ parcel' = [parcel EXCEPT ![p].pick = NoCourier]
    /\ UNCHANGED <<parcelOffer, payVars>>

\* Round, once Timeout has passed: no courier was found.
ParcelRoundNobody(p) ==
    /\ parcel[p].state = "requested"
    /\ ParcelUnlocked(p)
    /\ \A c \in Couriers : parcelOffer[p][c] # "offered"
    /\ parcel[p].late
    /\ parcel' = [parcel EXCEPT ![p].state = "no_courier"]
    /\ PayBecomes(p, "none")
    /\ UNCHANGED parcelOffer

\* Sweep's first statement, for all parcels at once; it waits for the offers
\* that an acceptance holds.
SweepParcelOffers ==
    /\ \E p \in Parcels, k \in Couriers : parcelOffer[p][k] = "overdue"
    /\ \A p \in Parcels : \A k \in parcel[p].accepting : parcelOffer[p][k] # "overdue"
    /\ parcelOffer' = [p \in Parcels |-> OffersSwept(parcelOffer[p])]
    /\ UNCHANGED <<parcel, payVars>>

-----------------------------------------------------------------------------
\* The courier

\* AcceptOffer locks the offer and compares its expires_at with the clock,
\* and only then waits for the parcel's row: nothing looks at the clock again.
AcceptParcelCheck(p, k) ==
    /\ parcelOffer[p][k] = "offered"
    /\ k \notin parcel[p].accepting
    /\ parcel' = [parcel EXCEPT ![p].accepting = @ \cup {k}]
    /\ UNCHANGED <<parcelOffer, payVars>>

\* Mutant: neither the parcel's state nor the partial index is looked at.
AcceptParcelUnread(p, k) ==
    /\ parcel[p].accepting = {k}
    /\ ParcelUnlocked(p)
    /\ parcel' = [parcel EXCEPT ![p].state = "courier_assigned", ![p].courier = k,
                                ![p].accepting = {}]
    /\ parcelOffer' = [parcelOffer EXCEPT ![p] = OffersAccepted(@, k)]
    /\ UNCHANGED payVars

\* With the row: parcels_one_active_per_courier allows a courier one parcel,
\* and the other couriers' offers are withdrawn, whose locks must be free.
AcceptParcel(p, k) ==
    /\ parcel[p].accepting = {k}
    /\ ParcelUnlocked(p)
    /\ parcel[p].state = "requested"
    /\ ~CarriesParcel(k)
    /\ parcel' = [parcel EXCEPT ![p].state = "courier_assigned", ![p].courier = k,
                                ![p].accepting = {}]
    /\ parcelOffer' = [parcelOffer EXCEPT ![p] = OffersAccepted(@, k)]
    /\ UNCHANGED payVars

\* Rolled back, the UPDATE to 'withdrawn' with it: the parcel is no longer
\* requested, the index refuses the courier, the connection breaks, or two
\* transactions wait for each other's locks and PostgreSQL aborts one.
AcceptParcelFails(p, k) ==
    /\ k \in parcel[p].accepting
    /\ parcel' = [parcel EXCEPT ![p].accepting = @ \ {k}]
    /\ UNCHANGED <<parcelOffer, payVars>>

DeclineParcel(p, k) ==
    /\ parcelOffer[p][k] \in {"offered", "overdue"}
    /\ k \notin parcel[p].accepting
    /\ parcelOffer' = [parcelOffer EXCEPT ![p][k] = "closed"]
    /\ UNCHANGED <<parcel, payVars>>

\* transition: the row is found by courier_id, and the table decides.
CourierMoves(p, k, to) ==
    /\ ParcelUnlocked(p)
    /\ parcel[p].courier = k
    /\ <<parcel[p].state, to>> \in ParcelTransitions

PickUpParcel(p, k) ==
    /\ CourierMoves(p, k, "picked_up")
    /\ parcel' = [parcel EXCEPT ![p].state = "picked_up"]
    /\ UNCHANGED <<parcelOffer, payVars>>

DeliverParcel(p, k) ==
    /\ CourierMoves(p, k, "delivered")
    /\ parcel' = [parcel EXCEPT ![p].state = "delivered"]
    /\ JobIsDone(p)
    /\ UNCHANGED parcelOffer

ReleaseParcel(p, k) ==
    /\ CourierMoves(p, k, "requested")
    /\ parcel' = [parcel EXCEPT ![p].state = "requested", ![p].courier = NoCourier]
    /\ parcelOffer' = [parcelOffer EXCEPT ![p][k] = "closed"]
    /\ UNCHANGED payVars

SettleParcel(p) ==
    /\ (parcel[p].state = "delivered" /\ TakeUpPending(p)) \/ SettleStep(p)
    /\ UNCHANGED parcelVars

-----------------------------------------------------------------------------
\* Time

LapseParcelOffer(p, k) ==
    /\ parcelOffer[p][k] = "offered"
    /\ parcelOffer' = [parcelOffer EXCEPT ![p][k] = "overdue"]
    /\ UNCHANGED <<parcel, payVars>>

TimeOutParcel(p) ==
    /\ parcel[p].state \in {"requested", "courier_assigned"}
    /\ ~parcel[p].late
    /\ parcel' = [parcel EXCEPT ![p].late = TRUE]
    /\ UNCHANGED <<parcelOffer, payVars>>

-----------------------------------------------------------------------------
ParcelStep(p, elsewhere) ==
    \/ CancelParcel(p)
    \/ ParcelRoundInsert(p)
    \/ ParcelRoundFails(p)
    \/ ParcelRoundNobody(p)
    \/ SettleParcel(p)
    \/ TimeOutParcel(p)
    \/ \E k \in Couriers :
         \/ ParcelRoundPick(p, k, elsewhere)
         \/ AcceptParcelCheck(p, k)
         \/ AcceptParcel(p, k)
         \/ AcceptParcelFails(p, k)
         \/ DeclineParcel(p, k)
         \/ PickUpParcel(p, k)
         \/ DeliverParcel(p, k)
         \/ ReleaseParcel(p, k)
         \/ LapseParcelOffer(p, k)

\* On their own: whatever the other tables say of the couriers.
ParcelsNext ==
    \/ \E p \in Parcels : CreateParcel(p)
    \/ \E p \in Parcels, elsewhere \in SUBSET Couriers : ParcelStep(p, elsewhere)
    \/ SweepParcelOffers

ParcelsSpec ==
    /\ ParcelsInit /\ PaymentsInit
    /\ [][ParcelsNext]_<<parcelVars, payVars>>

\* The worker sweeps every few seconds, its rounds end, and time passes.
ParcelsFairness ==
    \A p \in Parcels :
        /\ WF_parcelVars(ParcelRoundInsert(p) \/ ParcelRoundFails(p))
        /\ WF_parcelVars(ParcelRoundNobody(p))
        /\ WF_parcelVars(TimeOutParcel(p))
        /\ \A k \in Couriers : WF_parcelVars(LapseParcelOffer(p, k))

-----------------------------------------------------------------------------
ParcelsTypeOK ==
    /\ parcel \in [Parcels -> [state : ParcelStates, courier : Couriers \cup {NoCourier},
                               late : BOOLEAN, pick : Couriers \cup {NoCourier},
                               accepting : SUBSET Couriers]]
    /\ parcelOffer \in [Parcels -> [Couriers -> CourierOffers]]

\* The parcels as jobs handed to couriers.
ParcelPhase(p) ==
    CASE parcel[p].state = "none" -> "unposted"
      [] parcel[p].state = "requested" -> "open"
      [] parcel[p].state \in ParcelActive -> "taken"
      [] OTHER -> "ended"

\* Who may still take a parcel: whoever's offer is open, or was when he
\* accepted it.
ParcelAsks(p) ==
    {k \in Couriers : \/ parcelOffer[p][k] = "offered"
                      \/ parcel[p].state = "requested" /\ k \in parcel[p].accepting}

Abstract == INSTANCE Jobs WITH
    Jobs <- Parcels,
    Workers <- Couriers,
    NoWorker <- NoCourier,
    phase <- [p \in Parcels |-> ParcelPhase(p)],
    worker <- [p \in Parcels |->
                 IF parcel[p].state \in ParcelActive THEN parcel[p].courier ELSE NoCourier],
    asked <- [p \in Parcels |-> ParcelAsks(p)]

\* Cancelling, accepting, dispatching, expiry and release interleave, and yet
\* a parcel is only ever taken while it is open, by a courier who was asked
\* and answered in time and who carries no other parcel, though his offer may
\* have lapsed since and another courier been asked; and a parcel that is taken
\* or over has no open offer left to block a courier (AcceptOffer, Cancel,
\* Round).
ParcelsImplementJobs == Abstract!Spec

\* A request is answered: it is taken, cancelled, or closed without a courier
\* once Timeout has passed (dispatch.go, Round and Sweep).
ParcelRequestIsAnswered ==
    \A p \in Parcels : parcel[p].state = "requested" ~> parcel[p].state # "requested"
=============================================================================
