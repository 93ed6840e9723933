------------------------------- MODULE Orders --------------------------------
(***************************************************************************)
(* Food and market orders: orders.go, courier.go and dispatch.go of        *)
(* modules/orders and the worker's loop.  As with parcels, each handler is *)
(* one transaction that locks the order's row, and a round and an          *)
(* acceptance are two steps each.  What differs from parcels is what the   *)
(* code does differently: the merchant moves the order too, cancelling     *)
(* leaves the offers as they are, and after Timeout the order stays ready  *)
(* and Operations are alerted.                                             *)
(*                                                                         *)
(* Items, prices, opening hours and couriers' presence are left out.       *)
(***************************************************************************)
EXTENDS JobPayments, CourierPool

CONSTANTS Orders,
    ByCourier       \* the orders whose fulfillment is 'courier'

ASSUME OrdersAssumption == Orders \subseteq PaidJobs /\ ByCourier \subseteq Orders

VARIABLES
    order,          \* order[o]: state, courier_id, whether Timeout has passed
                    \* since ready_at, whether OrderNoCourier was emitted, the
                    \* courier that the round holding the lock has picked, and
                    \* the couriers whose AcceptOffer has found the offer open
                    \* and holds its lock, waiting for this row
    orderOffer      \* orderOffer[o][k], as parcelOffer in Parcels

orderVars == <<order, orderOffer>>

OrderStates == {"none", "pending_merchant", "accepted", "preparing", "ready",
    "courier_assigned", "picked_up", "delivered", "cancelled", "rejected"}
OrderCarried == {"courier_assigned", "picked_up"}
OrderOver == {"delivered", "cancelled", "rejected"}

OrderTransitions(from) ==
    CASE from = "pending_merchant" -> {"accepted", "rejected", "cancelled"}
      [] from = "accepted" -> {"preparing", "cancelled"}
      [] from = "preparing" -> {"ready", "cancelled"}
      [] from = "ready" -> {"courier_assigned", "delivered", "cancelled"}
      [] from = "courier_assigned" -> {"picked_up", "ready", "cancelled"}
      [] from = "picked_up" -> {"delivered"}
      [] OTHER -> {}

CarriesOrder(k) ==
    \E o \in Orders : order[o].courier = k /\ order[o].state \in OrderCarried
AskedForOrder(k) == \E o \in Orders : orderOffer[o][k] = "offered"

OrderUnlocked(o) == order[o].pick = NoCourier

-----------------------------------------------------------------------------
OrdersInit ==
    /\ order = [o \in Orders |-> [state |-> "none", courier |-> NoCourier,
                   late |-> FALSE, alerted |-> FALSE, pick |-> NoCourier,
                   accepting |-> {}]]
    /\ orderOffer = [o \in Orders |-> [k \in Couriers |-> "none"]]

\* Create; o stands for the customer's idempotency key.
CreateOrder(o) ==
    /\ order[o].state = "none"
    /\ order' = [order EXCEPT ![o].state = "pending_merchant"]
    /\ PayBecomes(o, "pending")
    /\ UNCHANGED orderOffer

\* CancelByCustomer, until the merchant starts to prepare it.
CancelOrder(o) ==
    /\ order[o].state \in {"pending_merchant", "accepted"}
    /\ OrderUnlocked(o)
    /\ order' = [order EXCEPT ![o].state = "cancelled"]
    /\ PayBecomes(o, "none")
    /\ UNCHANGED orderOffer

\* The targets of MerchantTransition: what has no case of its own is refused,
\* and a courier's delivery is for the courier to confirm.
MerchantMay(o, to) ==
    /\ to \in OrderTransitions(order[o].state)
    /\ to \notin {"courier_assigned", "picked_up"}
    /\ to = "delivered" => o \notin ByCourier

\* MerchantTransition.  From 'courier_assigned' back to 'ready' it leaves the
\* courier in the row and his offer accepted.
MerchantMoves(o, to) ==
    /\ MerchantMay(o, to)
    /\ OrderUnlocked(o)
    /\ order' = [order EXCEPT ![o].state = to,
                              ![o].late = IF to = "ready" THEN FALSE ELSE @]
    /\ CASE to = "delivered" -> JobIsDone(o)
         [] to \in {"cancelled", "rejected"} -> PayBecomes(o, "none")
         [] OTHER -> UNCHANGED payVars
    /\ UNCHANGED orderOffer

-----------------------------------------------------------------------------
\* Dispatch

NeedsCourier(o) == order[o].state = "ready" /\ o \in ByCourier

\* Round, up to the insert: `elsewhere' are couriers who are not near, not
\* approved or driving a ride.
OrderRoundPick(o, k, elsewhere) ==
    /\ NeedsCourier(o)
    /\ OrderUnlocked(o)
    /\ \A c \in Couriers : orderOffer[o][c] # "offered"
    /\ ~order[o].late
    /\ orderOffer[o][k] = "none"
    /\ ~CarriesOrder(k)
    /\ ~AskedForOrder(k)
    /\ k \notin elsewhere
    /\ order' = [order EXCEPT ![o].pick = k]
    /\ UNCHANGED <<orderOffer, payVars>>

OrderRoundInsert(o) ==
    /\ ~OrderUnlocked(o)
    /\ orderOffer' = [orderOffer EXCEPT ![o][order[o].pick] = "offered"]
    /\ order' = [order EXCEPT ![o].pick = NoCourier]
    /\ UNCHANGED payVars

OrderRoundFails(o) ==
    /\ ~OrderUnlocked(o)
    /\ order' = [order EXCEPT ![o].pick = NoCourier]
    /\ UNCHANGED <<orderOffer, payVars>>

\* Mutant: nobody is alerted while an offer to somebody is recorded.
AlertOperationsIfUnasked(o) ==
    /\ NeedsCourier(o)
    /\ OrderUnlocked(o)
    /\ \A c \in Couriers : orderOffer[o][c] = "none"
    /\ order[o].late
    /\ ~order[o].alerted
    /\ order' = [order EXCEPT ![o].alerted = TRUE]
    /\ UNCHANGED <<orderOffer, payVars>>

\* Round, once Timeout has passed: OrderNoCourier, once.
AlertOperations(o) ==
    /\ NeedsCourier(o)
    /\ OrderUnlocked(o)
    /\ \A c \in Couriers : orderOffer[o][c] # "offered"
    /\ order[o].late
    /\ ~order[o].alerted
    /\ order' = [order EXCEPT ![o].alerted = TRUE]
    /\ UNCHANGED <<orderOffer, payVars>>

\* Sweep's UPDATE waits for the offers that an acceptance holds.
SweepOrderOffers ==
    /\ \E o \in Orders, k \in Couriers : orderOffer[o][k] = "overdue"
    /\ \A o \in Orders : \A k \in order[o].accepting : orderOffer[o][k] # "overdue"
    /\ orderOffer' = [o \in Orders |-> OffersSwept(orderOffer[o])]
    /\ UNCHANGED <<order, payVars>>

-----------------------------------------------------------------------------
\* The courier

\* AcceptOffer locks the offer and compares its expires_at with the clock,
\* and only then waits for the order's row: nothing looks at the clock again.
AcceptOrderCheck(o, k) ==
    /\ orderOffer[o][k] = "offered"
    /\ k \notin order[o].accepting
    /\ order' = [order EXCEPT ![o].accepting = @ \cup {k}]
    /\ UNCHANGED <<orderOffer, payVars>>

\* With the row: orders_courier_active_idx allows a courier one order, and the
\* other couriers' offers are withdrawn, whose locks must be free.
AcceptOrder(o, k) ==
    /\ order[o].accepting = {k}
    /\ OrderUnlocked(o)
    /\ order[o].state = "ready"
    /\ ~CarriesOrder(k)
    /\ order' = [order EXCEPT ![o].state = "courier_assigned", ![o].courier = k,
                              ![o].accepting = {}]
    /\ orderOffer' = [orderOffer EXCEPT ![o] = OffersAccepted(@, k)]
    /\ UNCHANGED payVars

\* Rolled back, the UPDATE to 'withdrawn' with it: the order is not ready, the
\* index refuses the courier, the connection breaks, or two couriers wait for
\* each other's locks and PostgreSQL aborts one.
AcceptOrderFails(o, k) ==
    /\ k \in order[o].accepting
    /\ order' = [order EXCEPT ![o].accepting = @ \ {k}]
    /\ UNCHANGED <<orderOffer, payVars>>

DeclineOrder(o, k) ==
    /\ orderOffer[o][k] \in {"offered", "overdue"}
    /\ k \notin order[o].accepting
    /\ orderOffer' = [orderOffer EXCEPT ![o][k] = "closed"]
    /\ UNCHANGED <<order, payVars>>

\* courierTransition: whoever courier_id names, if the table allows it.
OrderCourierMoves(o, k, to) ==
    /\ OrderUnlocked(o)
    /\ order[o].courier = k
    /\ to \in OrderTransitions(order[o].state)

PickUpOrder(o, k) ==
    /\ OrderCourierMoves(o, k, "picked_up")
    /\ order' = [order EXCEPT ![o].state = "picked_up"]
    /\ UNCHANGED <<orderOffer, payVars>>

DeliverOrder(o, k) ==
    /\ OrderCourierMoves(o, k, "delivered")
    /\ order' = [order EXCEPT ![o].state = "delivered"]
    /\ JobIsDone(o)
    /\ UNCHANGED orderOffer

\* ReleaseByCourier; ready_at stays what it was.
ReleaseOrder(o, k) ==
    /\ OrderCourierMoves(o, k, "ready")
    /\ order' = [order EXCEPT ![o].state = "ready", ![o].courier = NoCourier]
    /\ orderOffer' = [orderOffer EXCEPT ![o][k] = "closed"]
    /\ UNCHANGED payVars

SettleOrder(o) ==
    /\ (order[o].state = "delivered" /\ TakeUpPending(o)) \/ SettleStep(o)
    /\ UNCHANGED orderVars

-----------------------------------------------------------------------------
\* Time

LapseOrderOffer(o, k) ==
    /\ orderOffer[o][k] = "offered"
    /\ orderOffer' = [orderOffer EXCEPT ![o][k] = "overdue"]
    /\ UNCHANGED <<order, payVars>>

TimeOutOrder(o) ==
    /\ order[o].state \in {"ready", "courier_assigned"}
    /\ o \in ByCourier
    /\ ~order[o].late
    /\ order' = [order EXCEPT ![o].late = TRUE]
    /\ UNCHANGED <<orderOffer, payVars>>

-----------------------------------------------------------------------------
OrderStep(o, elsewhere) ==
    \/ CancelOrder(o)
    \/ \E to \in OrderStates : MerchantMoves(o, to)
    \/ OrderRoundInsert(o)
    \/ OrderRoundFails(o)
    \/ AlertOperations(o)
    \/ SettleOrder(o)
    \/ TimeOutOrder(o)
    \/ \E k \in Couriers :
         \/ OrderRoundPick(o, k, elsewhere)
         \/ AcceptOrderCheck(o, k)
         \/ AcceptOrder(o, k)
         \/ AcceptOrderFails(o, k)
         \/ DeclineOrder(o, k)
         \/ PickUpOrder(o, k)
         \/ DeliverOrder(o, k)
         \/ ReleaseOrder(o, k)
         \/ LapseOrderOffer(o, k)

OrdersNext ==
    \/ \E o \in Orders : CreateOrder(o)
    \/ \E o \in Orders, elsewhere \in SUBSET Couriers : OrderStep(o, elsewhere)
    \/ SweepOrderOffers

OrdersSpec ==
    /\ OrdersInit /\ PaymentsInit
    /\ [][OrdersNext]_<<orderVars, payVars>>

OrdersFairness ==
    \A o \in Orders :
        /\ WF_orderVars(OrderRoundInsert(o) \/ OrderRoundFails(o))
        /\ WF_orderVars(AlertOperations(o))
        /\ WF_orderVars(TimeOutOrder(o))
        /\ \A k \in Couriers : WF_orderVars(LapseOrderOffer(o, k))

-----------------------------------------------------------------------------
OrdersTypeOK ==
    /\ order \in [Orders -> [state : OrderStates, courier : Couriers \cup {NoCourier},
                             late : BOOLEAN, alerted : BOOLEAN,
                             pick : Couriers \cup {NoCourier},
                             accepting : SUBSET Couriers]]
    /\ orderOffer \in [Orders -> [Couriers -> CourierOffers]]

\* Whoever carries or delivered an order was offered it and accepted: also
\* after the merchant takes an order back, another courier accepts it, and
\* the first one, whom the row still names for a while, acts (courier.go:195).
CarrierAccepted ==
    \A o \in Orders :
        order[o].courier # NoCourier => orderOffer[o][order[o].courier] = "accepted"

\* The orders as jobs handed to couriers: open until a courier has one, whom
\* the order's row names for longer than he has it.
OrderPhase(o) ==
    CASE order[o].state = "none" -> "unposted"
      [] order[o].state \in OrderCarried -> "taken"
      [] order[o].state \in OrderOver -> "ended"
      [] OTHER -> "open"

\* Who may still take a ready order: whoever's offer is open, or was when he
\* accepted it.  The offers of an order that its merchant delivered or
\* cancelled stay 'offered' until the sweep, and nobody can accept them.
OrderAsks(o) ==
    {k \in Couriers : /\ order[o].state = "ready"
                      /\ orderOffer[o][k] = "offered" \/ k \in order[o].accepting}

OrderJobs == INSTANCE Jobs WITH
    Jobs <- Orders,
    Workers <- Couriers,
    NoWorker <- NoCourier,
    phase <- [o \in Orders |-> OrderPhase(o)],
    worker <- [o \in Orders |->
                 IF order[o].state \in OrderCarried THEN order[o].courier ELSE NoCourier],
    asked <- [o \in Orders |-> OrderAsks(o)]

\* The merchant takes an order back, cancels or hands it over, couriers accept,
\* pick up and release, and rounds and sweeps run, in any order; and yet an
\* order is only ever taken while it is open, by a courier who was asked and
\* answered in time and who carries no other order, though his offer may have
\* lapsed since and another courier been asked; and one that was taken and is
\* open again has nobody from before who may still take it
\* (MerchantTransition, AcceptOffer, Round).
OrdersImplementJobs == OrderJobs!Spec

\* A ready order that needs a courier does not wait unseen: it is taken or
\* over, or Operations have been alerted (dispatch.go, Round).
ReadyOrderIsAnswered ==
    \A o \in Orders : NeedsCourier(o) ~> (~NeedsCourier(o) \/ order[o].alerted)
=============================================================================
