------------------------------ MODULE Commerce -------------------------------
(***************************************************************************)
(* Orders, parcels, services and coupons together.  They meet in three     *)
(* places: orders and parcels compete for the same couriers (a parcel's    *)
(* round asks whom the orders keep busy, an order's round does not ask the *)
(* parcels), both consume the coupon in their creating transaction, and    *)
(* all three are paid by the same protocol.                                *)
(*                                                                         *)
(* A behaviour plays one scene: the jobs that are ever created in it, the  *)
(* couriers on duty, and whether its checkouts use the coupon.  Dispatch   *)
(* never looks at coupons, so a scene has one or the other.                *)
(***************************************************************************)
EXTENDS Orders, Parcels, ServiceRequests, Promos

CONSTANTS
    Scenes      \* each [jobs : SUBSET PaidJobs, duty : SUBSET Couriers,
                \*       coupon : BOOLEAN]

VARIABLE scene

commerceVars == <<orderVars, parcelVars, serviceVars, promoVars, payVars, scene>>

\* A job is a row of one table.
ASSUME CommerceAssumption ==
    /\ References = Orders \cup Parcels
    /\ FoodReferences = Orders
    /\ Orders \cap Parcels = {}
    /\ Requests \cap (Orders \cup Parcels) = {}

CommerceInit ==
    /\ OrdersInit
    /\ ParcelsInit
    /\ ServicesInit
    /\ PromosInit
    /\ PaymentsInit
    /\ scene \in Scenes

\* The couriers whom a parcel's round finds busy with orders.
BusyWithOrders == {k \in Couriers : CarriesOrder(k) \/ AskedForOrder(k)}

\* The creating transaction, with or without the coupon.
CheckOut(r) ==
    /\ \/ r \in Orders /\ CreateOrder(r) /\ UNCHANGED parcelVars
       \/ r \in Parcels /\ CreateParcel(r) /\ UNCHANGED orderVars
    /\ \/ basket[r] = "none" /\ UNCHANGED promoVars
       \/ Redeem(r)

CouponStep ==
    \/ PromosAdmin
    \/ \E r \in References \cap scene.jobs :
         ApplyCoupon(r) \/ RedeemFails(r)

CommerceNext ==
    /\ UNCHANGED scene
    /\ \/ /\ \E r \in References \cap scene.jobs : CheckOut(r)
          /\ UNCHANGED serviceVars
       \/ /\ scene.coupon
          /\ CouponStep
          /\ UNCHANGED <<orderVars, parcelVars, serviceVars, payVars>>
       \/ /\ ~scene.coupon
          /\ \/ \E o \in Orders \cap scene.jobs : OrderStep(o, Couriers \ scene.duty)
             \/ SweepOrderOffers
          /\ UNCHANGED <<parcelVars, serviceVars, promoVars>>
       \/ /\ ~scene.coupon
          /\ \/ \E p \in Parcels \cap scene.jobs : 
                     ParcelStep(p, BusyWithOrders \cup (Couriers \ scene.duty))
             \/ SweepParcelOffers
          /\ UNCHANGED <<orderVars, serviceVars, promoVars>>
       \/ /\ \/ \E r \in Requests \cap scene.jobs : ServiceStep(r)
             \/ Requests \cap scene.jobs # {} /\ \E v \in Providers : SetProviderStatus(v)
          /\ UNCHANGED <<orderVars, parcelVars, promoVars>>

CommerceSpec == CommerceInit /\ [][CommerceNext]_commerceVars

\* The workers' loops sweep every few seconds, their rounds end, time passes.
CommerceFairness == OrdersFairness /\ ParcelsFairness

CommerceFairSpec == CommerceSpec /\ CommerceFairness

-----------------------------------------------------------------------------
CommerceTypeOK ==
    /\ OrdersTypeOK
    /\ ParcelsTypeOK
    /\ ServicesTypeOK
    /\ PromosTypeOK
    /\ PaymentsTypeOK
    /\ scene \in Scenes

\* What was finished, by the kind of job.
Finished(j) ==
    \/ j \in Orders /\ order[j].state = "delivered"
    \/ j \in Parcels /\ parcel[j].state = "delivered"
    \/ j \in Requests /\ request[j].state = "completed"

\* Money follows the work: the ledger is only ever debited for a job that was
\* finished, a status 'paid' or 'cash' stands on a debit unless the job was in
\* cash and had nothing to post, and no job that ended otherwise owes
\* anything, however the handler's settlement and the worker's interleave,
\* stop and start over (settle and setPaymentStatus of the three modules, and
\* every handler that ends a job).
MoneyFollowsWork ==
    \A j \in PaidJobs :
        /\ j \in debited \/ pay[j] \in {"paid", "cash", "failed"} => Finished(j)
        /\ pay[j] = "paid" => j \in debited
        /\ pay[j] = "cash" => j \in debited \/ MethodOf[j] = "free"
        /\ Finished(j) => pay[j] # "none"

\* Nobody works who has not agreed to: the courier of an order holds its
\* accepted offer, and the provider of a request its one accepted bid, at the
\* price that he bid (courierTransition, ReleaseByCourier; services/state.go:1-3).
WorkWasAgreed == CarrierAccepted /\ BookedAsOffered

\* Orders and parcels are handed out as jobs are: whoever takes one was asked
\* for it, answered in time and carries no other of its kind, whatever the
\* merchant, the customer, the rounds and the sweeps of both modules do
\* between his answer and the lock that it waits for.
JobsAreHandedOut == OrdersImplementJobs /\ ParcelsImplementJobs

\* Whoever may still be answered is: a parcel's request is taken, cancelled or
\* closed for want of a courier, and a ready order that needs a courier is
\* taken, over, or brought to Operations (Round and Sweep of both modules).
DispatchAnswers == ParcelRequestIsAnswered /\ ReadyOrderIsAnswered
=============================================================================
