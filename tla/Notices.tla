------------------------------- MODULE Notices -------------------------------
\* Whom an event is told to (modules/notifications/handler.go): Map finds the
\* recipients by the event's type and payload, and fillUser looks up the
\* customer of a job whose event does not name him.
\*
\* Of an event there is its type, the fields of the payload that Map asks for,
\* names: whom the payload names in a role, Nobody where it names none, and
\* customer: the customer in the row of the ride, parcel or request it is about.
CONSTANT Nobody

RideTells(ev, role) ==
    \/ role = "driver" /\ ev.type \in {"RideOffered", "RideCompleted"}
    \/ role = "driver" /\ ev.type = "RideCancelled" /\ ev.by = "customer"
    \/ role = "customer" /\ ev.type \in {"RideAssigned", "RideDriverArrived", "RideStarted",
                                         "RideCompleted"}
    \/ role = "customer" /\ ev.type = "RideRequested" /\ ev.reassign
    \/ /\ role = "customer"
       /\ \/ ev.type = "RidePaymentFailed"
          \/ ev.type = "RidePaymentSettled" /\ ev.status = "paid"
       /\ ev.method = "wallet"

\* That an order is ready says something to a customer who fetches it himself.
OrderTells(ev, role) ==
    \/ role = "owner" /\ ev.type = "OrderCreated"
    \/ role = "courier" /\ ev.type = "OrderOffered"
    \/ role = "courier" /\ ev.type = "OrderCancelled" /\ ev.by # "courier"
    \/ role = "customer" /\ ev.type \in {"OrderAccepted", "OrderPreparing", "OrderRejected",
                                         "OrderCourierAssigned", "OrderPickedUp", "OrderDelivered"}
    \/ role = "customer" /\ ev.type = "OrderReady" /\ ev.fulfillment # "courier"
    \/ role = "customer" /\ ev.type = "OrderCancelled" /\ ev.by # "customer"

ParcelTells(ev, role) ==
    \/ role = "courier" /\ ev.type = "ParcelOffered"
    \/ role = "courier" /\ ev.type = "ParcelCancelled" /\ ev.by = "customer"
    \/ role = "customer" /\ ev.type \in {"ParcelCourierAssigned", "ParcelPickedUp", "ParcelDelivered"}

ServiceTells(ev, role) ==
    \/ role = "provider" /\ ev.type = "ServiceBooked"
    \/ role = "provider" /\ ev.type = "ServiceCancelled" /\ ev.by = "customer"
    \/ role = "provider" /\ ev.type = "ServiceProviderStatusChanged"
                         /\ ev.status \in {"approved", "suspended"}
    \/ role = "customer" /\ ev.type \in {"ServiceStarted", "ServiceCompleted", "ServiceReleased"}

AccountTells(ev, role) ==
    \/ role = "user" /\ ev.type \in {"WalletToppedUp", "SupportTicketReplied"}
    \/ role = "user" /\ ev.type = "UserProfileUpdated" /\ "email" \in ev.changed
    \/ role = "recipient" /\ ev.type = "RideChatMessage"
    \/ role = "owner" /\ ev.type = "MerchantStatusChanged" /\ ev.status \in {"active", "suspended"}
    \/ role = "driver" /\ ev.type = "DriverDocumentReviewed" /\ ev.status = "rejected"
    \/ role = "driver" /\ ev.type \in {"DriverApproved", "DriverSuspended"}

Tells(ev, role) ==
    RideTells(ev, role) \/ OrderTells(ev, role) \/ ParcelTells(ev, role)
    \/ ServiceTells(ev, role) \/ AccountTells(ev, role)

\* Map leaves the recipient open, and fillUser reads the row.
LooksUp(ev) == ev.type \in {"RideNoDriver", "ParcelNoCourier", "ServiceOffered"}

Recipients(ev) ==
    ({ev.names[role] : role \in {r \in DOMAIN ev.names : Tells(ev, r)}}
        \cup (IF LooksUp(ev) THEN {ev.customer} ELSE {})) \ {Nobody}
=============================================================================
