----------------------------- MODULE CourierPool -----------------------------
(***************************************************************************)
(* What orders and parcels share: the couriers, who are drivers rows, and  *)
(* the states of an offer to one, in order_offers and parcel_offers alike. *)
(* An 'offered' row is "offered" until its expires_at and "overdue" from   *)
(* then until the sweep; a declined, an expired and a withdrawn offer are  *)
(* all "closed", since nothing reads which of the three it was.            *)
(***************************************************************************)
CONSTANTS Couriers, NoCourier

ASSUME CourierAssumption == NoCourier \notin Couriers

CourierOffers == {"none", "offered", "overdue", "accepted", "closed"}

\* Mutant: a word that the CHECKs of the two offer tables do not know.
OffersWithdrawnAsCancelled(offers) ==
    [k \in Couriers |-> IF offers[k] \in {"offered", "overdue"} THEN "cancelled"
                        ELSE offers[k]]

\* UPDATE ... SET state = 'withdrawn' ... AND state = 'offered'.
OffersWithdrawn(offers) ==
    [k \in Couriers |-> IF offers[k] \in {"offered", "overdue"} THEN "closed"
                        ELSE offers[k]]

\* AcceptOffer: k's offer is accepted and the others' withdrawn.
OffersAccepted(offers, k) == [OffersWithdrawn(offers) EXCEPT ![k] = "accepted"]

\* The sweep's UPDATE ... SET state = 'expired' ... expires_at <= now().
OffersSwept(offers) ==
    [k \in Couriers |-> IF offers[k] = "overdue" THEN "closed" ELSE offers[k]]
=============================================================================
