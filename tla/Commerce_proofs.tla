--------------------------- MODULE Commerce_proofs ---------------------------
(***************************************************************************)
(* Theorems about Commerce: nobody works who has not agreed to, parcels    *)
(* implement Jobs, money follows the work, and a coupon for every scope    *)
(* stays within its limits.  Each component's invariant is preserved by    *)
(* its own next-state relation; a step of Commerce is a step of one        *)
(* component that leaves the variables of the others alone.                *)
(***************************************************************************)
EXTENDS Commerce, FiniteSetTheorems, TLAPS

-----------------------------------------------------------------------------
\* Orders

\* A round never asks the courier whom the row names: he has answered before.
PickIsNew ==
    \A o \in Orders : order[o].pick # NoCourier => order[o].courier # order[o].pick

OrdersInv == OrdersTypeOK /\ CarrierAccepted /\ PickIsNew

\* What an accepted offer leaves of the others is an offer's state.
LEMMA OrderOffersTyped ==
    ASSUME NEW offers \in [Couriers -> CourierOffers], NEW k \in Couriers
    PROVE  /\ OffersWithdrawn(offers) \in [Couriers -> CourierOffers]
           /\ OffersAccepted(offers, k) \in [Couriers -> CourierOffers]
           /\ OffersAccepted(offers, k)[k] = "accepted"
           /\ OffersSwept(offers) \in [Couriers -> CourierOffers]
  BY DEF OffersWithdrawn, OffersAccepted, OffersSwept, CourierOffers

\* A step of Orders preserves what CarrierAccepted rests on.
LEMMA OrdersStepsKeepInv == OrdersInv /\ OrdersNext => OrdersInv'
<1> SUFFICES ASSUME OrdersInv, OrdersNext PROVE OrdersInv'
  OBVIOUS
<1> USE DEF OrdersInv, OrdersTypeOK, CarrierAccepted, PickIsNew
<1>1. ASSUME NEW o \in Orders, CreateOrder(o) PROVE OrdersInv'
  BY ZenonT(90), <1>1 DEF CreateOrder, OrderStates
<1>2. ASSUME NEW o \in Orders, CancelOrder(o) PROVE OrdersInv'
  BY ZenonT(90), <1>2 DEF CancelOrder, OrderStates
<1>3. ASSUME NEW o \in Orders, NEW to \in OrderStates, MerchantMoves(o, to)
      PROVE OrdersInv'
  <2>1. /\ order' = [order EXCEPT ![o].state = to,
                                 ![o].late = IF to = "ready" THEN FALSE ELSE @]
        /\ UNCHANGED orderOffer
    BY <1>3 DEF MerchantMoves
  <2>2. \A q \in Orders : order'[q].courier = order[q].courier /\ order'[q].pick = order[q].pick
    BY <2>1
  <2>3. order' = [order EXCEPT ![o] = order'[o]]
    BY <2>1
  <2>4. OrdersTypeOK'
    <3>1. PICK late \in BOOLEAN :
            order'[o] = [order[o] EXCEPT !.state = to, !.late = late]
      BY ZenonT(90), <2>1
    <3>2. order'[o] \in [state : OrderStates, courier : Couriers \cup {NoCourier},
                         late : BOOLEAN, alerted : BOOLEAN, pick : Couriers \cup {NoCourier},
                     accepting : SUBSET Couriers]
      BY ZenonT(90), <3>1
    <3> QED
      BY <2>1, <2>3, <3>2
  <2> QED
    BY <2>1, <2>2, <2>4
<1>4. ASSUME NEW o \in Orders, OrderRoundInsert(o) PROVE OrdersInv'
  BY ZenonT(90), <1>4 DEF OrderRoundInsert, OrderUnlocked, CourierOffers
<1>5. ASSUME NEW o \in Orders, OrderRoundFails(o) PROVE OrdersInv'
  BY ZenonT(90), <1>5 DEF OrderRoundFails
<1>6. ASSUME NEW o \in Orders, AlertOperations(o) PROVE OrdersInv'
  BY ZenonT(90), <1>6 DEF AlertOperations
<1>7. ASSUME NEW o \in Orders, SettleOrder(o) PROVE OrdersInv'
  BY <1>7 DEF SettleOrder, orderVars
<1>8. ASSUME NEW o \in Orders, TimeOutOrder(o) PROVE OrdersInv'
  BY ZenonT(90), <1>8 DEF TimeOutOrder
<1>9. ASSUME NEW o \in Orders, NEW k \in Couriers, NEW elsewhere \in SUBSET Couriers,
             OrderRoundPick(o, k, elsewhere)
      PROVE OrdersInv'
  BY SMTT(60), <1>9, CourierAssumption DEF OrderRoundPick, OrderUnlocked
<1>10. ASSUME NEW o \in Orders, NEW k \in Couriers, AcceptOrder(o, k) PROVE OrdersInv'
  <2>1. /\ order' = [order EXCEPT ![o].state = "courier_assigned", ![o].courier = k,
                                  ![o].accepting = {}]
        /\ orderOffer' = [orderOffer EXCEPT ![o] = OffersAccepted(orderOffer[o], k)]
        /\ order[o].pick = NoCourier
    BY <1>10 DEF AcceptOrder, OrderUnlocked
  <2>2. /\ OffersAccepted(orderOffer[o], k) \in [Couriers -> CourierOffers]
        /\ OffersAccepted(orderOffer[o], k)[k] = "accepted"
    BY OrderOffersTyped
  <2>3. order'[o] = [state |-> "courier_assigned", courier |-> k, late |-> order[o].late,
                     alerted |-> order[o].alerted, pick |-> order[o].pick,
                     accepting |-> {}]
    BY ZenonT(90), <2>1
  <2>4. order' = [order EXCEPT ![o] = order'[o]]
    BY <2>1, <2>3
  <2>5. order' \in [Orders -> [state : OrderStates, courier : Couriers \cup {NoCourier},
                     late : BOOLEAN, alerted : BOOLEAN, pick : Couriers \cup {NoCourier},
                     accepting : SUBSET Couriers]]
    BY <2>3, <2>4 DEF OrderStates
  <2>6. orderOffer' \in [Orders -> [Couriers -> CourierOffers]]
    BY <2>1, <2>2
  <2> QED
    BY <2>1, <2>2, <2>5, <2>6
<1>11. ASSUME NEW o \in Orders, NEW k \in Couriers, DeclineOrder(o, k) PROVE OrdersInv'
  BY <1>11 DEF DeclineOrder, CourierOffers
<1>12. ASSUME NEW o \in Orders, NEW k \in Couriers, PickUpOrder(o, k) PROVE OrdersInv'
  BY ZenonT(90), <1>12 DEF PickUpOrder, OrderStates
<1>13. ASSUME NEW o \in Orders, NEW k \in Couriers, DeliverOrder(o, k) PROVE OrdersInv'
  BY ZenonT(90), <1>13 DEF DeliverOrder, OrderStates
<1>14. ASSUME NEW o \in Orders, NEW k \in Couriers, ReleaseOrder(o, k) PROVE OrdersInv'
  <2>1. /\ order' = [order EXCEPT ![o].state = "ready", ![o].courier = NoCourier]
        /\ orderOffer' = [orderOffer EXCEPT ![o][k] = "closed"]
        /\ order[o].pick = NoCourier
    BY <1>14 DEF ReleaseOrder, OrderCourierMoves, OrderUnlocked
  <2>2. order'[o] = [state |-> "ready", courier |-> NoCourier, late |-> order[o].late,
                     alerted |-> order[o].alerted, pick |-> order[o].pick,
                     accepting |-> order[o].accepting]
    BY ZenonT(90), <2>1
  <2>3. order' = [order EXCEPT ![o] = order'[o]]
    BY <2>1, <2>2
  <2>4. order' \in [Orders -> [state : OrderStates, courier : Couriers \cup {NoCourier},
                     late : BOOLEAN, alerted : BOOLEAN, pick : Couriers \cup {NoCourier},
                     accepting : SUBSET Couriers]]
    BY <2>2, <2>3 DEF OrderStates
  <2>5. orderOffer' \in [Orders -> [Couriers -> CourierOffers]]
    BY <2>1 DEF CourierOffers
  <2> QED
    BY <2>1, <2>4, <2>5
<1>15. ASSUME NEW o \in Orders, NEW k \in Couriers, LapseOrderOffer(o, k) PROVE OrdersInv'
  BY <1>15 DEF LapseOrderOffer, CourierOffers
<1>16. ASSUME SweepOrderOffers PROVE OrdersInv'
  BY <1>16 DEF SweepOrderOffers, OffersSwept, CourierOffers
<1>17. ASSUME NEW o \in Orders, NEW k \in Couriers,
              AcceptOrderCheck(o, k) \/ AcceptOrderFails(o, k)
       PROVE  OrdersInv'
  <2>a. order[o].accepting \in SUBSET Couriers
    OBVIOUS
  <2>b. PICK cs \in {order[o].accepting \cup {k}, order[o].accepting \ {k}} :
          order' = [order EXCEPT ![o].accepting = cs] /\ orderOffer' = orderOffer
    BY ZenonT(90), <1>17 DEF AcceptOrderCheck, AcceptOrderFails
  <2>1. /\ order' = [order EXCEPT ![o].accepting = cs] /\ orderOffer' = orderOffer
        /\ cs \in SUBSET Couriers
    BY ZenonT(90), <2>a, <2>b
  <2>2. \A q \in Orders : order'[q].courier = order[q].courier /\ order'[q].pick = order[q].pick
    BY <2>1
  <2>3. OrdersTypeOK'
    BY SMTT(60), <2>1
  <2> QED
    BY <2>1, <2>2, <2>3
<1> QED
  BY <1>1, <1>2, <1>3, <1>4, <1>5, <1>6, <1>7, <1>8, <1>9, <1>10, <1>11, <1>12,
     <1>13, <1>14, <1>15, <1>16, <1>17
  DEF OrdersNext, OrderStep

-----------------------------------------------------------------------------
\* Parcels

\* Who may answer for p now.
AskedFor(p) == {k \in Couriers : parcelOffer[p][k] = "offered"}

\* Only a request is asked about: a parcel that is taken or over has neither
\* an open offer nor a round under way, and who carries it is a courier.  An
\* acceptance waits for a request, or for what no courier was found for.
OnlyRequestsAreAsked ==
    \A p \in Parcels :
        /\ parcel[p].pick # NoCourier => parcel[p].state = "requested"
        /\ AskedFor(p) # {} => parcel[p].state = "requested"
        /\ parcel[p].accepting # {} => parcel[p].state \in {"requested", "no_courier"}
        /\ parcel[p].state \in ParcelActive => parcel[p].courier \in Couriers

ParcelsInv == ParcelsTypeOK /\ OnlyRequestsAreAsked

\* What remains of the offers after each of the statements that rewrite them.
LEMMA ParcelOffersAsk ==
    ASSUME NEW offers \in [Couriers -> CourierOffers], NEW k \in Couriers
    PROVE  /\ OffersWithdrawn(offers) \in [Couriers -> CourierOffers]
           /\ OffersAccepted(offers, k) \in [Couriers -> CourierOffers]
           /\ OffersSwept(offers) \in [Couriers -> CourierOffers]
           /\ \A c \in Couriers : OffersWithdrawn(offers)[c] # "offered"
           /\ \A c \in Couriers : OffersAccepted(offers, k)[c] # "offered"
           /\ \A c \in Couriers : OffersSwept(offers)[c] = "offered" <=> offers[c] = "offered"
  BY DEF OffersWithdrawn, OffersAccepted, OffersSwept, CourierOffers

\* A step of Parcels preserves it.
LEMMA ParcelsStepsKeepInv == ParcelsInv /\ ParcelsNext => ParcelsInv'
<1> SUFFICES ASSUME ParcelsInv, ParcelsNext PROVE ParcelsInv'
  OBVIOUS
<1> USE DEF ParcelsInv, ParcelsTypeOK, OnlyRequestsAreAsked, AskedFor, ParcelActive
<1>1. ASSUME NEW p \in Parcels, CreateParcel(p) PROVE ParcelsInv'
  BY ZenonT(90), <1>1 DEF CreateParcel, ParcelStates
<1>2. ASSUME NEW p \in Parcels, CancelParcel(p) PROVE ParcelsInv'
  <2>1. /\ parcel' = [parcel EXCEPT ![p].state = "cancelled"]
        /\ parcelOffer' = [parcelOffer EXCEPT ![p] = OffersWithdrawn(parcelOffer[p])]
        /\ parcel[p].pick = NoCourier /\ parcel[p].accepting = {}
    BY <1>2 DEF CancelParcel, ParcelUnlocked
  <2>2. /\ OffersWithdrawn(parcelOffer[p]) \in [Couriers -> CourierOffers]
        /\ \A c \in Couriers : OffersWithdrawn(parcelOffer[p])[c] # "offered"
    BY ParcelOffersAsk DEF OffersWithdrawn, CourierOffers
  <2>3. ParcelsTypeOK'
    <3>1. [parcel[p] EXCEPT !.state = "cancelled"] \in
            [state : ParcelStates, courier : Couriers \cup {NoCourier},
             late : BOOLEAN, pick : Couriers \cup {NoCourier}, accepting : SUBSET Couriers]
      BY DEF ParcelStates
    <3> QED
      BY <2>1, <2>2, <3>1
  <2>4. \A q \in Parcels : q # p => parcel'[q] = parcel[q] /\ parcelOffer'[q] = parcelOffer[q]
    BY ZenonT(90), <2>1
  <2>5. /\ parcel'[p].state = "cancelled" /\ parcel'[p].pick = NoCourier /\ parcel'[p].accepting = {}
        /\ parcelOffer'[p] = OffersWithdrawn(parcelOffer[p])
    BY ZenonT(90), <2>1
  <2>6. OnlyRequestsAreAsked'
    BY <2>2, <2>4, <2>5
  <2> QED
    BY <2>3, <2>6
<1>3. ASSUME NEW p \in Parcels, ParcelRoundInsert(p) PROVE ParcelsInv'
  BY SMTT(60), <1>3 DEF ParcelRoundInsert, ParcelUnlocked, CourierOffers
<1>4. ASSUME NEW p \in Parcels, ParcelRoundFails(p) PROVE ParcelsInv'
  BY <1>4 DEF ParcelRoundFails
<1>5. ASSUME NEW p \in Parcels, ParcelRoundNobody(p) PROVE ParcelsInv'
  <2>1. /\ parcel' = [parcel EXCEPT ![p].state = "no_courier"]
        /\ parcelOffer' = parcelOffer
        /\ parcel[p].pick = NoCourier
        /\ AskedFor(p) = {}
    BY <1>5 DEF ParcelRoundNobody, ParcelUnlocked
  <2>2. ParcelsTypeOK'
    <3>1. [parcel[p] EXCEPT !.state = "no_courier"] \in
            [state : ParcelStates, courier : Couriers \cup {NoCourier},
             late : BOOLEAN, pick : Couriers \cup {NoCourier}, accepting : SUBSET Couriers]
      BY DEF ParcelStates
    <3> QED
      BY <2>1, <3>1
  <2>3. parcel'[p].state = "no_courier" /\ parcel'[p].pick = NoCourier
    BY <2>1
  <2>4. \A q \in Parcels : q # p => parcel'[q] = parcel[q]
    BY <2>1
  <2> QED
    BY SMTT(60), <2>1, <2>2, <2>3, <2>4
<1>6. ASSUME NEW p \in Parcels, SettleParcel(p) PROVE ParcelsInv'
  <2>1. parcel' = parcel /\ parcelOffer' = parcelOffer
    BY <1>6 DEF SettleParcel, parcelVars
  <2> QED
    BY <2>1
<1>7. ASSUME NEW p \in Parcels, TimeOutParcel(p) PROVE ParcelsInv'
  <2>1. parcel' = [parcel EXCEPT ![p].late = TRUE] /\ parcelOffer' = parcelOffer
    BY <1>7 DEF TimeOutParcel
  <2>2. ParcelsTypeOK'
    BY ZenonT(90), <2>1
  <2>3. \A q \in Parcels :
            /\ parcel'[q].state = parcel[q].state /\ parcel'[q].courier = parcel[q].courier
            /\ parcel'[q].pick = parcel[q].pick /\ parcel'[q].accepting = parcel[q].accepting
    BY ZenonT(90), <2>1
  <2>4. OnlyRequestsAreAsked'
    BY ZenonT(90), <2>1, <2>3
  <2> QED
    BY <2>2, <2>4
<1>8. ASSUME NEW p \in Parcels, NEW k \in Couriers, NEW elsewhere \in SUBSET Couriers,
             ParcelRoundPick(p, k, elsewhere)
      PROVE ParcelsInv'
  BY ZenonT(90), <1>8 DEF ParcelRoundPick
<1>9. ASSUME NEW p \in Parcels, NEW k \in Couriers, AcceptParcel(p, k) PROVE ParcelsInv'
  <2>1. /\ parcel' = [parcel EXCEPT ![p].state = "courier_assigned", ![p].courier = k,
                                    ![p].accepting = {}]
        /\ parcelOffer' = [parcelOffer EXCEPT ![p] = OffersAccepted(parcelOffer[p], k)]
        /\ parcel[p].pick = NoCourier
    BY <1>9 DEF AcceptParcel, ParcelUnlocked
  <2>2. /\ OffersAccepted(parcelOffer[p], k) \in [Couriers -> CourierOffers]
        /\ \A c \in Couriers : OffersAccepted(parcelOffer[p], k)[c] # "offered"
    <3>1. parcelOffer[p] \in [Couriers -> CourierOffers]
      OBVIOUS
    <3> QED
      BY <3>1, ParcelOffersAsk
  <2>3. parcel'[p] = [state |-> "courier_assigned", courier |-> k,
                      late |-> parcel[p].late, pick |-> parcel[p].pick,
                      accepting |-> {}]
    BY ZenonT(90), <2>1
  <2>4. parcel' = [parcel EXCEPT ![p] = parcel'[p]]
    BY <2>1, <2>3
  <2>5. parcel' \in [Parcels -> [state : ParcelStates, courier : Couriers \cup {NoCourier},
                      late : BOOLEAN, pick : Couriers \cup {NoCourier},
                      accepting : SUBSET Couriers]]
    BY <2>3, <2>4 DEF ParcelStates
  <2>6. parcelOffer' \in [Parcels -> [Couriers -> CourierOffers]]
    BY <2>1, <2>2
  <2> QED
    BY <2>1, <2>2, <2>3, <2>4, <2>5, <2>6
<1>10. ASSUME NEW p \in Parcels, NEW k \in Couriers, DeclineParcel(p, k) PROVE ParcelsInv'
  BY <1>10 DEF DeclineParcel, CourierOffers
<1>11. ASSUME NEW p \in Parcels, NEW k \in Couriers, PickUpParcel(p, k) PROVE ParcelsInv'
  BY <1>11 DEF PickUpParcel, CourierMoves, ParcelUnlocked, ParcelTransitions, ParcelStates
<1>12. ASSUME NEW p \in Parcels, NEW k \in Couriers, DeliverParcel(p, k) PROVE ParcelsInv'
  BY <1>12 DEF DeliverParcel, CourierMoves, ParcelUnlocked, ParcelTransitions, ParcelStates
<1>13. ASSUME NEW p \in Parcels, NEW k \in Couriers, ReleaseParcel(p, k) PROVE ParcelsInv'
  <2>1. /\ parcel' = [parcel EXCEPT ![p].state = "requested", ![p].courier = NoCourier]
        /\ parcelOffer' = [parcelOffer EXCEPT ![p][k] = "closed"]
        /\ parcel[p].pick = NoCourier
    BY <1>13 DEF ReleaseParcel, CourierMoves, ParcelUnlocked
  <2>2. /\ parcel'[p] = [parcel[p] EXCEPT !.state = "requested", !.courier = NoCourier]
        /\ parcel[p] \in [state : ParcelStates, courier : Couriers \cup {NoCourier},
                          late : BOOLEAN, pick : Couriers \cup {NoCourier},
                      accepting : SUBSET Couriers]
    BY <2>1
  <2>3. parcel' = [parcel EXCEPT ![p] = parcel'[p]]
    BY <2>1
  <2>4. parcel' \in [Parcels -> [state : ParcelStates, courier : Couriers \cup {NoCourier},
                      late : BOOLEAN, pick : Couriers \cup {NoCourier},
                      accepting : SUBSET Couriers]]
    <3>1. parcel'[p] \in [state : ParcelStates, courier : Couriers \cup {NoCourier},
                          late : BOOLEAN, pick : Couriers \cup {NoCourier},
                      accepting : SUBSET Couriers]
      BY <2>2 DEF ParcelStates
    <3> QED
      BY <2>3, <3>1
  <2>5. parcelOffer' \in [Parcels -> [Couriers -> CourierOffers]]
    BY <2>1 DEF CourierOffers
  <2> QED
    BY <2>1, <2>2, <2>3, <2>4, <2>5
<1>14. ASSUME NEW p \in Parcels, NEW k \in Couriers, LapseParcelOffer(p, k) PROVE ParcelsInv'
  BY <1>14 DEF LapseParcelOffer, CourierOffers
<1>15. ASSUME SweepParcelOffers PROVE ParcelsInv'
  BY ZenonT(90), <1>15 DEF SweepParcelOffers, OffersSwept, CourierOffers
<1>16. ASSUME NEW p \in Parcels, NEW k \in Couriers,
              AcceptParcelCheck(p, k) \/ AcceptParcelFails(p, k)
       PROVE  ParcelsInv'
  <2>a. parcel[p].accepting \in SUBSET Couriers
    OBVIOUS
  <2>b. PICK cs \in {parcel[p].accepting \cup {k}, parcel[p].accepting \ {k}} :
          /\ parcel' = [parcel EXCEPT ![p].accepting = cs]
          /\ parcelOffer' = parcelOffer
          /\ parcelOffer[p][k] = "offered" \/ k \in parcel[p].accepting
    BY ZenonT(90), <1>16 DEF AcceptParcelCheck, AcceptParcelFails
  <2>1. /\ parcel' = [parcel EXCEPT ![p].accepting = cs]
        /\ parcelOffer' = parcelOffer
        /\ k \in AskedFor(p) \/ k \in parcel[p].accepting
        /\ cs \in SUBSET Couriers
    BY <2>a, <2>b
  <2>2. parcel[p].state \in {"requested", "no_courier"}
    BY <2>1
  <2>3. \A q \in Parcels : /\ parcel'[q].state = parcel[q].state
                           /\ parcel'[q].courier = parcel[q].courier
                           /\ parcel'[q].pick = parcel[q].pick
                           /\ q # p => parcel'[q] = parcel[q]
    BY <2>1
  <2>4. ParcelsTypeOK'
    <3>1. [parcel[p] EXCEPT !.accepting = cs] \in
            [state : ParcelStates, courier : Couriers \cup {NoCourier},
             late : BOOLEAN, pick : Couriers \cup {NoCourier}, accepting : SUBSET Couriers]
      BY ZenonT(90), <2>1
    <3> QED
      BY <2>1, <3>1
  <2> QED
    BY <2>1, <2>2, <2>3, <2>4
<1> QED
  BY SMTT(60), <1>1, <1>2, <1>3, <1>4, <1>5, <1>6, <1>7, <1>8, <1>9, <1>10, <1>11, <1>12,
     <1>13, <1>14, <1>15, <1>16
  DEF ParcelsNext, ParcelStep

-----------------------------------------------------------------------------
\* Services

\* Nobody bids for what has not been asked.
BidsAreForRequests ==
    /\ \A r \in Requests, v \in Providers :
         <<r, v>> \in bidding => request[r].state # "none"
    /\ \A r \in Requests, v \in Providers :
         request[r].state = "none" => bid[r][v].state = "none"

\* BookedAsOffered without its set.
AgreedOnce ==
    \A r \in Requests :
        /\ request[r].state = "open" => \A v \in Providers : bid[r][v].state # "accepted"
        /\ request[r].state \in {"booked", "in_progress", "completed"} =>
             /\ request[r].provider \in Providers
             /\ request[r].price = bid[r][request[r].provider].price
             /\ \A v \in Providers :
                  bid[r][v].state = "accepted" <=> v = request[r].provider

ServicesInv == ServicesTypeOK /\ BidsAreForRequests /\ AgreedOnce

\* AgreedOnce says what BookedAsOffered says.
LEMMA AgreedIsBooked == AgreedOnce => BookedAsOffered
<1> SUFFICES ASSUME AgreedOnce, NEW r \in Requests
             PROVE  LET taken == {v \in Providers : bid[r][v].state = "accepted"}
                    IN  /\ request[r].state = "open" => taken = {}
                        /\ request[r].state \in {"booked", "in_progress", "completed"} =>
                             /\ taken = {request[r].provider}
                             /\ request[r].price = bid[r][request[r].provider].price
  BY DEF BookedAsOffered
<1>1. request[r].state = "open" => {v \in Providers : bid[r][v].state = "accepted"} = {}
  BY DEF AgreedOnce
<1>2. ASSUME request[r].state \in {"booked", "in_progress", "completed"}
      PROVE  /\ {v \in Providers : bid[r][v].state = "accepted"} = {request[r].provider}
             /\ request[r].price = bid[r][request[r].provider].price
  BY <1>2 DEF AgreedOnce
<1> QED
  BY <1>1, <1>2

\* Withdrawing the offers leaves what was accepted, and prices, alone.
LEMMA BidsWithdrawnTyped ==
    ASSUME ServicesTypeOK, NEW r \in Requests
    PROVE  /\ BidsWithdrawn(bid[r]) \in
                [Providers -> [state : BidStates, price : OfferPrices \cup {0}]]
           /\ \A v \in Providers :
                /\ BidsWithdrawn(bid[r])[v].price = bid[r][v].price
                /\ BidsWithdrawn(bid[r])[v].state = "accepted" => bid[r][v].state = "accepted"
<1>1. ASSUME NEW v \in Providers
      PROVE  /\ BidsWithdrawn(bid[r])[v] \in [state : BidStates, price : OfferPrices \cup {0}]
             /\ BidsWithdrawn(bid[r])[v].price = bid[r][v].price
             /\ BidsWithdrawn(bid[r])[v].state = "accepted" => bid[r][v].state = "accepted"
  <2>1. bid[r][v] \in [state : BidStates, price : OfferPrices \cup {0}]
    BY DEF ServicesTypeOK
  <2>2. BidsWithdrawn(bid[r])[v] = IF bid[r][v].state = "offered"
                                   THEN [bid[r][v] EXCEPT !.state = "withdrawn"] ELSE bid[r][v]
    BY DEF BidsWithdrawn
  <2> QED
    BY <2>1, <2>2 DEF BidStates
<1> QED
  BY <1>1 DEF BidsWithdrawn

\* A row whose state alone changes keeps its type.
LEMMA RequestStateTyped ==
    ASSUME ServicesTypeOK, NEW r \in Requests, NEW s \in RequestStates
    PROVE  [request EXCEPT ![r].state = s] \in
              [Requests -> [state : RequestStates, provider : Providers \cup {NoProvider},
                            price : OfferPrices \cup {0}]]
<1>1. [request[r] EXCEPT !.state = s] \in
        [state : RequestStates, provider : Providers \cup {NoProvider},
         price : OfferPrices \cup {0}]
  BY ZenonT(90) DEF ServicesTypeOK
<1> QED
  BY <1>1 DEF ServicesTypeOK

\* The same of a bid.
LEMMA BidStateTyped ==
    ASSUME ServicesTypeOK, NEW r \in Requests, NEW v \in Providers, NEW s \in BidStates
    PROVE  [bid EXCEPT ![r][v].state = s] \in
              [Requests -> [Providers -> [state : BidStates, price : OfferPrices \cup {0}]]]
<1>1. [bid[r][v] EXCEPT !.state = s] \in [state : BidStates, price : OfferPrices \cup {0}]
  <2>1. bid[r][v] \in [state : BidStates, price : OfferPrices \cup {0}]
    BY DEF ServicesTypeOK
  <2> QED
    BY <2>1
<1>2. [bid[r] EXCEPT ![v].state = s] \in
        [Providers -> [state : BidStates, price : OfferPrices \cup {0}]]
  BY <1>1 DEF ServicesTypeOK
<1> QED
  BY <1>2 DEF ServicesTypeOK

\* A step of ServiceRequests preserves what BookedAsOffered rests on.
LEMMA ServicesStepsKeepInv == ServicesInv /\ ServicesNext => ServicesInv'
<1> SUFFICES ASSUME ServicesInv, ServicesNext PROVE ServicesInv'
  OBVIOUS
<1> USE DEF ServicesInv, ServicesTypeOK, BidsAreForRequests, AgreedOnce
<1>1. ASSUME NEW r \in Requests, CreateRequest(r) PROVE ServicesInv'
  <2>1. /\ request' = [request EXCEPT ![r].state = "open"]
        /\ bid' = bid /\ bidding' = bidding /\ vetted' = vetted
        /\ request[r].state = "none"
    BY <1>1 DEF CreateRequest
  <2>2. ServicesTypeOK'
    BY <2>1, RequestStateTyped, "open" \in RequestStates DEF RequestStates
  <2>3. request'[r].state = "open" /\ \A v \in Providers : bid[r][v].state = "none"
    BY <2>1
  <2>4. \A q \in Requests : q # r => request'[q] = request[q]
    BY <2>1
  <2> QED
    BY <2>1, <2>2, <2>3, <2>4
<1>2. ASSUME NEW r \in Requests, CancelRequest(r) PROVE ServicesInv'
  <2>1. /\ request' = [request EXCEPT ![r].state = "cancelled"]
        /\ bid' = [bid EXCEPT ![r] = BidsWithdrawn(bid[r])]
        /\ bidding' = bidding /\ vetted' = vetted
    BY <1>2 DEF CancelRequest
  <2>2. ServicesTypeOK'
    <3>1. BidsWithdrawn(bid[r]) \in [Providers -> [state : BidStates, price : OfferPrices \cup {0}]]
      BY BidsWithdrawnTyped
    <3>2. request' \in [Requests -> [state : RequestStates,
                        provider : Providers \cup {NoProvider}, price : OfferPrices \cup {0}]]
      BY <2>1, RequestStateTyped, "cancelled" \in RequestStates DEF RequestStates
    <3>3. bid' \in [Requests -> [Providers -> [state : BidStates, price : OfferPrices \cup {0}]]]
      BY <2>1, <3>1
    <3> QED
      BY <2>1, <3>2, <3>3
  <2>3. request'[r].state = "cancelled"
    BY <2>1
  <2>4. \A q \in Requests : q # r => request'[q] = request[q] /\ bid'[q] = bid[q]
    BY <2>1
  <2> QED
    BY <2>1, <2>2, <2>3, <2>4
<1>3. ASSUME NEW r \in Requests, SettleService(r) PROVE ServicesInv'
  <2>1. request' = request /\ bid' = bid /\ bidding' = bidding /\ vetted' = vetted
    BY <1>3 DEF SettleService, serviceVars
  <2> QED
    BY <2>1
<1>4. ASSUME NEW r \in Requests, NEW v \in Providers, MakeOffer(r, v) PROVE ServicesInv'
  BY <1>4 DEF MakeOffer
<1>5. ASSUME NEW r \in Requests, NEW v \in Providers, NEW price \in OfferPrices,
             WriteBid(r, v, price)
      PROVE ServicesInv'
  BY <1>5 DEF WriteBid, BidStates
<1>6. ASSUME NEW r \in Requests, NEW v \in Providers, WithdrawBid(r, v) PROVE ServicesInv'
  <2>1. /\ bid' = [bid EXCEPT ![r][v].state = "withdrawn"]
        /\ request' = request /\ bidding' = bidding /\ vetted' = vetted
        /\ bid[r][v].state = "offered"
    BY <1>6 DEF WithdrawBid
  <2>2. ServicesTypeOK'
    BY <2>1, BidStateTyped, "withdrawn" \in BidStates DEF BidStates
  <2>3. /\ bid'[r][v].state = "withdrawn"
        /\ request[r].state # "none"
        /\ \A w \in Providers : w # v => bid'[r][w] = bid[r][w]
        /\ \A q \in Requests : q # r => bid'[q] = bid[q]
    BY <2>1
  <2> QED
    BY <2>1, <2>2, <2>3
<1>7. ASSUME NEW r \in Requests, NEW v \in Providers, BookRequest(r, v) PROVE ServicesInv'
  <2> DEFINE bids == [BidsWithdrawn(bid[r]) EXCEPT ![v].state = "accepted"]
             booked == [state |-> "booked", provider |-> v, price |-> bid[r][v].price]
  <2>1. /\ request' = [request EXCEPT ![r] = booked]
        /\ bid' = [bid EXCEPT ![r] = bids]
        /\ bidding' = bidding /\ vetted' = vetted
        /\ request[r].state = "open" /\ bid[r][v].state = "offered"
    BY <1>7 DEF BookRequest
  <2>2. bids \in [Providers -> [state : BidStates, price : OfferPrices \cup {0}]]
    <3>1. BidsWithdrawn(bid[r]) \in [Providers -> [state : BidStates, price : OfferPrices \cup {0}]]
      BY BidsWithdrawnTyped
    <3> QED
      BY <3>1 DEF BidStates
  <2>3. bids[v].state = "accepted" /\ bids[v].price = bid[r][v].price
    BY <2>1, BidsWithdrawnTyped DEF BidsWithdrawn
  <2>4. \A w \in Providers : w # v => bids[w].state # "accepted"
    BY <2>1, BidsWithdrawnTyped
  <2>5. booked \in [state : RequestStates, provider : Providers \cup {NoProvider},
                    price : OfferPrices \cup {0}]
    BY DEF RequestStates
  <2> HIDE DEF bids
  <2>6. ServicesTypeOK'
    BY <2>1, <2>2, <2>5
  <2>7. request'[r] = booked /\ bid'[r] = bids
    BY <2>1
  <2>8. \A q \in Requests : q # r => request'[q] = request[q] /\ bid'[q] = bid[q]
    BY <2>1
  <2> QED
    BY <2>1, <2>3, <2>4, <2>6, <2>7, <2>8
<1>8. ASSUME NEW r \in Requests, NEW v \in Providers, StartWork(r, v) PROVE ServicesInv'
  <2>1. /\ request' = [request EXCEPT ![r].state = "in_progress"]
        /\ bid' = bid /\ bidding' = bidding /\ vetted' = vetted
        /\ request[r].state = "booked"
    BY <1>8 DEF StartWork, ProviderMay, ServiceTransitions
  <2>2. ServicesTypeOK'
    BY <2>1, RequestStateTyped, "in_progress" \in RequestStates DEF RequestStates
  <2>3. /\ request'[r].state = "in_progress"
        /\ request'[r].provider = request[r].provider
        /\ request'[r].price = request[r].price
        /\ \A q \in Requests : q # r => request'[q] = request[q]
    BY <2>1
  <2> QED
    BY <2>1, <2>2, <2>3
<1>9. ASSUME NEW r \in Requests, NEW v \in Providers, CompleteWork(r, v) PROVE ServicesInv'
  <2>1. /\ request' = [request EXCEPT ![r].state = "completed"]
        /\ bid' = bid /\ bidding' = bidding /\ vetted' = vetted
        /\ request[r].state = "in_progress"
    BY <1>9 DEF CompleteWork, ProviderMay, ServiceTransitions
  <2>2. ServicesTypeOK'
    BY <2>1, RequestStateTyped, "completed" \in RequestStates DEF RequestStates
  <2>3. /\ request'[r].state = "completed"
        /\ request'[r].provider = request[r].provider
        /\ request'[r].price = request[r].price
        /\ \A q \in Requests : q # r => request'[q] = request[q]
    BY <2>1
  <2> QED
    BY <2>1, <2>2, <2>3
<1>10. ASSUME NEW r \in Requests, NEW v \in Providers, GiveUpWork(r, v) PROVE ServicesInv'
  <2> DEFINE free == [state |-> "open", provider |-> NoProvider, price |-> 0]
  <2>1. /\ request' = [request EXCEPT ![r] = free]
        /\ bid' = [bid EXCEPT ![r][v].state = "declined"]
        /\ bidding' = bidding /\ vetted' = vetted
        /\ request[r].provider = v
        /\ request[r].state = "booked"
    BY <1>10 DEF GiveUpWork, ProviderMay, ServiceTransitions
  <2>2. free \in [state : RequestStates, provider : Providers \cup {NoProvider},
                  price : OfferPrices \cup {0}]
    BY DEF RequestStates
  <2>3. ServicesTypeOK'
    <3>1. "declined" \in BidStates
      BY DEF BidStates
    <3>2. bid' \in [Requests -> [Providers -> [state : BidStates, price : OfferPrices \cup {0}]]]
      BY <2>1, <3>1, BidStateTyped
    <3> QED
      BY <2>1, <2>2, <3>2
  <2>4. /\ bid'[r][v].state = "declined"
        /\ request'[r] = free
        /\ \A w \in Providers : w # v => bid'[r][w] = bid[r][w]
        /\ \A q \in Requests : q # r => bid'[q] = bid[q] /\ request'[q] = request[q]
    BY <2>1
  <2> QED
    BY <2>1, <2>3, <2>4
<1>11. ASSUME NEW v \in Providers, SetProviderStatus(v) PROVE ServicesInv'
  BY <1>11 DEF SetProviderStatus
<1> QED
  BY ZenonT(90), <1>1, <1>2, <1>3, <1>4, <1>5, <1>6, <1>7, <1>8, <1>9, <1>10, <1>11
  DEF ServicesNext, ServiceStep

-----------------------------------------------------------------------------
\* Payments

\* The jobs that are finished; what a step does to them and to the payments.
Done == {j \in PaidJobs : Finished(j)}

MoneyMoves ==
    \/ Done' = Done /\ UNCHANGED payVars
    \/ \E j \in PaidJobs :
         \/ j \notin Done /\ Done' = Done /\ \E s \in {"none", "pending"} : PayBecomes(j, s)
         \/ Done' = Done \cup {j} /\ JobIsDone(j)
         \/ j \in Done /\ Done' = Done /\ TakeUpPending(j)
         \/ Done' = Done /\ SettleStep(j)

\* Settlers only ever work on what is finished, and one that is to write the
\* status has posted.
PayInv ==
    /\ PaymentsTypeOK
    /\ \A j \in PaidJobs :
         /\ \A s \in JobSettlers :
              /\ settling[j][s] # "idle" => j \in Done
              /\ settling[j][s] = "write" => j \in debited \/ MethodOf[j] = "free"
         /\ j \in debited \/ pay[j] \in {"paid", "cash", "failed"} => j \in Done
         /\ pay[j] = "paid" => j \in debited
         /\ pay[j] = "cash" => j \in debited \/ MethodOf[j] = "free"
         /\ j \in Done => pay[j] # "none"

\* Moving one settler keeps the type of them all.
LEMMA SettlerTyped ==
    ASSUME PaymentsTypeOK, NEW j \in PaidJobs, NEW s \in JobSettlers, NEW step \in PaySteps,
           SettlerGoes(j, s, step)
    PROVE  /\ settling' \in [PaidJobs -> [JobSettlers -> PaySteps]]
           /\ settling'[j][s] = step
           /\ \A t \in JobSettlers : t # s => settling'[j][t] = settling[j][t]
           /\ \A i \in PaidJobs : i # j => settling'[i] = settling[i]
  BY DEF PaymentsTypeOK, SettlerGoes

\* Whatever a job is, such a step keeps the invariant of its payment.
LEMMA MoneyMovesKeepPayInv == PayInv /\ MoneyMoves => PayInv'
<1> SUFFICES ASSUME PayInv, MoneyMoves PROVE PayInv'
  OBVIOUS
<1> USE DEF PayInv
<1>t. PaymentsTypeOK /\ "handler" \in JobSettlers /\ "worker" \in JobSettlers
  BY DEF JobSettlers
<1>1. CASE Done' = Done /\ UNCHANGED payVars
  BY <1>1 DEF payVars, PaymentsTypeOK
<1>2. ASSUME NEW j \in PaidJobs, NEW s \in {"none", "pending"},
             j \notin Done, Done' = Done, PayBecomes(j, s)
      PROVE PayInv'
  BY <1>2 DEF PayBecomes, PaymentsTypeOK, PayStatuses
<1>3. ASSUME NEW j \in PaidJobs, Done' = Done \cup {j}, JobIsDone(j) PROVE PayInv'
  <2>1. /\ settling' \in [PaidJobs -> [JobSettlers -> PaySteps]]
        /\ settling'[j]["handler"] = "called"
        /\ \A t \in JobSettlers : t # "handler" => settling'[j][t] = settling[j][t]
        /\ \A i \in PaidJobs : i # j => settling'[i] = settling[i]
    BY <1>3, <1>t, SettlerTyped, "called" \in PaySteps DEF JobIsDone, PaySteps
  <2>2. pay' = [pay EXCEPT ![j] = "pending"] /\ debited' = debited
    BY <1>3 DEF JobIsDone
  <2>3. PaymentsTypeOK'
    BY <1>t, <2>1, <2>2 DEF PaymentsTypeOK, PayStatuses
  <2> QED
    BY ZenonT(90), <1>t, <1>3, <2>1, <2>2, <2>3 DEF PaymentsTypeOK
<1>4. ASSUME NEW j \in PaidJobs, j \in Done, Done' = Done, TakeUpPending(j) PROVE PayInv'
  <2>1. /\ settling' \in [PaidJobs -> [JobSettlers -> PaySteps]]
        /\ settling'[j]["worker"] = "called"
        /\ \A t \in JobSettlers : t # "worker" => settling'[j][t] = settling[j][t]
        /\ \A i \in PaidJobs : i # j => settling'[i] = settling[i]
    BY <1>4, <1>t, SettlerTyped, "called" \in PaySteps DEF TakeUpPending, PaySteps
  <2>2. pay' = pay /\ debited' = debited
    BY <1>4 DEF TakeUpPending
  <2> QED
    BY ZenonT(90), <1>t, <1>4, <2>1, <2>2 DEF PaymentsTypeOK
<1>5. ASSUME NEW j \in PaidJobs, Done' = Done, SettleStep(j) PROVE PayInv'
  <2>1. PICK s \in JobSettlers :
             CheckBalance(j, s) \/ WriteFailed(j, s) \/ PostJob(j, s)
             \/ WriteSettled(j, s) \/ SettlerStops(j, s)
    BY <1>5 DEF SettleStep
  <2>2. ASSUME NEW step \in {"idle", "fail", "post"}, SettlerGoes(j, s, step),
               settling[j][s] # "idle", UNCHANGED <<pay, debited>>
        PROVE PayInv'
    <3>1. /\ settling' \in [PaidJobs -> [JobSettlers -> PaySteps]]
          /\ settling'[j][s] = step
          /\ \A t \in JobSettlers : t # s => settling'[j][t] = settling[j][t]
          /\ \A i \in PaidJobs : i # j => settling'[i] = settling[i]
      BY <1>t, <2>2, SettlerTyped, step \in PaySteps DEF PaySteps
    <3> QED
      BY ZenonT(90), <1>t, <1>5, <2>2, <3>1 DEF PaymentsTypeOK
  <2>3. CASE CheckBalance(j, s)
    BY <2>2, <2>3 DEF CheckBalance
  <2>4. CASE SettlerStops(j, s)
    BY <2>2, <2>4 DEF SettlerStops
  <2>5. CASE WriteFailed(j, s)
    <3>1. /\ settling' \in [PaidJobs -> [JobSettlers -> PaySteps]]
          /\ settling'[j][s] = "idle"
          /\ \A t \in JobSettlers : t # s => settling'[j][t] = settling[j][t]
          /\ \A i \in PaidJobs : i # j => settling'[i] = settling[i]
      BY <1>t, <2>5, SettlerTyped, "idle" \in PaySteps DEF WriteFailed, PaySteps
    <3>2. /\ pay' = [pay EXCEPT ![j] = IF @ = "pending" THEN "failed" ELSE @]
          /\ debited' = debited /\ j \in Done
      BY <2>5 DEF WriteFailed
    <3>3. PaymentsTypeOK'
      BY <1>t, <3>1, <3>2 DEF PaymentsTypeOK, PayStatuses
    <3> QED
      BY SMTT(60), <1>t, <1>5, <3>1, <3>2, <3>3 DEF PaymentsTypeOK
  <2>6. CASE PostJob(j, s)
    <3>1. /\ settling' \in [PaidJobs -> [JobSettlers -> PaySteps]]
          /\ settling'[j][s] = "write"
          /\ \A t \in JobSettlers : t # s => settling'[j][t] = settling[j][t]
          /\ \A i \in PaidJobs : i # j => settling'[i] = settling[i]
      BY <1>t, <2>6, SettlerTyped, "write" \in PaySteps DEF PostJob, PaySteps
    <3>2. /\ pay' = pay /\ j \in Done
          /\ debited' = debited \cup {j} \/ (debited' = debited /\ MethodOf[j] = "free")
      BY <2>6 DEF PostJob
    <3> QED
      BY <1>t, <1>5, <3>1, <3>2 DEF PaymentsTypeOK
  <2>7. CASE WriteSettled(j, s)
    <3>1. /\ settling' \in [PaidJobs -> [JobSettlers -> PaySteps]]
          /\ settling'[j][s] = "idle"
          /\ \A t \in JobSettlers : t # s => settling'[j][t] = settling[j][t]
          /\ \A i \in PaidJobs : i # j => settling'[i] = settling[i]
      BY <1>t, <2>7, SettlerTyped, "idle" \in PaySteps DEF WriteSettled, PaySteps
    <3>2. /\ pay' \in [PaidJobs -> PayStatuses]
          /\ pay'[j] = (IF pay[j] = "pending" THEN IF InCash(j) THEN "cash" ELSE "paid"
                        ELSE pay[j])
          /\ \A i \in PaidJobs : i # j => pay'[i] = pay[i]
          /\ debited' = debited /\ j \in Done
      BY <1>t, <2>7 DEF WriteSettled, PaymentsTypeOK, PayStatuses
    <3>4. j \in debited \/ MethodOf[j] = "free"
      BY <2>7 DEF WriteSettled
    <3>5. pay'[j] = "paid" => pay[j] = "paid" \/ ~InCash(j)
      BY <3>2
    <3>6. pay'[j] = "paid" => j \in debited
      BY <3>4, <3>5 DEF InCash
    <3> QED
      BY <1>t, <1>5, <3>1, <3>2, <3>4, <3>6 DEF PaymentsTypeOK
  <2> QED
    BY <2>1, <2>3, <2>4, <2>5, <2>6, <2>7
<1> QED
  BY <1>1, <1>2, <1>3, <1>4, <1>5 DEF MoneyMoves

\* What a step of one table makes of Done.
LEMMA OrdersDone ==
    ASSUME UNCHANGED <<parcel, request>>
    PROVE  /\ (\A o \in Orders : order'[o].state = "delivered" <=> order[o].state = "delivered")
              => Done' = Done
           /\ \A o \in Orders :
                /\ /\ order'[o].state = "delivered"
                   /\ \A i \in Orders : i # o => order'[i] = order[i]
                   => Done' = Done \cup {o}
                /\ order[o].state = "delivered" <=> o \in Done
  BY OrdersAssumption, CommerceAssumption DEF Done, Finished

\* The same for parcels.
LEMMA ParcelsDone ==
    ASSUME UNCHANGED <<order, request>>
    PROVE  /\ (\A p \in Parcels : parcel'[p].state = "delivered" <=> parcel[p].state = "delivered")
              => Done' = Done
           /\ \A p \in Parcels :
                /\ /\ parcel'[p].state = "delivered"
                   /\ \A i \in Parcels : i # p => parcel'[i] = parcel[i]
                   => Done' = Done \cup {p}
                /\ parcel[p].state = "delivered" <=> p \in Done
  BY ParcelsAssumption, CommerceAssumption DEF Done, Finished

\* And for services.
LEMMA RequestsDone ==
    ASSUME UNCHANGED <<order, parcel>>
    PROVE  /\ (\A r \in Requests : request'[r].state = "completed" <=> request[r].state = "completed")
              => Done' = Done
           /\ \A r \in Requests :
                /\ /\ request'[r].state = "completed"
                   /\ \A i \in Requests : i # r => request'[i] = request[i]
                   => Done' = Done \cup {r}
                /\ request[r].state = "completed" <=> r \in Done
  BY ServicesAssumption, CommerceAssumption DEF Done, Finished

\* An order's step moves money as MoneyMoves allows.
LEMMA OrdersMoveMoney ==
    OrdersTypeOK /\ OrdersNext /\ UNCHANGED <<parcel, request>> => MoneyMoves
<1> SUFFICES ASSUME OrdersTypeOK, OrdersNext, UNCHANGED <<parcel, request>> PROVE MoneyMoves
  OBVIOUS
<1> USE OrdersAssumption DEF OrdersTypeOK
<1>1. ASSUME NEW o \in Orders, CreateOrder(o) PROVE MoneyMoves
  BY <1>1, OrdersDone DEF CreateOrder, MoneyMoves
<1>2. ASSUME NEW o \in Orders, CancelOrder(o) PROVE MoneyMoves
  BY <1>2, OrdersDone DEF CancelOrder, MoneyMoves
<1>3. ASSUME NEW o \in Orders, NEW to \in OrderStates, MerchantMoves(o, to) PROVE MoneyMoves
  <2>1. /\ order'[o].state = to
        /\ order[o].state # "delivered"
        /\ \A i \in Orders : i # o => order'[i] = order[i]
    BY <1>3 DEF MerchantMoves, MerchantMay, OrderTransitions
  <2>2. CASE to = "delivered"
    BY <1>3, <2>1, <2>2, OrdersDone DEF MerchantMoves, MoneyMoves
  <2>3. CASE to \in {"cancelled", "rejected"}
    BY <1>3, <2>1, <2>3, OrdersDone DEF MerchantMoves, MoneyMoves
  <2>4. CASE to \notin {"delivered", "cancelled", "rejected"}
    BY <1>3, <2>1, <2>4, OrdersDone DEF MerchantMoves, MoneyMoves
  <2> QED
    BY <2>2, <2>3, <2>4
<1>4. ASSUME NEW o \in Orders, OrderRoundInsert(o) PROVE MoneyMoves
  BY <1>4, OrdersDone DEF OrderRoundInsert, MoneyMoves
<1>5. ASSUME NEW o \in Orders, OrderRoundFails(o) PROVE MoneyMoves
  BY <1>5, OrdersDone DEF OrderRoundFails, MoneyMoves
<1>6. ASSUME NEW o \in Orders, AlertOperations(o) PROVE MoneyMoves
  BY <1>6, OrdersDone DEF AlertOperations, MoneyMoves
<1>7. ASSUME NEW o \in Orders, SettleOrder(o) PROVE MoneyMoves
  BY <1>7, OrdersDone DEF SettleOrder, orderVars, MoneyMoves
<1>8. ASSUME NEW o \in Orders, TimeOutOrder(o) PROVE MoneyMoves
  BY <1>8, OrdersDone DEF TimeOutOrder, MoneyMoves
<1>9. ASSUME NEW o \in Orders, NEW k \in Couriers, NEW elsewhere, OrderRoundPick(o, k, elsewhere)
      PROVE MoneyMoves
  BY <1>9, OrdersDone DEF OrderRoundPick, MoneyMoves
<1>10. ASSUME NEW o \in Orders, NEW k \in Couriers, AcceptOrder(o, k) PROVE MoneyMoves
  BY <1>10, OrdersDone DEF AcceptOrder, MoneyMoves
<1>11. ASSUME NEW o \in Orders, NEW k \in Couriers, DeclineOrder(o, k) PROVE MoneyMoves
  BY <1>11, OrdersDone DEF DeclineOrder, MoneyMoves
<1>12. ASSUME NEW o \in Orders, NEW k \in Couriers, PickUpOrder(o, k) PROVE MoneyMoves
  BY <1>12, OrdersDone DEF PickUpOrder, OrderCourierMoves, OrderTransitions, MoneyMoves
<1>13. ASSUME NEW o \in Orders, NEW k \in Couriers, DeliverOrder(o, k) PROVE MoneyMoves
  BY <1>13, OrdersDone DEF DeliverOrder, MoneyMoves
<1>14. ASSUME NEW o \in Orders, NEW k \in Couriers, ReleaseOrder(o, k) PROVE MoneyMoves
  BY <1>14, OrdersDone DEF ReleaseOrder, OrderCourierMoves, OrderTransitions, MoneyMoves
<1>15. ASSUME NEW o \in Orders, NEW k \in Couriers, LapseOrderOffer(o, k) PROVE MoneyMoves
  BY <1>15, OrdersDone DEF LapseOrderOffer, MoneyMoves
<1>16. ASSUME SweepOrderOffers PROVE MoneyMoves
  BY <1>16, OrdersDone DEF SweepOrderOffers, MoneyMoves
<1>17. ASSUME NEW o \in Orders, NEW k \in Couriers, AcceptOrderCheck(o, k) PROVE MoneyMoves
  BY <1>17, OrdersDone DEF AcceptOrderCheck, MoneyMoves
<1>18. ASSUME NEW o \in Orders, NEW k \in Couriers, AcceptOrderFails(o, k) PROVE MoneyMoves
  BY <1>18, OrdersDone DEF AcceptOrderFails, MoneyMoves
<1> QED
  BY <1>1, <1>2, <1>3, <1>4, <1>5, <1>6, <1>7, <1>8, <1>9, <1>10, <1>11, <1>12,
     <1>13, <1>14, <1>15, <1>16, <1>17, <1>18
  DEF OrdersNext, OrderStep

\* So does a parcel's.
LEMMA ParcelsMoveMoney ==
    ParcelsTypeOK /\ ParcelsNext /\ UNCHANGED <<order, request>> => MoneyMoves
<1> SUFFICES ASSUME ParcelsTypeOK, ParcelsNext, UNCHANGED <<order, request>> PROVE MoneyMoves
  OBVIOUS
<1> USE ParcelsAssumption DEF ParcelsTypeOK
<1>1. ASSUME NEW p \in Parcels, CreateParcel(p) PROVE MoneyMoves
  BY <1>1, ParcelsDone DEF CreateParcel, MoneyMoves
<1>2. ASSUME NEW p \in Parcels, CancelParcel(p) PROVE MoneyMoves
  BY <1>2, ParcelsDone DEF CancelParcel, MoneyMoves
<1>3. ASSUME NEW p \in Parcels, ParcelRoundInsert(p) PROVE MoneyMoves
  BY <1>3, ParcelsDone DEF ParcelRoundInsert, MoneyMoves
<1>4. ASSUME NEW p \in Parcels, ParcelRoundFails(p) PROVE MoneyMoves
  BY <1>4, ParcelsDone DEF ParcelRoundFails, MoneyMoves
<1>5. ASSUME NEW p \in Parcels, ParcelRoundNobody(p) PROVE MoneyMoves
  BY <1>5, ParcelsDone DEF ParcelRoundNobody, MoneyMoves
<1>6. ASSUME NEW p \in Parcels, SettleParcel(p) PROVE MoneyMoves
  BY <1>6, ParcelsDone DEF SettleParcel, parcelVars, MoneyMoves
<1>7. ASSUME NEW p \in Parcels, TimeOutParcel(p) PROVE MoneyMoves
  BY <1>7, ParcelsDone DEF TimeOutParcel, MoneyMoves
<1>8. ASSUME NEW p \in Parcels, NEW k \in Couriers, NEW elsewhere, ParcelRoundPick(p, k, elsewhere)
      PROVE MoneyMoves
  BY <1>8, ParcelsDone DEF ParcelRoundPick, MoneyMoves
<1>9. ASSUME NEW p \in Parcels, NEW k \in Couriers, AcceptParcel(p, k) PROVE MoneyMoves
  BY <1>9, ParcelsDone DEF AcceptParcel, MoneyMoves
<1>10. ASSUME NEW p \in Parcels, NEW k \in Couriers, DeclineParcel(p, k) PROVE MoneyMoves
  BY <1>10, ParcelsDone DEF DeclineParcel, MoneyMoves
<1>11. ASSUME NEW p \in Parcels, NEW k \in Couriers, PickUpParcel(p, k) PROVE MoneyMoves
  BY <1>11, ParcelsDone DEF PickUpParcel, CourierMoves, ParcelTransitions, MoneyMoves
<1>12. ASSUME NEW p \in Parcels, NEW k \in Couriers, DeliverParcel(p, k) PROVE MoneyMoves
  BY <1>12, ParcelsDone DEF DeliverParcel, MoneyMoves
<1>13. ASSUME NEW p \in Parcels, NEW k \in Couriers, ReleaseParcel(p, k) PROVE MoneyMoves
  BY <1>13, ParcelsDone DEF ReleaseParcel, CourierMoves, ParcelTransitions, MoneyMoves
<1>14. ASSUME NEW p \in Parcels, NEW k \in Couriers, LapseParcelOffer(p, k) PROVE MoneyMoves
  BY <1>14, ParcelsDone DEF LapseParcelOffer, MoneyMoves
<1>15. ASSUME SweepParcelOffers PROVE MoneyMoves
  BY <1>15, ParcelsDone DEF SweepParcelOffers, MoneyMoves
<1>16. ASSUME NEW p \in Parcels, NEW k \in Couriers, AcceptParcelCheck(p, k) PROVE MoneyMoves
  BY <1>16, ParcelsDone DEF AcceptParcelCheck, MoneyMoves
<1>17. ASSUME NEW p \in Parcels, NEW k \in Couriers, AcceptParcelFails(p, k) PROVE MoneyMoves
  BY <1>17, ParcelsDone DEF AcceptParcelFails, MoneyMoves
<1> QED
  BY <1>1, <1>2, <1>3, <1>4, <1>5, <1>6, <1>7, <1>8, <1>9, <1>10, <1>11, <1>12,
     <1>13, <1>14, <1>15, <1>16, <1>17
  DEF ParcelsNext, ParcelStep

\* And a service's.
LEMMA RequestsMoveMoney ==
    ServicesTypeOK /\ ServicesNext /\ UNCHANGED <<order, parcel>> => MoneyMoves
<1> SUFFICES ASSUME ServicesTypeOK, ServicesNext, UNCHANGED <<order, parcel>> PROVE MoneyMoves
  OBVIOUS
<1> USE ServicesAssumption DEF ServicesTypeOK
<1>1. ASSUME NEW r \in Requests, CreateRequest(r) PROVE MoneyMoves
  BY <1>1, RequestsDone DEF CreateRequest, MoneyMoves
<1>2. ASSUME NEW r \in Requests, CancelRequest(r) PROVE MoneyMoves
  BY <1>2, RequestsDone DEF CancelRequest, MoneyMoves
<1>3. ASSUME NEW r \in Requests, SettleService(r) PROVE MoneyMoves
  BY <1>3, RequestsDone DEF SettleService, serviceVars, MoneyMoves
<1>4. ASSUME NEW r \in Requests, NEW v \in Providers, MakeOffer(r, v) PROVE MoneyMoves
  BY <1>4, RequestsDone DEF MakeOffer, MoneyMoves
<1>5. ASSUME NEW r \in Requests, NEW v \in Providers, NEW price, WriteBid(r, v, price)
      PROVE MoneyMoves
  BY <1>5, RequestsDone DEF WriteBid, MoneyMoves
<1>6. ASSUME NEW r \in Requests, NEW v \in Providers, WithdrawBid(r, v) PROVE MoneyMoves
  BY <1>6, RequestsDone DEF WithdrawBid, MoneyMoves
<1>7. ASSUME NEW r \in Requests, NEW v \in Providers, BookRequest(r, v) PROVE MoneyMoves
  BY <1>7, RequestsDone DEF BookRequest, MoneyMoves
<1>8. ASSUME NEW r \in Requests, NEW v \in Providers, StartWork(r, v) PROVE MoneyMoves
  BY <1>8, RequestsDone DEF StartWork, ProviderMay, ServiceTransitions, MoneyMoves
<1>9. ASSUME NEW r \in Requests, NEW v \in Providers, CompleteWork(r, v) PROVE MoneyMoves
  BY <1>9, RequestsDone DEF CompleteWork, MoneyMoves
<1>10. ASSUME NEW r \in Requests, NEW v \in Providers, GiveUpWork(r, v) PROVE MoneyMoves
  BY <1>10, RequestsDone DEF GiveUpWork, ProviderMay, ServiceTransitions, MoneyMoves
<1>11. ASSUME NEW v \in Providers, SetProviderStatus(v) PROVE MoneyMoves
  BY <1>11, RequestsDone DEF SetProviderStatus, MoneyMoves
<1> QED
  BY <1>1, <1>2, <1>3, <1>4, <1>5, <1>6, <1>7, <1>8, <1>9, <1>10, <1>11
  DEF ServicesNext, ServiceStep

-----------------------------------------------------------------------------
\* The coupon

\* The limits in force are among those ever promised, and who has redeemed
\* has not priced again.
CouponInv ==
    /\ PromosTypeOK
    /\ IsFiniteSet(redeemed)
    /\ \A r \in References : basket[r] = "priced" => r \notin redeemed
    /\ coupon.limit <= promised.limit /\ coupon.perUser <= promised.perUser
    /\ CouponWithinLimits

\* The counts and the limits are numbers.
LEMMA CouponNumbers ==
    ASSUME PromosTypeOK
    PROVE  /\ coupon.uses \in Nat /\ coupon.limit \in Nat /\ coupon.perUser \in Nat
           /\ promised.limit \in Nat /\ promised.perUser \in Nat
           /\ coupon.scope \in Scopes
           /\ Limits \subseteq Nat
<1>1. Limits \subseteq Nat /\ Limits \cup {0} \subseteq Nat
  BY PromosAssumption
<1>2. /\ coupon.uses \in Nat /\ coupon.scope \in Scopes
      /\ coupon.limit \in Limits \cup {0} /\ coupon.perUser \in Limits \cup {0}
      /\ promised.limit \in Limits \cup {0} /\ promised.perUser \in Limits \cup {0}
  BY DEF PromosTypeOK
<1> QED
  BY <1>1, <1>2

\* With a coupon for every scope, Redeem looks at both limits under the lock.
LEMMA RedeemKeepsCouponInv ==
    ASSUME Scopes = {"all"}, CouponInv, NEW r \in References, Redeem(r)
    PROVE  CouponInv'
<1> USE PromosAssumption DEF CouponInv
<1>1. /\ r \notin redeemed
      /\ coupon.uses < coupon.limit
      /\ UsesBy(UserOf[r]) < coupon.perUser
  <2>1. coupon.uses \in Nat /\ coupon.limit \in Nat /\ coupon.perUser \in Nat
        /\ coupon.scope = "all"
    BY CouponNumbers
  <2>2. UsesBy(UserOf[r]) \in Nat
    BY FS_CardinalityType, FS_Subset, {q \in redeemed : UserOf[q] = UserOf[r]} \subseteq redeemed
    DEF UsesBy
  <2>3. ~(coupon.uses >= coupon.limit) /\ ~(UsesBy(UserOf[r]) >= coupon.perUser)
    BY <2>1 DEF Redeem, CouponCheck
  <2> QED
    BY <2>1, <2>2, <2>3 DEF Redeem
<1>2. /\ redeemed' = redeemed \cup {r}
      /\ coupon' = [coupon EXCEPT !.uses = coupon.uses + 1]
      /\ basket' = [basket EXCEPT ![r] = "none"]
      /\ promised' = promised
  BY DEF Redeem
<1>3. PromosTypeOK'
  BY <1>2 DEF PromosTypeOK
<1>4. IsFiniteSet(redeemed') /\ Cardinality(redeemed') = Cardinality(redeemed) + 1
  BY <1>1, <1>2, FS_AddElement
<1>5. ASSUME NEW q \in redeemed' PROVE UsesBy(UserOf[q])' <= promised.perUser
  <2> DEFINE mine == {x \in redeemed : UserOf[x] = UserOf[q]}
  <2>1. IsFiniteSet(mine)
    BY FS_Subset, mine \subseteq redeemed
  <2>2. CASE UserOf[q] = UserOf[r]
    <3>1. {x \in redeemed' : UserOf[x] = UserOf[q]} = mine \cup {r}
      BY <1>2, <2>2
    <3>2. Cardinality(mine \cup {r}) = Cardinality(mine) + 1
      BY <1>1, <2>1, FS_AddElement
    <3>3. Cardinality(mine) < coupon.perUser
      BY <1>1, <2>2 DEF UsesBy
    <3>4. Cardinality(mine) \in Nat /\ coupon.perUser \in Nat /\ promised.perUser \in Nat
      BY <2>1, CouponNumbers, FS_CardinalityType
    <3>5. UsesBy(UserOf[q])' = Cardinality(mine \cup {r})
      BY <3>1 DEF UsesBy
    <3> HIDE DEF mine
    <3> QED
      BY <3>2, <3>3, <3>4, <3>5
  <2>3. CASE UserOf[q] # UserOf[r]
    <3>1. {x \in redeemed' : UserOf[x] = UserOf[q]} = mine /\ q \in redeemed
      BY <1>2, <2>3
    <3> QED
      BY <3>1 DEF UsesBy, CouponWithinLimits, UsesAreLimited
  <2> QED
    BY <2>2, <2>3
<1>6. /\ coupon'.uses = coupon.uses + 1
      /\ coupon'.limit = coupon.limit /\ coupon'.perUser = coupon.perUser
  BY <1>2 DEF PromosTypeOK
<1>7. CouponWithinLimits'
  <2>1. coupon.uses \in Nat /\ coupon.limit \in Nat /\ promised.limit \in Nat
    BY CouponNumbers
  <2>2. coupon'.uses = Cardinality(redeemed') /\ coupon'.uses <= promised.limit
    BY <1>1, <1>4, <1>6, <2>1 DEF CouponWithinLimits
  <2> QED
    BY <1>2, <1>5, <2>2 DEF CouponWithinLimits, UsesAreLimited
<1> QED
  BY <1>1, <1>2, <1>3, <1>4, <1>6, <1>7 DEF PromosTypeOK

\* Operations edit it, and only ever raise what was promised.
LEMMA CouponStepKeepsCouponInv == CouponInv /\ CouponStep => CouponInv'
<1> SUFFICES ASSUME CouponInv, CouponStep PROVE CouponInv'
  OBVIOUS
<1> USE PromosAssumption DEF CouponInv
<1>1. ASSUME NEW r \in References, ApplyCoupon(r) PROVE CouponInv'
  BY <1>1 DEF ApplyCoupon, PromosTypeOK, CouponWithinLimits, UsesAreLimited, UsesBy
<1>2. ASSUME NEW r \in References, RedeemFails(r) PROVE CouponInv'
  BY <1>2 DEF RedeemFails, PromosTypeOK, CouponWithinLimits, UsesAreLimited, UsesBy
<1>3. ASSUME NEW scope \in Scopes, NEW limit \in Limits, NEW perUser \in Limits,
             UpsertCoupon(scope, limit, perUser)
      PROVE CouponInv'
  <2>1. /\ limit \in Nat /\ perUser \in Nat
        /\ promised.limit \in Nat /\ promised.perUser \in Nat /\ coupon.uses \in Nat
    BY CouponNumbers
  <2>2. /\ coupon'.uses = coupon.uses /\ coupon'.limit = limit /\ coupon'.perUser = perUser
        /\ promised'.limit = Larger(promised.limit, limit)
        /\ promised'.perUser = Larger(promised.perUser, perUser)
        /\ basket' = basket /\ redeemed' = redeemed
    BY <1>3 DEF UpsertCoupon, PromosTypeOK
  <2>3. PromosTypeOK'
    BY <1>3 DEF UpsertCoupon, PromosTypeOK, Larger
  <2>4. /\ promised.limit <= promised'.limit /\ limit <= promised'.limit
        /\ promised.perUser <= promised'.perUser /\ perUser <= promised'.perUser
        /\ promised'.perUser \in Nat /\ promised'.limit \in Nat
    BY <2>1, <2>2 DEF Larger
  <2>5. ASSUME NEW r \in redeemed PROVE UsesBy(UserOf[r])' <= promised'.perUser
    <3>1. UsesBy(UserOf[r])' = UsesBy(UserOf[r]) /\ UsesBy(UserOf[r]) <= promised.perUser
      BY <2>2 DEF UsesBy, CouponWithinLimits, UsesAreLimited
    <3>2. UsesBy(UserOf[r]) \in Nat
      BY FS_CardinalityType, FS_Subset, {q \in redeemed : UserOf[q] = UserOf[r]} \subseteq redeemed
      DEF UsesBy
    <3> QED
      BY <2>1, <2>4, <3>1, <3>2
  <2> QED
    BY <2>1, <2>2, <2>3, <2>4, <2>5 DEF CouponWithinLimits, UsesAreLimited
<1>4. ASSUME NEW b \in BOOLEAN, SetCouponActive(b) PROVE CouponInv'
  BY <1>4 DEF SetCouponActive, PromosTypeOK, CouponWithinLimits, UsesAreLimited, UsesBy
<1>5. ASSUME CouponEnds PROVE CouponInv'
  BY <1>5 DEF CouponEnds, PromosTypeOK, CouponWithinLimits, UsesAreLimited, UsesBy
<1> QED
  BY <1>1, <1>2, <1>3, <1>4, <1>5 DEF CouponStep, PromosAdmin

-----------------------------------------------------------------------------
\* Commerce: one component moves at a time

\* Whoever moves, the others' variables stay; a checkout may consume the coupon.
LEMMA OneComponentMoves ==
    CommerceNext =>
        /\ UNCHANGED scene
        /\ \/ /\ OrdersNext
              /\ UNCHANGED <<parcelVars, serviceVars>>
              /\ UNCHANGED promoVars \/ \E r \in References : Redeem(r)
           \/ /\ ParcelsNext
              /\ UNCHANGED <<orderVars, serviceVars>>
              /\ UNCHANGED promoVars \/ \E r \in References : Redeem(r)
           \/ ServicesNext /\ UNCHANGED <<orderVars, parcelVars, promoVars>>
           \/ CouponStep /\ UNCHANGED <<orderVars, parcelVars, serviceVars, payVars>>
<1> SUFFICES ASSUME CommerceNext
             PROVE  \/ /\ OrdersNext
                       /\ UNCHANGED <<parcelVars, serviceVars>>
                       /\ UNCHANGED promoVars \/ \E r \in References : Redeem(r)
                    \/ /\ ParcelsNext
                       /\ UNCHANGED <<orderVars, serviceVars>>
                       /\ UNCHANGED promoVars \/ \E r \in References : Redeem(r)
                    \/ ServicesNext /\ UNCHANGED <<orderVars, parcelVars, promoVars>>
                    \/ CouponStep /\ UNCHANGED <<orderVars, parcelVars, serviceVars, payVars>>
  BY DEF CommerceNext
<1>1. ASSUME NEW r \in References, CheckOut(r), UNCHANGED serviceVars
      PROVE  \/ /\ OrdersNext
                /\ UNCHANGED <<parcelVars, serviceVars>>
                /\ UNCHANGED promoVars \/ Redeem(r)
             \/ /\ ParcelsNext
                /\ UNCHANGED <<orderVars, serviceVars>>
                /\ UNCHANGED promoVars \/ Redeem(r)
  <2>1. UNCHANGED promoVars \/ Redeem(r)
    BY <1>1 DEF CheckOut
  <2>2. CASE r \in Orders /\ CreateOrder(r) /\ UNCHANGED parcelVars
    BY <1>1, <2>1, <2>2 DEF OrdersNext
  <2>3. CASE r \in Parcels /\ CreateParcel(r) /\ UNCHANGED orderVars
    BY <1>1, <2>1, <2>3 DEF ParcelsNext
  <2> QED
    BY <1>1, <2>2, <2>3 DEF CheckOut
<1>2. ASSUME NEW o \in Orders, OrderStep(o, Couriers \ scene.duty) PROVE OrdersNext
  BY <1>2, (Couriers \ scene.duty) \in SUBSET Couriers DEF OrdersNext
<1>3. SweepOrderOffers => OrdersNext
  BY DEF OrdersNext
<1>4. ASSUME NEW p \in Parcels, ParcelStep(p, BusyWithOrders \cup (Couriers \ scene.duty))
      PROVE ParcelsNext
  BY <1>4, (BusyWithOrders \cup (Couriers \ scene.duty)) \in SUBSET Couriers
  DEF ParcelsNext, BusyWithOrders
<1>5. SweepParcelOffers => ParcelsNext
  BY DEF ParcelsNext
<1>6. ASSUME NEW r \in Requests, ServiceStep(r) PROVE ServicesNext
  BY <1>6 DEF ServicesNext
<1>7. ASSUME NEW v \in Providers, SetProviderStatus(v) PROVE ServicesNext
  BY <1>7 DEF ServicesNext
<1> QED
  BY <1>1, <1>2, <1>3, <1>4, <1>5, <1>6, <1>7 DEF CommerceNext

\* The invariant of the whole.
CommerceInv == OrdersInv /\ ParcelsInv /\ ServicesInv /\ PayInv /\ PromosTypeOK /\ scene \in Scenes

\* It holds before anything was created.
LEMMA CommerceInvHolds == CommerceInit => CommerceInv
<1> SUFFICES ASSUME CommerceInit PROVE CommerceInv
  OBVIOUS
<1>1. OrdersInv
  BY DEF CommerceInit, OrdersInit, OrdersInv, OrdersTypeOK, CarrierAccepted, PickIsNew,
         OrderStates, CourierOffers
<1>2. ParcelsInv
  BY DEF CommerceInit, ParcelsInit, ParcelsInv, ParcelsTypeOK, OnlyRequestsAreAsked, AskedFor,
         ParcelStates, ParcelActive, CourierOffers
<1>3. ServicesInv
  BY DEF CommerceInit, ServicesInit, ServicesInv, ServicesTypeOK, BidsAreForRequests, AgreedOnce,
         RequestStates, BidStates
<1>4. PayInv
  BY OrdersAssumption, ParcelsAssumption, ServicesAssumption
  DEF CommerceInit, PaymentsInit, OrdersInit, ParcelsInit, ServicesInit, PayInv, PaymentsTypeOK,
      Done, Finished, PayStatuses, PaySteps, JobSettlers
<1>5. PromosTypeOK
  <2>1. (CHOOSE s \in Scopes : TRUE) \in Scopes
    BY PromosAssumption
  <2> QED
    BY <2>1 DEF CommerceInit, PromosInit, PromosTypeOK
<1> QED
  BY <1>1, <1>2, <1>3, <1>4, <1>5 DEF CommerceInit, CommerceInv

\* Whatever Operations and the checkouts do, the coupon is a row.
LEMMA PromosStayTyped ==
    PromosTypeOK /\ (CouponStep \/ \E r \in References : Redeem(r)) => PromosTypeOK'
<1> SUFFICES ASSUME PromosTypeOK, CouponStep \/ \E r \in References : Redeem(r)
             PROVE  PromosTypeOK'
  OBVIOUS
<1>1. ASSUME NEW r \in References, Redeem(r) PROVE PromosTypeOK'
  BY <1>1 DEF Redeem, PromosTypeOK
<1>2. ASSUME NEW r \in References, ApplyCoupon(r) \/ RedeemFails(r) PROVE PromosTypeOK'
  BY <1>2 DEF ApplyCoupon, RedeemFails, PromosTypeOK
<1>3. ASSUME NEW scope \in Scopes, NEW limit \in Limits, NEW perUser \in Limits,
             UpsertCoupon(scope, limit, perUser)
      PROVE PromosTypeOK'
  BY <1>3 DEF UpsertCoupon, PromosTypeOK, Larger
<1>4. ASSUME NEW b \in BOOLEAN, SetCouponActive(b) PROVE PromosTypeOK'
  BY <1>4 DEF SetCouponActive, PromosTypeOK
<1>5. ASSUME CouponEnds PROVE PromosTypeOK'
  BY <1>5 DEF CouponEnds, PromosTypeOK
<1> QED
  BY <1>1, <1>2, <1>3, <1>4, <1>5 DEF CouponStep, PromosAdmin

\* A component whose variables stay keeps its invariant.
LEMMA StillnessKeepsInvs ==
    /\ OrdersInv /\ UNCHANGED orderVars => OrdersInv'
    /\ ParcelsInv /\ UNCHANGED parcelVars => ParcelsInv'
    /\ ServicesInv /\ UNCHANGED serviceVars => ServicesInv'
    /\ PayInv /\ UNCHANGED <<orderVars, parcelVars, serviceVars, payVars>> => PayInv'
    /\ PromosTypeOK /\ UNCHANGED promoVars => PromosTypeOK'
    /\ CouponInv /\ UNCHANGED promoVars => CouponInv'
<1>1. OrdersInv /\ UNCHANGED orderVars => OrdersInv'
  BY DEF orderVars, OrdersInv, OrdersTypeOK, CarrierAccepted, PickIsNew
<1>2. ParcelsInv /\ UNCHANGED parcelVars => ParcelsInv'
  BY DEF parcelVars, ParcelsInv, ParcelsTypeOK, OnlyRequestsAreAsked, AskedFor
<1>3. ServicesInv /\ UNCHANGED serviceVars => ServicesInv'
  BY DEF serviceVars, ServicesInv, ServicesTypeOK, BidsAreForRequests, AgreedOnce
<1>4. PayInv /\ UNCHANGED <<orderVars, parcelVars, serviceVars, payVars>> => PayInv'
  BY MoneyMovesKeepPayInv
  DEF MoneyMoves, Done, Finished, orderVars, parcelVars, serviceVars
<1>5. PromosTypeOK /\ UNCHANGED promoVars => PromosTypeOK'
  BY DEF promoVars, PromosTypeOK
<1>6. CouponInv /\ UNCHANGED promoVars => CouponInv'
  BY DEF promoVars, CouponInv, PromosTypeOK, CouponWithinLimits, UsesAreLimited, UsesBy
<1> QED
  BY <1>1, <1>2, <1>3, <1>4, <1>5, <1>6

\* Every step of Commerce keeps it.
LEMMA CommerceStepsKeepInv == CommerceInv /\ [CommerceNext]_commerceVars => CommerceInv'
<1> SUFFICES ASSUME CommerceInv, [CommerceNext]_commerceVars PROVE CommerceInv'
  OBVIOUS
<1> USE DEF CommerceInv
<1>t. OrdersTypeOK /\ ParcelsTypeOK /\ ServicesTypeOK
  BY DEF OrdersInv, ParcelsInv, ServicesInv
<1>p. UNCHANGED promoVars \/ (\E r \in References : Redeem(r)) => PromosTypeOK'
  BY PromosStayTyped, StillnessKeepsInvs
<1>1. CASE UNCHANGED commerceVars
  BY <1>1, StillnessKeepsInvs DEF commerceVars
<1>2. CASE /\ OrdersNext /\ UNCHANGED scene
           /\ UNCHANGED <<parcelVars, serviceVars>>
           /\ UNCHANGED promoVars \/ \E r \in References : Redeem(r)
  <2>1. MoneyMoves
    BY <1>t, <1>2, OrdersMoveMoney DEF parcelVars, serviceVars
  <2> QED
    BY <1>2, <1>p, <2>1, MoneyMovesKeepPayInv, OrdersStepsKeepInv, StillnessKeepsInvs
<1>3. CASE /\ ParcelsNext /\ UNCHANGED scene
           /\ UNCHANGED <<orderVars, serviceVars>>
           /\ UNCHANGED promoVars \/ \E r \in References : Redeem(r)
  <2>1. MoneyMoves
    BY <1>t, <1>3, ParcelsMoveMoney DEF orderVars, serviceVars
  <2> QED
    BY <1>3, <1>p, <2>1, MoneyMovesKeepPayInv, ParcelsStepsKeepInv, StillnessKeepsInvs
<1>4. CASE /\ ServicesNext /\ UNCHANGED scene
           /\ UNCHANGED <<orderVars, parcelVars, promoVars>>
  <2>1. MoneyMoves
    BY <1>t, <1>4, RequestsMoveMoney DEF orderVars, parcelVars
  <2> QED
    BY <1>4, <2>1, MoneyMovesKeepPayInv, ServicesStepsKeepInv, StillnessKeepsInvs
<1>5. CASE /\ CouponStep /\ UNCHANGED scene
           /\ UNCHANGED <<orderVars, parcelVars, serviceVars, payVars>>
  BY <1>5, PromosStayTyped, StillnessKeepsInvs
<1> QED
  BY <1>1, <1>2, <1>3, <1>4, <1>5, OneComponentMoves

\* So it always holds.
LEMMA CommerceInvAlways == CommerceSpec => []CommerceInv
  BY CommerceInvHolds, CommerceStepsKeepInv, PTL DEF CommerceSpec

-----------------------------------------------------------------------------
\* Every state is well typed, for all tables, payments and the coupon.
THEOREM CommerceTypeCorrect == CommerceSpec => []CommerceTypeOK
<1>1. CommerceInv => CommerceTypeOK
  BY DEF CommerceInv, CommerceTypeOK, OrdersInv, ParcelsInv, ServicesInv, PayInv
<1> QED
  BY <1>1, CommerceInvAlways, PTL

\* The courier of an order accepted its offer, and the provider of a request
\* holds its one accepted bid at the price of the booking, however rounds,
\* sweeps, merchants, late bids and cancellations interleave (AcceptOffer of
\* orders and of services).
THEOREM NobodyWorksUnasked == CommerceSpec => []WorkWasAgreed
<1>1. CommerceInv => WorkWasAgreed
  BY AgreedIsBooked DEF CommerceInv, OrdersInv, ServicesInv, WorkWasAgreed
<1> QED
  BY <1>1, CommerceInvAlways, PTL

\* The ledger is debited for finished work only, a settled status stands on a
\* debit unless the job was in cash and had nothing to post, and what is
\* finished is owed (settle and SettlePending).
THEOREM MoneyFollows == CommerceSpec => []MoneyFollowsWork
<1>1. CommerceInv => MoneyFollowsWork
  BY ZenonT(90) DEF CommerceInv, PayInv, PaymentsTypeOK, MoneyFollowsWork, Done
<1> QED
  BY <1>1, CommerceInvAlways, PTL

\* A coupon that Operations only ever make for every scope is used neither
\* more often in total nor by one customer than was allowed at some time; one
\* for a single scope is not looked at by Redeem (promos.go, Redeem).
THEOREM CouponsAreLimited ==
    ASSUME Scopes = {"all"}
    PROVE  CommerceSpec => []CouponWithinLimits
<1>1. CommerceInit => CouponInv
  <2> SUFFICES ASSUME CommerceInit PROVE CouponInv
    OBVIOUS
  <2>1. PromosTypeOK
    BY CommerceInvHolds DEF CommerceInv
  <2>2. redeemed = {} /\ IsFiniteSet(redeemed) /\ Cardinality(redeemed) = 0
    BY FS_EmptySet DEF CommerceInit, PromosInit
  <2> QED
    BY <2>1, <2>2 DEF CommerceInit, PromosInit, CouponInv, CouponWithinLimits, UsesAreLimited
<1>2. CouponInv /\ [CommerceNext]_commerceVars => CouponInv'
  BY OneComponentMoves, RedeemKeepsCouponInv, CouponStepKeepsCouponInv, StillnessKeepsInvs
  DEF commerceVars
<1>3. CouponInv => CouponWithinLimits
  BY DEF CouponInv
<1> QED
  BY <1>1, <1>2, <1>3, PTL DEF CommerceSpec

-----------------------------------------------------------------------------
\* Parcels implement Jobs

\* The abstract state, by parcel, before and after a step.
JobPhase == [p \in Parcels |-> ParcelPhase(p)]
JobWorker == [p \in Parcels |-> IF parcel[p].state \in ParcelActive
                                THEN parcel[p].courier ELSE NoCourier]
JobAsked == [p \in Parcels |-> ParcelAsks(p)]

\* A step of Parcels is a step of Jobs or changes nothing there.
LEMMA ParcelStepIsJobStep ==
    ParcelsInv /\ ParcelsNext => Abstract!Next \/ UNCHANGED Abstract!vars
<1> SUFFICES ASSUME ParcelsInv, ParcelsNext
             PROVE  Abstract!Next \/ UNCHANGED <<JobPhase, JobWorker, JobAsked>>
  BY DEF Abstract!vars, JobPhase, JobWorker, JobAsked
<1> USE DEF JobPhase, JobWorker, JobAsked, ParcelAsks
<1> DEFINE Same == UNCHANGED <<JobPhase, JobWorker, JobAsked>>
<1> USE DEF ParcelsInv, ParcelsTypeOK, OnlyRequestsAreAsked, AskedFor, ParcelActive, ParcelPhase
<1>m. ASSUME NEW p \in Parcels,
             \A q \in Parcels \ {p} : parcel'[q] = parcel[q] /\ parcelOffer'[q] = parcelOffer[q]
      PROVE  /\ JobPhase' = [JobPhase EXCEPT ![p] = ParcelPhase(p)']
             /\ JobWorker' = [JobWorker EXCEPT ![p] = JobWorker[p]']
             /\ JobAsked' = [JobAsked EXCEPT ![p] = ParcelAsks(p)']
             /\ JobWorker[p]' = JobWorker[p] => JobWorker' = JobWorker
             /\ ParcelAsks(p)' = ParcelAsks(p) => JobAsked' = JobAsked
  <2>1. \A q \in Parcels \ {p} : /\ ParcelPhase(q)' = ParcelPhase(q)
                                 /\ ParcelAsks(q)' = ParcelAsks(q)
    BY <1>m
  <2>2. \A q \in Parcels \ {p} : JobWorker[q]' = JobWorker[q]
    BY <1>m
  <2>3. JobWorker' = [JobWorker EXCEPT ![p] = JobWorker[p]']
    BY <2>2
  <2>4. JobWorker[p]' = JobWorker[p] => JobWorker' = JobWorker
    BY <2>2
  <2> HIDE DEF ParcelPhase, ParcelAsks
  <2> QED
    BY ZenonT(90), <2>1, <2>3, <2>4
<1>1. ASSUME NEW p \in Parcels, CreateParcel(p) PROVE Abstract!Post(p)
  <2>1. /\ parcel[p].state = "none"
        /\ parcel' = [parcel EXCEPT ![p].state = "requested"]
        /\ parcelOffer' = parcelOffer
    BY <1>1 DEF CreateParcel
  <2>2. \A q \in Parcels \ {p} : parcel'[q] = parcel[q] /\ parcelOffer'[q] = parcelOffer[q]
    BY <2>1
  <2>3. /\ ParcelPhase(p) = "unposted" /\ ParcelPhase(p)' = "open"
        /\ JobWorker[p]' = JobWorker[p]
    BY <2>1
  <2>4. parcel'[p].accepting = {} /\ parcel[p].accepting = {} /\ AskedFor(p) = {}
    BY <2>1
  <2>5. ParcelAsks(p)' = {} /\ ParcelAsks(p) = {}
    BY <2>1, <2>4
  <2> HIDE DEF ParcelPhase, ParcelAsks, ParcelsInv
  <2> QED
    BY <1>m, <2>2, <2>3, <2>5 DEF Abstract!Post
<1>2. ASSUME NEW p \in Parcels, CancelParcel(p) PROVE Abstract!End(p)
  <2>1. /\ parcel[p].state \in {"requested", "courier_assigned"}
        /\ parcel' = [parcel EXCEPT ![p].state = "cancelled"]
        /\ parcelOffer' = [parcelOffer EXCEPT ![p] = OffersWithdrawn(parcelOffer[p])]
    BY <1>2 DEF CancelParcel
  <2>2. \A q \in Parcels \ {p} : parcel'[q] = parcel[q] /\ parcelOffer'[q] = parcelOffer[q]
    BY <2>1
  <2>3. /\ ParcelPhase(p) \in {"open", "taken"} /\ ParcelPhase(p)' = "ended"
        /\ JobWorker[p]' = NoCourier
    BY <2>1
  <2>4. \A k \in Couriers : parcelOffer'[p][k] # "offered"
    BY <2>1 DEF OffersWithdrawn
  <2>5. ParcelAsks(p)' = {}
    BY <2>1, <2>4
  <2> HIDE DEF ParcelPhase, ParcelAsks, ParcelsInv
  <2> QED
    BY <1>m, <2>2, <2>3, <2>5 DEF Abstract!End
<1>3. ASSUME NEW p \in Parcels, ParcelRoundInsert(p)
      PROVE  \E k \in Couriers : Abstract!Ask(p, k)
  <2>p. PICK k \in Couriers : k = parcel[p].pick
    BY <1>3 DEF ParcelRoundInsert, ParcelUnlocked
  <2>1. /\ parcelOffer' = [parcelOffer EXCEPT ![p][k] = "offered"]
        /\ parcel' = [parcel EXCEPT ![p].pick = NoCourier]
        /\ parcel[p].state = "requested"
    BY <1>3, <2>p DEF ParcelRoundInsert, ParcelUnlocked
  <2>2. \A q \in Parcels : parcel'[q].state = parcel[q].state
                          /\ parcel'[q].courier = parcel[q].courier
    BY <2>1
  <2>3. JobPhase' = JobPhase /\ JobWorker' = JobWorker
    BY <2>2
  <2>a. parcel'[p].accepting = parcel[p].accepting
    BY <2>1
  <2>4. ParcelAsks(p)' = ParcelAsks(p) \cup {k}
    BY <2>1, <2>2, <2>a
  <2>5. \A q \in Parcels \ {p} : parcelOffer'[q] = parcelOffer[q] /\ parcel'[q] = parcel[q]
    BY <2>1
  <2>b. \A q \in Parcels \ {p} : ParcelAsks(q)' = ParcelAsks(q)
    BY <2>5
  <2>6. JobAsked' = [JobAsked EXCEPT ![p] = @ \cup {k}]
    <3> HIDE DEF ParcelAsks
    <3> QED
      BY <2>4, <2>b
  <2> QED
    BY <2>1, <2>3, <2>6 DEF Abstract!Ask
<1>4. ASSUME NEW p \in Parcels, ParcelRoundFails(p) PROVE Same
  BY <1>4 DEF ParcelRoundFails
<1>5. ASSUME NEW p \in Parcels, ParcelRoundNobody(p) PROVE Abstract!End(p)
  <2>1. /\ parcel[p].state = "requested"
        /\ parcel' = [parcel EXCEPT ![p].state = "no_courier"]
        /\ UNCHANGED parcelOffer
        /\ AskedFor(p) = {}
    BY <1>5 DEF ParcelRoundNobody
  <2>2. parcel'[p].state = "no_courier" /\ \A q \in Parcels \ {p} : parcel'[q] = parcel[q]
    BY <2>1
  <2>3. JobPhase' = [JobPhase EXCEPT ![p] = "ended"] /\ JobPhase[p] = "open"
    BY <2>1, <2>2
  <2>4. JobWorker' = [JobWorker EXCEPT ![p] = NoCourier]
    BY <2>1, <2>2
  <2>5. JobAsked' = [JobAsked EXCEPT ![p] = {}]
    <3>1. ParcelAsks(p)' = {} /\ \A q \in Parcels \ {p} : ParcelAsks(q)' = ParcelAsks(q)
      BY <2>1, <2>2
    <3> HIDE DEF ParcelAsks
    <3> QED
      BY <3>1
  <2> QED
    BY <2>3, <2>4, <2>5 DEF Abstract!End
<1>6. ASSUME NEW p \in Parcels, SettleParcel(p) PROVE Same
  BY <1>6 DEF SettleParcel, parcelVars
<1>7. ASSUME NEW p \in Parcels, TimeOutParcel(p) PROVE Same
  BY <1>7 DEF TimeOutParcel
<1>8. ASSUME NEW p \in Parcels, NEW k \in Couriers, NEW elsewhere, ParcelRoundPick(p, k, elsewhere)
      PROVE Same
  BY <1>8 DEF ParcelRoundPick
<1>9. ASSUME NEW p \in Parcels, NEW k \in Couriers, AcceptParcel(p, k)
      PROVE Abstract!Take(p, k)
  <2>1. /\ parcel[p].state = "requested" /\ k \in parcel[p].accepting
        /\ parcel' = [parcel EXCEPT ![p].state = "courier_assigned", ![p].courier = k,
                                    ![p].accepting = {}]
        /\ parcelOffer' = [parcelOffer EXCEPT ![p] = OffersAccepted(parcelOffer[p], k)]
        /\ \A q \in Parcels : parcel[q].state \in ParcelActive => parcel[q].courier # k
    BY <1>9 DEF AcceptParcel, CarriesParcel
  <2>2. \A q \in Parcels \ {p} : parcel'[q] = parcel[q] /\ parcelOffer'[q] = parcelOffer[q]
    BY <2>1
  <2>3. /\ ParcelPhase(p) = "open" /\ ParcelPhase(p)' = "taken"
        /\ JobWorker[p]' = k
    BY <2>1
  <2>4. \A c \in Couriers : parcelOffer'[p][c] # "offered"
    BY <2>1 DEF OffersAccepted, OffersWithdrawn
  <2>5. ParcelAsks(p)' = {} /\ k \in ParcelAsks(p)
    BY <2>1, <2>4
  <2>6. \A q \in Parcels : JobWorker[q] # k
    BY <2>1, CourierAssumption
  <2> HIDE DEF ParcelPhase, ParcelAsks, ParcelsInv
  <2> QED
    BY ZenonT(90), <1>m, <2>2, <2>3, <2>5, <2>6 DEF Abstract!Take
<1>10. ASSUME NEW p \in Parcels, NEW k \in Couriers, DeclineParcel(p, k)
       PROVE Abstract!Forget(p, k)
  <2>1. /\ parcel' = parcel /\ k \notin parcel[p].accepting
        /\ parcelOffer' = [parcelOffer EXCEPT ![p][k] = "closed"]
    BY <1>10 DEF DeclineParcel
  <2>2. JobPhase' = JobPhase /\ JobWorker' = JobWorker
    BY <2>1
  <2>3. \A q \in Parcels \ {p} : parcel'[q] = parcel[q] /\ parcelOffer'[q] = parcelOffer[q]
    BY <2>1
  <2>4. ParcelAsks(p)' = ParcelAsks(p) \ {k}
    BY <2>1
  <2> HIDE DEF ParcelPhase, ParcelAsks, ParcelsInv
  <2> QED
    BY <1>m, <2>2, <2>3, <2>4 DEF Abstract!Forget
<1>11. ASSUME NEW p \in Parcels, NEW k \in Couriers, PickUpParcel(p, k) PROVE Same
  BY <1>11 DEF PickUpParcel, CourierMoves, ParcelTransitions
<1>12. ASSUME NEW p \in Parcels, NEW k \in Couriers, DeliverParcel(p, k) PROVE Abstract!End(p)
  <2>1. /\ parcel' = [parcel EXCEPT ![p].state = "delivered"]
        /\ parcelOffer' = parcelOffer
        /\ parcel[p].state = "picked_up"
    BY <1>12 DEF DeliverParcel, CourierMoves, ParcelTransitions
  <2>2. JobPhase' = [JobPhase EXCEPT ![p] = "ended"] /\ JobPhase[p] = "taken"
    BY ZenonT(90), <2>1
  <2>3. JobWorker' = [JobWorker EXCEPT ![p] = NoCourier]
    <3>1. JobWorker[p]' = NoCourier
      BY <2>1
    <3>2. \A q \in Parcels \ {p} : JobWorker[q]' = JobWorker[q]
      BY <2>1
    <3> QED
      BY <3>1, <3>2
  <2>4. JobAsked[p] = {} /\ JobAsked' = JobAsked
    BY <2>1
  <2>5. JobAsked' = [JobAsked EXCEPT ![p] = {}]
    BY <2>4
  <2> QED
    BY <2>2, <2>3, <2>5 DEF Abstract!End
<1>13. ASSUME NEW p \in Parcels, NEW k \in Couriers, ReleaseParcel(p, k)
       PROVE Abstract!Release(p)
  <2>1. /\ parcel[p].state = "courier_assigned"
        /\ parcel' = [parcel EXCEPT ![p].state = "requested", ![p].courier = NoCourier]
        /\ parcelOffer' = [parcelOffer EXCEPT ![p][k] = "closed"]
    BY <1>13 DEF ReleaseParcel, CourierMoves, ParcelTransitions
  <2>2. \A q \in Parcels \ {p} : parcel'[q] = parcel[q] /\ parcelOffer'[q] = parcelOffer[q]
    BY <2>1
  <2>3. /\ ParcelPhase(p) = "taken" /\ ParcelPhase(p)' = "open"
        /\ JobWorker[p]' = NoCourier
    BY <2>1
  <2>4. AskedFor(p) = {} /\ parcel[p].accepting = {} /\ parcel'[p].accepting = {}
    BY <2>1
  <2>5. ParcelAsks(p)' = {} /\ ParcelAsks(p) = {}
    BY <2>1, <2>4
  <2> HIDE DEF ParcelPhase, ParcelAsks, ParcelsInv
  <2> QED
    BY <1>m, <2>2, <2>3, <2>5 DEF Abstract!Release
<1>14. ASSUME NEW p \in Parcels, NEW k \in Couriers, LapseParcelOffer(p, k)
       PROVE Abstract!Forget(p, k) \/ Same
  <2>1. /\ parcel' = parcel
        /\ parcelOffer' = [parcelOffer EXCEPT ![p][k] = "overdue"]
        /\ parcel[p].state = "requested"
    BY <1>14 DEF LapseParcelOffer
  <2>2. JobPhase' = JobPhase /\ JobWorker' = JobWorker
    BY <2>1
  <2>3. \A q \in Parcels \ {p} : ParcelAsks(q)' = ParcelAsks(q)
    BY <2>1
  <2>4. CASE k \in parcel[p].accepting
    <3>1. ParcelAsks(p)' = ParcelAsks(p)
      BY <1>14, <2>1, <2>4 DEF LapseParcelOffer
    <3> HIDE DEF ParcelAsks
    <3> QED
      BY <2>2, <2>3, <3>1
  <2>5. CASE k \notin parcel[p].accepting
    <3>1. ParcelAsks(p)' = ParcelAsks(p) \ {k}
      BY <2>1, <2>5
    <3>2. JobAsked' = [JobAsked EXCEPT ![p] = @ \ {k}]
      <4> HIDE DEF ParcelAsks
      <4> QED
        BY <2>3, <3>1
    <3> QED
      BY <2>2, <3>2 DEF Abstract!Forget
  <2> QED
    BY <2>4, <2>5
<1>15. ASSUME SweepParcelOffers PROVE Same
  BY <1>15 DEF SweepParcelOffers, OffersSwept
<1>16. ASSUME NEW p \in Parcels, NEW k \in Couriers, AcceptParcelCheck(p, k) PROVE Same
  <2>1. /\ parcel' = [parcel EXCEPT ![p].accepting = @ \cup {k}]
        /\ parcelOffer' = parcelOffer /\ parcelOffer[p][k] = "offered"
    BY <1>16 DEF AcceptParcelCheck
  <2>2. \A q \in Parcels : /\ parcel'[q].state = parcel[q].state
                           /\ parcel'[q].courier = parcel[q].courier
    BY <2>1
  <2>3. \A q \in Parcels : ParcelAsks(q)' = ParcelAsks(q)
    BY <2>1
  <2> HIDE DEF ParcelAsks
  <2> QED
    BY <2>2, <2>3
<1>17. ASSUME NEW p \in Parcels, NEW k \in Couriers, AcceptParcelFails(p, k)
       PROVE  Abstract!Forget(p, k) \/ Same
  <2>1. /\ parcel' = [parcel EXCEPT ![p].accepting = @ \ {k}]
        /\ parcelOffer' = parcelOffer
    BY <1>17 DEF AcceptParcelFails
  <2>2. \A q \in Parcels : /\ parcel'[q].state = parcel[q].state
                           /\ parcel'[q].courier = parcel[q].courier
    BY <2>1
  <2>3. JobPhase' = JobPhase /\ JobWorker' = JobWorker
    BY <2>2
  <2>4. \A q \in Parcels \ {p} : ParcelAsks(q)' = ParcelAsks(q)
    BY <2>1
  <2>5. ParcelAsks(p)' = ParcelAsks(p) \/ ParcelAsks(p)' = ParcelAsks(p) \ {k}
    BY <2>1, <2>2
  <2> HIDE DEF ParcelAsks
  <2>6. CASE ParcelAsks(p)' = ParcelAsks(p)
    BY <2>3, <2>4, <2>6
  <2>7. CASE ParcelAsks(p)' = ParcelAsks(p) \ {k}
    <3>1. JobAsked' = [JobAsked EXCEPT ![p] = @ \ {k}]
      BY <2>4, <2>7
    <3> QED
      BY <2>3, <3>1 DEF Abstract!Forget
  <2> QED
    BY <2>5, <2>6, <2>7
<1> QED
  <2> HIDE DEF Same
  <2>1. \A p \in Parcels : Abstract!Post(p) \/ Abstract!End(p) \/ Abstract!Release(p)
                           => Abstract!Next
    BY DEF Abstract!Next
  <2>2. \A p \in Parcels, k \in Couriers :
           Abstract!Ask(p, k) \/ Abstract!Forget(p, k) \/ Abstract!Take(p, k) => Abstract!Next
    BY DEF Abstract!Next
  <2>3. Abstract!Next \/ Same
    <3>1. ASSUME NEW p \in Parcels, NEW elsewhere \in SUBSET Couriers, ParcelStep(p, elsewhere)
          PROVE  Abstract!Next \/ Same
      <4>1. CASE CancelParcel(p) \/ ParcelRoundInsert(p) \/ ParcelRoundNobody(p)
        <5>1. CASE CancelParcel(p) \/ ParcelRoundNobody(p)
          BY <5>1, <1>2, <1>5, <2>1
        <5>2. CASE ParcelRoundInsert(p)
          BY <5>2, <1>3, <2>2
        <5> QED
          BY <4>1, <5>1, <5>2
      <4>2. CASE ParcelRoundFails(p) \/ SettleParcel(p) \/ TimeOutParcel(p)
        BY <4>2, <1>4, <1>6, <1>7
      <4>3. ASSUME NEW k \in Couriers,
                   \/ ParcelRoundPick(p, k, elsewhere) \/ AcceptParcel(p, k)
                   \/ AcceptParcelCheck(p, k) \/ AcceptParcelFails(p, k)
                   \/ DeclineParcel(p, k) \/ PickUpParcel(p, k) \/ DeliverParcel(p, k)
                   \/ ReleaseParcel(p, k) \/ LapseParcelOffer(p, k)
            PROVE  Abstract!Next \/ Same
        BY <4>3, <1>8, <1>9, <1>10, <1>11, <1>12, <1>13, <1>14, <1>16, <1>17, <2>1, <2>2
      <4> QED
        BY <3>1, <4>1, <4>2, <4>3 DEF ParcelStep
    <3> QED
      BY <3>1, <1>1, <1>15, <2>1 DEF ParcelsNext
  <2> QED
    BY <2>3 DEF Same

\* The parcels of Commerce implement Jobs: taken only while open, by a courier
\* who answered an open offer and carries no other parcel, with nobody left
\* asked.
THEOREM ParcelsAreJobs == CommerceSpec => ParcelsImplementJobs
<1>1. CommerceInit => Abstract!Init
  BY DEF CommerceInit, ParcelsInit, Abstract!Init, ParcelPhase, ParcelActive, ParcelAsks
<1>2. CommerceInv /\ [CommerceNext]_commerceVars => [Abstract!Next]_(Abstract!vars)
  <2> SUFFICES ASSUME CommerceInv, [CommerceNext]_commerceVars
               PROVE  Abstract!Next \/ UNCHANGED Abstract!vars
    OBVIOUS
  <2>1. CASE UNCHANGED parcelVars
    BY <2>1 DEF parcelVars, Abstract!vars, ParcelPhase, ParcelAsks
  <2>2. CASE ParcelsNext
    BY <2>2, ParcelStepIsJobStep DEF CommerceInv
  <2> QED
    BY <2>1, <2>2, OneComponentMoves DEF commerceVars
<1> QED
  BY <1>1, <1>2, CommerceInvAlways, PTL DEF CommerceSpec, ParcelsImplementJobs, Abstract!Spec
-----------------------------------------------------------------------------
\* Orders implement Jobs

\* The abstract state, by order, before and after a step.
OrderJobPhase == [o \in Orders |-> OrderPhase(o)]
OrderJobWorker == [o \in Orders |-> IF order[o].state \in OrderCarried
                                    THEN order[o].courier ELSE NoCourier]
OrderJobAsked == [o \in Orders |-> OrderAsks(o)]

\* Until it is ready for the first time.
BeforeReady == {"none", "pending_merchant", "accepted", "preparing"}

\* A round has picked somebody only for a ready order, whose row it locks; the
\* row of an order that was never ready names no courier, who could release
\* it; and an order that waits for its merchant or is with a courier asks nobody
\* and nobody's acceptance waits for it.
OnlyReadyOrdersAsk ==
    \A o \in Orders :
        /\ order[o].state \in BeforeReady => order[o].courier = NoCourier
        /\ order[o].pick # NoCourier => order[o].state = "ready"
        /\ order[o].state \in BeforeReady \cup OrderCarried
              => /\ order[o].accepting = {}
                 /\ \A k \in Couriers : orderOffer[o][k] # "offered"

\* What an accepted offer leaves is no open offer, and sweeping opens none.
LEMMA NoneStaysOffered ==
    ASSUME NEW offers \in [Couriers -> CourierOffers], NEW k \in Couriers, NEW c \in Couriers
    PROVE  /\ OffersAccepted(offers, k)[c] # "offered"
           /\ OffersSwept(offers)[c] = "offered" <=> offers[c] = "offered"
  BY DEF OffersAccepted, OffersWithdrawn, OffersSwept, CourierOffers

\* Every step of Orders keeps it.
LEMMA OrdersStepsKeepAsked ==
    OrdersInv /\ OnlyReadyOrdersAsk /\ OrdersNext => OnlyReadyOrdersAsk'
<1> SUFFICES ASSUME OrdersInv, OnlyReadyOrdersAsk, OrdersNext PROVE OnlyReadyOrdersAsk'
  OBVIOUS
<1> USE DEF OrdersInv, OrdersTypeOK, OnlyReadyOrdersAsk, BeforeReady, OrderCarried
<1>1. ASSUME NEW o \in Orders, CreateOrder(o) PROVE OnlyReadyOrdersAsk'
  BY <1>1 DEF CreateOrder
<1>2. ASSUME NEW o \in Orders, CancelOrder(o) PROVE OnlyReadyOrdersAsk'
  BY <1>2 DEF CancelOrder, OrderUnlocked
<1>3. ASSUME NEW o \in Orders, NEW to \in OrderStates, MerchantMoves(o, to)
      PROVE OnlyReadyOrdersAsk'
  <2>1. /\ order' = [order EXCEPT ![o].state = to,
                                 ![o].late = IF to = "ready" THEN FALSE ELSE @]
        /\ order[o].pick = NoCourier
        /\ UNCHANGED orderOffer
    BY <1>3 DEF MerchantMoves, OrderUnlocked
  <2>2. order'[o].state = to /\ order'[o].pick = NoCourier
        /\ \A q \in Orders \ {o} : order'[q] = order[q]
    BY <2>1
  <2>3. \/ to \in {"ready"} \cup OrderOver
        \/ to \in {"accepted", "preparing"} /\ order[o].state \in {"pending_merchant", "accepted"}
    BY <1>3 DEF MerchantMoves, MerchantMay, OrderTransitions, OrderOver
  <2>4. order'[o].courier = order[o].courier /\ order'[o].accepting = order[o].accepting
    BY <2>1
  <2> QED
    BY <2>1, <2>2, <2>3, <2>4 DEF OrderOver
<1>4. ASSUME NEW o \in Orders, OrderRoundInsert(o) PROVE OnlyReadyOrdersAsk'
  <2>1. order[o].state = "ready" /\ order[o].pick \in Couriers
    BY <1>4 DEF OrderRoundInsert, OrderUnlocked
  <2>2. \A q \in Orders : order'[q].state = order[q].state
    BY <1>4 DEF OrderRoundInsert
  <2>3. \A q \in Orders \ {o} : order'[q] = order[q] /\ orderOffer'[q] = orderOffer[q]
    BY <1>4 DEF OrderRoundInsert
  <2> QED
    BY <2>1, <2>2, <2>3
<1>5. ASSUME NEW o \in Orders, OrderRoundFails(o) PROVE OnlyReadyOrdersAsk'
  BY <1>5 DEF OrderRoundFails
<1>6. ASSUME NEW o \in Orders, AlertOperations(o) PROVE OnlyReadyOrdersAsk'
  BY <1>6 DEF AlertOperations
<1>7. ASSUME NEW o \in Orders, SettleOrder(o) PROVE OnlyReadyOrdersAsk'
  BY <1>7 DEF SettleOrder, orderVars
<1>8. ASSUME NEW o \in Orders, TimeOutOrder(o) PROVE OnlyReadyOrdersAsk'
  <2>1. /\ order' = [order EXCEPT ![o].late = TRUE]
        /\ UNCHANGED orderOffer
    BY <1>8 DEF TimeOutOrder
  <2>2. \A q \in Orders : /\ order'[q].state = order[q].state
                          /\ order'[q].courier = order[q].courier
                          /\ order'[q].pick = order[q].pick
                          /\ order'[q].accepting = order[q].accepting
    BY <2>1
  <2> QED
    BY <2>1, <2>2
<1>9. ASSUME NEW o \in Orders, NEW k \in Couriers, NEW elsewhere,
             OrderRoundPick(o, k, elsewhere)
      PROVE OnlyReadyOrdersAsk'
  BY <1>9 DEF OrderRoundPick, NeedsCourier
<1>10. ASSUME NEW o \in Orders, NEW k \in Couriers, AcceptOrder(o, k)
       PROVE OnlyReadyOrdersAsk'
  <2>1. \A c \in Couriers : orderOffer'[o][c] # "offered"
    BY SMTT(60), <1>10, NoneStaysOffered DEF AcceptOrder
  <2>2. /\ order'[o].pick = NoCourier /\ order'[o].state = "courier_assigned"
        /\ order'[o].accepting = {}
    BY <1>10 DEF AcceptOrder, OrderUnlocked
  <2>3. \A q \in Orders \ {o} : order'[q] = order[q] /\ orderOffer'[q] = orderOffer[q]
    BY <1>10 DEF AcceptOrder
  <2> QED
    BY <2>1, <2>2, <2>3
<1>11. ASSUME NEW o \in Orders, NEW k \in Couriers,
              DeclineOrder(o, k) \/ LapseOrderOffer(o, k)
       PROVE OnlyReadyOrdersAsk'
  <2>1. PICK offer \in {"closed", "overdue"} :
          order' = order /\ orderOffer' = [orderOffer EXCEPT ![o][k] = offer]
    BY <1>11 DEF DeclineOrder, LapseOrderOffer
  <2>2. \A q \in Orders, c \in Couriers :
           orderOffer'[q][c] = "offered" => orderOffer[q][c] = "offered"
    BY <2>1
  <2> QED
    BY <2>1, <2>2
<1>12. ASSUME NEW o \in Orders, NEW k \in Couriers, PickUpOrder(o, k)
       PROVE OnlyReadyOrdersAsk'
  <2>1. order[o].state = "courier_assigned" /\ order[o].pick = NoCourier
    BY <1>12 DEF PickUpOrder, OrderCourierMoves, OrderTransitions, OrderUnlocked
  <2> QED
    BY <1>12, <2>1 DEF PickUpOrder
<1>13. ASSUME NEW o \in Orders, NEW k \in Couriers, DeliverOrder(o, k)
       PROVE OnlyReadyOrdersAsk'
  BY <1>13 DEF DeliverOrder, OrderCourierMoves, OrderUnlocked
<1>14. ASSUME NEW o \in Orders, NEW k \in Couriers, ReleaseOrder(o, k)
       PROVE OnlyReadyOrdersAsk'
  BY <1>14 DEF ReleaseOrder
<1>15. ASSUME SweepOrderOffers PROVE OnlyReadyOrdersAsk'
  <2>1. order' = order /\ \A q \in Orders : orderOffer'[q] = OffersSwept(orderOffer[q])
    BY <1>15 DEF SweepOrderOffers
  <2> QED
    BY <2>1, NoneStaysOffered
<1>16. ASSUME NEW o \in Orders, NEW k \in Couriers,
              AcceptOrderCheck(o, k) \/ AcceptOrderFails(o, k)
       PROVE OnlyReadyOrdersAsk'
  <2>1. PICK cs \in {order[o].accepting \cup {k}, order[o].accepting \ {k}} :
          /\ order' = [order EXCEPT ![o].accepting = cs]
          /\ orderOffer' = orderOffer
          /\ orderOffer[o][k] = "offered" \/ k \in order[o].accepting
    BY ZenonT(90), <1>16 DEF AcceptOrderCheck, AcceptOrderFails
  <2>2. order[o].state \notin BeforeReady \cup OrderCarried
    BY <2>1
  <2>3. \A q \in Orders : /\ order'[q].state = order[q].state
                          /\ order'[q].courier = order[q].courier
                          /\ order'[q].pick = order[q].pick
                          /\ q # o => order'[q] = order[q]
    BY <2>1
  <2> QED
    BY <2>1, <2>2, <2>3
<1> QED
  <2>1. ASSUME NEW o \in Orders, NEW elsewhere \in SUBSET Couriers, OrderStep(o, elsewhere)
        PROVE  OnlyReadyOrdersAsk'
    <3> HIDE DEF OrdersInv, OrdersTypeOK, OnlyReadyOrdersAsk, BeforeReady, OrderCarried
    <3> QED
      BY <2>1, <1>2, <1>3, <1>4, <1>5, <1>6, <1>7, <1>8, <1>9, <1>10, <1>11, <1>12, <1>13,
         <1>14, <1>16
      DEF OrderStep
  <2> HIDE DEF OrdersInv, OrdersTypeOK, OnlyReadyOrdersAsk, BeforeReady, OrderCarried
  <2> QED
    BY <1>1, <1>15, <2>1 DEF OrdersNext

\* A step of Orders is a step of Jobs or changes nothing there.
LEMMA OrderStepIsJobStep ==
    OrdersInv /\ OnlyReadyOrdersAsk /\ OrdersNext => OrderJobs!Next \/ UNCHANGED OrderJobs!vars
<1> SUFFICES ASSUME OrdersInv, OnlyReadyOrdersAsk, OrdersNext
             PROVE  OrderJobs!Next \/ UNCHANGED <<OrderJobPhase, OrderJobWorker, OrderJobAsked>>
  BY DEF OrderJobs!vars, OrderJobPhase, OrderJobWorker, OrderJobAsked
<1> USE DEF OrderJobPhase, OrderJobWorker, OrderJobAsked
<1> DEFINE Same == UNCHANGED <<OrderJobPhase, OrderJobWorker, OrderJobAsked>>
<1> USE DEF OrdersInv, OrdersTypeOK, OnlyReadyOrdersAsk, BeforeReady, OrderCarried, OrderOver,
            OrderPhase, OrderAsks
<1>1. ASSUME NEW o \in Orders, CreateOrder(o) PROVE OrderJobs!Post(o)
  <2>1. /\ order[o].state = "none"
        /\ order' = [order EXCEPT ![o].state = "pending_merchant"]
        /\ UNCHANGED orderOffer
    BY <1>1 DEF CreateOrder
  <2>p. /\ OrderPhase(o) = "unposted" /\ OrderPhase(o)' = "open"
        /\ \A q \in Orders \ {o} : OrderPhase(q)' = OrderPhase(q)
    BY <2>1
  <2>2. OrderJobPhase[o] = "unposted" /\ OrderJobPhase' = [OrderJobPhase EXCEPT ![o] = "open"]
    BY ZenonT(90), <2>p
  <2>3. OrderJobWorker' = OrderJobWorker
    BY <2>1
  <2>4. OrderJobAsked' = OrderJobAsked
    BY <2>1
  <2> QED
    BY <2>2, <2>3, <2>4 DEF OrderJobs!Post
<1>2. ASSUME NEW o \in Orders, NEW to \in OrderOver,
             /\ order[o].state \notin {"none"} \cup OrderOver
             /\ order'[o].state = to
             /\ \A q \in Orders \ {o} : order'[q] = order[q]
             /\ UNCHANGED orderOffer
      PROVE  OrderJobs!End(o)
  <2>p. /\ OrderPhase(o) \in {"open", "taken"} /\ OrderPhase(o)' = "ended"
        /\ \A q \in Orders \ {o} : OrderPhase(q)' = OrderPhase(q)
    BY <1>2
  <2>1. /\ OrderJobPhase[o] \in {"open", "taken"}
        /\ OrderJobPhase' = [OrderJobPhase EXCEPT ![o] = "ended"]
    BY ZenonT(90), <2>p
  <2>w. OrderJobWorker'[o] = NoCourier
    BY <1>2
  <2>v. \A q \in Orders \ {o} : OrderJobWorker'[q] = OrderJobWorker[q]
    BY <1>2
  <2>2. OrderJobWorker' = [OrderJobWorker EXCEPT ![o] = NoCourier]
    BY <2>w, <2>v
  <2>a. OrderJobAsked'[o] = {}
    BY <1>2
  <2>b. \A q \in Orders \ {o} : OrderJobAsked'[q] = OrderJobAsked[q]
    BY <1>2
  <2>3. OrderJobAsked' = [OrderJobAsked EXCEPT ![o] = {}]
    BY <2>a, <2>b
  <2> QED
    BY <2>1, <2>2, <2>3 DEF OrderJobs!End
<1>3. ASSUME NEW o \in Orders, CancelOrder(o) PROVE OrderJobs!End(o)
  <2>1. /\ order[o].state \in {"pending_merchant", "accepted"}
        /\ order' = [order EXCEPT ![o].state = "cancelled"]
        /\ UNCHANGED orderOffer
    BY <1>3 DEF CancelOrder
  <2> QED
    BY SMTT(60), <2>1, <1>2
<1>4. ASSUME NEW o \in Orders, order[o].state = "courier_assigned",
             /\ order'[o].state = "ready"
             /\ \A q \in Orders \ {o} : order'[q] = order[q]
             /\ order'[o].accepting = {}
             /\ \A k \in Couriers : orderOffer'[o][k] # "offered"
             /\ \A q \in Orders \ {o} : orderOffer'[q] = orderOffer[q]
      PROVE  OrderJobs!Release(o)
  <2>p. /\ OrderPhase(o) = "taken" /\ OrderPhase(o)' = "open"
        /\ \A q \in Orders \ {o} : OrderPhase(q)' = OrderPhase(q)
    BY <1>4
  <2>1. /\ OrderJobPhase[o] = "taken"
        /\ OrderJobPhase' = [OrderJobPhase EXCEPT ![o] = "open"]
    BY ZenonT(90), <2>p
  <2>w. OrderJobWorker'[o] = NoCourier
    BY <1>4
  <2>v. \A q \in Orders \ {o} : OrderJobWorker'[q] = OrderJobWorker[q]
    BY <1>4
  <2>2. OrderJobWorker' = [OrderJobWorker EXCEPT ![o] = NoCourier]
    BY <2>w, <2>v
  <2>3. OrderJobAsked'[o] = {} /\ OrderJobAsked[o] = {}
    BY <1>4
  <2>4. OrderJobAsked' = OrderJobAsked
    BY <1>4, <2>3
  <2> QED
    BY <2>1, <2>2, <2>4 DEF OrderJobs!Release
<1>5. ASSUME NEW o \in Orders, NEW to \in OrderStates, MerchantMoves(o, to)
      PROVE  OrderJobs!End(o) \/ OrderJobs!Release(o) \/ Same
  <2>1. /\ order' = [order EXCEPT ![o].state = to,
                                 ![o].late = IF to = "ready" THEN FALSE ELSE @]
        /\ UNCHANGED orderOffer
    BY <1>5 DEF MerchantMoves
  <2>2. /\ order'[o].state = to /\ order'[o].courier = order[o].courier
        /\ order'[o].accepting = order[o].accepting
        /\ \A q \in Orders \ {o} : order'[q] = order[q]
    BY <2>1
  <2>3. CASE to \in OrderOver
    <3>1. order[o].state \notin {"none"} \cup OrderOver
      BY <1>5 DEF MerchantMoves, MerchantMay, OrderTransitions
    <3> QED
      BY <1>2, <2>1, <2>2, <2>3, <3>1
  <2>4. CASE order[o].state = "courier_assigned" /\ to = "ready"
    BY ZenonT(90), <1>4, <2>1, <2>2, <2>4
  <2>5. CASE to \notin OrderOver /\ ~(order[o].state = "courier_assigned" /\ to = "ready")
    <3>1. /\ order[o].state \in {"pending_merchant", "accepted", "preparing"}
          /\ to \in {"accepted", "preparing", "ready"}
      BY <1>5, <2>5 DEF MerchantMoves, MerchantMay, OrderTransitions
    <3>2. \A q \in Orders : OrderPhase(q)' = OrderPhase(q)
      BY <2>1, <2>2, <3>1
    <3>3. \A q \in Orders \ {o} : order'[q] = order[q]
      BY <2>1
    <3>4. OrderJobWorker' = OrderJobWorker
      BY <2>2, <3>1, <3>3
    <3>5. OrderJobAsked'[o] = {} /\ OrderJobAsked[o] = {}
      BY <2>1, <2>2, <3>1
    <3>6. OrderJobAsked' = OrderJobAsked
      BY <2>1, <3>3, <3>5
    <3> QED
      BY <3>2, <3>4, <3>6
  <2> QED
    BY <2>3, <2>4, <2>5
<1>6. ASSUME NEW o \in Orders, OrderRoundInsert(o)
      PROVE  \E k \in Couriers : OrderJobs!Ask(o, k)
  <2>p. PICK k \in Couriers : k = order[o].pick
    BY <1>6 DEF OrderRoundInsert, OrderUnlocked
  <2>1. /\ orderOffer' = [orderOffer EXCEPT ![o][k] = "offered"]
        /\ order' = [order EXCEPT ![o].pick = NoCourier]
        /\ order[o].state = "ready"
    BY <1>6, <2>p DEF OrderRoundInsert, OrderUnlocked
  <2>2. \A q \in Orders : /\ order'[q].state = order[q].state
                          /\ order'[q].courier = order[q].courier
                          /\ order'[q].accepting = order[q].accepting
    BY <2>1
  <2>3. OrderJobPhase' = OrderJobPhase /\ OrderJobWorker' = OrderJobWorker
    BY <2>2
  <2>4. OrderJobAsked'[o] = OrderJobAsked[o] \cup {k}
    BY <2>1, <2>2
  <2>5. \A q \in Orders : q # o => orderOffer'[q] = orderOffer[q]
    BY <2>1
  <2>6. \A q \in Orders : q # o => OrderJobAsked'[q] = OrderJobAsked[q]
    BY <2>2, <2>5
  <2>7. OrderJobAsked' = [OrderJobAsked EXCEPT ![o] = @ \cup {k}]
    BY <2>4, <2>6
  <2> QED
    BY <2>1, <2>3, <2>7 DEF OrderJobs!Ask
<1>7. ASSUME NEW o \in Orders, OrderRoundFails(o) PROVE Same
  BY <1>7 DEF OrderRoundFails
<1>8. ASSUME NEW o \in Orders, AlertOperations(o) PROVE Same
  BY <1>8 DEF AlertOperations
<1>9. ASSUME NEW o \in Orders, SettleOrder(o) PROVE Same
  BY <1>9 DEF SettleOrder, orderVars
<1>10. ASSUME NEW o \in Orders, TimeOutOrder(o) PROVE Same
  BY <1>10 DEF TimeOutOrder
<1>11. ASSUME NEW o \in Orders, NEW k \in Couriers, NEW elsewhere,
              OrderRoundPick(o, k, elsewhere)
       PROVE Same
  BY <1>11 DEF OrderRoundPick
<1>12. ASSUME NEW o \in Orders, NEW k \in Couriers, AcceptOrder(o, k)
       PROVE OrderJobs!Take(o, k)
  <2>1. /\ order[o].state = "ready"
        /\ k \in order[o].accepting
        /\ order' = [order EXCEPT ![o].state = "courier_assigned", ![o].courier = k,
                                  ![o].accepting = {}]
        /\ \A q \in Orders : order[q].state \in OrderCarried => order[q].courier # k
    BY <1>12 DEF AcceptOrder, CarriesOrder
  <2>2. order'[o].state = "courier_assigned" /\ order'[o].courier = k
        /\ \A q \in Orders \ {o} : order'[q] = order[q]
    BY <2>1
  <2>3. \A q \in Orders \ {o} : orderOffer'[q] = orderOffer[q]
    BY <1>12 DEF AcceptOrder
  <2>4. OrderJobPhase[o] = "open" /\ OrderJobPhase' = [OrderJobPhase EXCEPT ![o] = "taken"]
    BY ZenonT(90), <2>1, <2>2
  <2>5. k \in OrderJobAsked[o] /\ \A q \in Orders : OrderJobWorker[q] # k
    BY <2>1, CourierAssumption
  <2>w. OrderJobWorker'[o] = k /\ \A q \in Orders \ {o} : OrderJobWorker'[q] = OrderJobWorker[q]
    BY <2>2
  <2>6. OrderJobWorker' = [OrderJobWorker EXCEPT ![o] = k]
    BY <2>w
  <2>7. OrderJobAsked'[o] = {} /\ \A q \in Orders \ {o} : OrderJobAsked'[q] = OrderJobAsked[q]
    BY <2>2, <2>3
  <2>8. OrderJobAsked' = [OrderJobAsked EXCEPT ![o] = {}]
    BY <2>7
  <2> QED
    BY <2>4, <2>5, <2>6, <2>8 DEF OrderJobs!Take
<1>13. ASSUME NEW o \in Orders, NEW k \in Couriers,
              \A q \in Orders : /\ order'[q].state = order[q].state
                                /\ order'[q].courier = order[q].courier
                                /\ q # o => OrderAsks(q)' = OrderAsks(q),
              OrderAsks(o)' \in {OrderAsks(o), OrderAsks(o) \ {k}}
       PROVE  OrderJobs!Forget(o, k) \/ Same
  <2>1. OrderJobPhase' = OrderJobPhase /\ OrderJobWorker' = OrderJobWorker
    BY <1>13
  <2> HIDE DEF OrderAsks
  <2>2. CASE OrderAsks(o)' = OrderAsks(o)
    <3>1. OrderJobAsked' = OrderJobAsked
      BY <1>13, <2>2
    <3> QED
      BY <2>1, <3>1
  <2>3. CASE OrderAsks(o)' = OrderAsks(o) \ {k}
    <3>1. OrderJobAsked' = [OrderJobAsked EXCEPT ![o] = @ \ {k}]
      BY <1>13, <2>3
    <3> QED
      BY <2>1, <3>1 DEF OrderJobs!Forget
  <2> QED
    BY <1>13, <2>2, <2>3
<1>14. ASSUME NEW o \in Orders, NEW k \in Couriers,
              DeclineOrder(o, k) \/ LapseOrderOffer(o, k)
       PROVE OrderJobs!Forget(o, k) \/ Same
  <2>1. PICK offer \in {"closed", "overdue"} :
          order' = order /\ orderOffer' = [orderOffer EXCEPT ![o][k] = offer]
    BY <1>14 DEF DeclineOrder, LapseOrderOffer
  <2>2. \A q \in Orders \ {o} : OrderAsks(q)' = OrderAsks(q)
    BY <2>1
  <2>3. OrderAsks(o)' \in {OrderAsks(o), OrderAsks(o) \ {k}}
    BY <1>14, <2>1 DEF DeclineOrder, LapseOrderOffer
  <2> HIDE DEF OrderAsks
  <2> QED
    BY <1>13, <2>1, <2>2, <2>3
<1>19. ASSUME NEW o \in Orders, NEW k \in Couriers,
              AcceptOrderCheck(o, k) \/ AcceptOrderFails(o, k)
       PROVE OrderJobs!Forget(o, k) \/ Same
  <2>1. PICK cs \in {order[o].accepting \cup {k}, order[o].accepting \ {k}} :
          /\ order' = [order EXCEPT ![o].accepting = cs]
          /\ orderOffer' = orderOffer
          /\ orderOffer[o][k] = "offered" \/ cs = order[o].accepting \ {k}
    BY ZenonT(90), <1>19 DEF AcceptOrderCheck, AcceptOrderFails
  <2>2. \A q \in Orders : /\ order'[q].state = order[q].state
                          /\ order'[q].courier = order[q].courier
                          /\ q # o => order'[q] = order[q]
    BY <2>1
  <2>3. order'[o].accepting = cs
    BY <2>1
  <2>4. \A q \in Orders \ {o} : OrderAsks(q)' = OrderAsks(q)
    BY <2>1, <2>2
  <2>5. OrderAsks(o)' \in {OrderAsks(o), OrderAsks(o) \ {k}}
    BY <2>1, <2>2, <2>3
  <2> HIDE DEF OrderAsks
  <2> QED
    BY <1>13, <2>2, <2>4, <2>5
<1>15. ASSUME NEW o \in Orders, NEW k \in Couriers, PickUpOrder(o, k) PROVE Same
  <2>1. /\ order[o].state = "courier_assigned"
        /\ order' = [order EXCEPT ![o].state = "picked_up"]
        /\ UNCHANGED orderOffer
    BY <1>15 DEF PickUpOrder, OrderCourierMoves, OrderTransitions
  <2> QED
    BY <2>1
<1>16. ASSUME NEW o \in Orders, NEW k \in Couriers, DeliverOrder(o, k) PROVE OrderJobs!End(o)
  <2>1. /\ order[o].state \in {"ready", "picked_up"}
        /\ order' = [order EXCEPT ![o].state = "delivered"]
        /\ UNCHANGED orderOffer
    BY <1>16 DEF DeliverOrder, OrderCourierMoves, OrderTransitions
  <2> QED
    BY <2>1, <1>2
<1>17. ASSUME NEW o \in Orders, NEW k \in Couriers, ReleaseOrder(o, k)
       PROVE OrderJobs!Release(o)
  <2>1. /\ order' = [order EXCEPT ![o].state = "ready", ![o].courier = NoCourier]
        /\ orderOffer' = [orderOffer EXCEPT ![o][k] = "closed"]
    BY <1>17 DEF ReleaseOrder
  <2>2. order[o].state = "courier_assigned"
    <3>1. "ready" \in OrderTransitions(order[o].state) /\ order[o].courier = k
      BY <1>17 DEF ReleaseOrder, OrderCourierMoves
    <3>2. order[o].state \in {"preparing", "courier_assigned"}
      BY <3>1 DEF OrderTransitions
    <3> QED
      BY <3>1, <3>2, CourierAssumption
  <2>3. order'[o].state = "ready" /\ order'[o].accepting = {}
    BY <2>1, <2>2
  <2>4. \A q \in Orders \ {o} : order'[q] = order[q]
    BY <2>1
  <2>5. \A c \in Couriers : orderOffer[o][c] # "offered"
    BY <2>2
  <2>6. \A c \in Couriers : orderOffer'[o][c] # "offered"
    BY <2>1, <2>5
  <2>7. \A q \in Orders \ {o} : orderOffer'[q] = orderOffer[q]
    BY <2>1
  <2> QED
    BY <1>4, <2>2, <2>3, <2>4, <2>6, <2>7
<1>18. ASSUME SweepOrderOffers PROVE Same
  <2>1. order' = order /\ \A q \in Orders : orderOffer'[q] = OffersSwept(orderOffer[q])
    BY <1>18 DEF SweepOrderOffers
  <2>2. \A q \in Orders, k \in Couriers :
           orderOffer'[q][k] = "offered" <=> orderOffer[q][k] = "offered"
    BY <2>1, NoneStaysOffered
  <2> QED
    BY <2>1, <2>2
<1> QED
  <2> HIDE DEF Same, OrderJobPhase, OrderJobWorker, OrderJobAsked
  <2>1. \A o \in Orders : OrderJobs!Post(o) \/ OrderJobs!End(o) \/ OrderJobs!Release(o)
                          => OrderJobs!Next
    BY DEF OrderJobs!Next
  <2>2. \A o \in Orders, k \in Couriers :
           OrderJobs!Ask(o, k) \/ OrderJobs!Forget(o, k) \/ OrderJobs!Take(o, k)
             => OrderJobs!Next
    BY DEF OrderJobs!Next
  <2>3. ASSUME NEW o \in Orders, NEW elsewhere \in SUBSET Couriers, OrderStep(o, elsewhere)
        PROVE  OrderJobs!Next \/ Same
    <3>1. CASE CancelOrder(o) \/ \E to \in OrderStates : MerchantMoves(o, to)
      BY <3>1, <1>3, <1>5, <2>1
    <3>2. CASE OrderRoundInsert(o)
      BY <3>2, <1>6, <2>2
    <3>3. CASE OrderRoundFails(o) \/ AlertOperations(o) \/ SettleOrder(o) \/ TimeOutOrder(o)
      BY <3>3, <1>7, <1>8, <1>9, <1>10
    <3>4. ASSUME NEW k \in Couriers,
                 \/ OrderRoundPick(o, k, elsewhere) \/ AcceptOrder(o, k)
                 \/ AcceptOrderCheck(o, k) \/ AcceptOrderFails(o, k)
                 \/ DeclineOrder(o, k) \/ PickUpOrder(o, k) \/ DeliverOrder(o, k)
                 \/ ReleaseOrder(o, k) \/ LapseOrderOffer(o, k)
          PROVE  OrderJobs!Next \/ Same
      BY <3>4, <1>11, <1>12, <1>14, <1>15, <1>16, <1>17, <1>19, <2>1, <2>2
    <3> QED
      BY <2>3, <3>1, <3>2, <3>3, <3>4 DEF OrderStep
  <2>4. OrderJobs!Next \/ Same
    BY <1>1, <1>18, <2>1, <2>3 DEF OrdersNext
  <2> QED
    BY <2>4 DEF Same

\* The orders of Commerce implement Jobs: taken only while ready, by a courier
\* who answered an open offer and carries no other order; when the merchant or
\* the courier gives a taken order back, it is open again and nobody is asked
\* for it.
THEOREM OrdersAreJobs == CommerceSpec => OrdersImplementJobs
<1>1. CommerceInit => OrderJobs!Init /\ OnlyReadyOrdersAsk
  <2> SUFFICES ASSUME OrdersInit PROVE OrderJobs!Init /\ OnlyReadyOrdersAsk
    BY DEF CommerceInit
  <2>1. \A o \in Orders : /\ order[o].state = "none"
                          /\ order[o].courier = NoCourier /\ order[o].pick = NoCourier
                          /\ order[o].accepting = {}
                          /\ \A k \in Couriers : orderOffer[o][k] = "none"
    BY DEF OrdersInit
  <2>2. OrderJobs!Init
    <3>1. \A o \in Orders : OrderPhase(o) = "unposted"
      BY <2>1 DEF OrderPhase, OrderCarried, OrderOver
    <3>2. \A o \in Orders : order[o].state \notin OrderCarried
      BY <2>1 DEF OrderCarried
    <3>3. \A o \in Orders : OrderAsks(o) = {}
      BY <2>1 DEF OrderAsks
    <3> QED
      BY <3>1, <3>2, <3>3 DEF OrderJobs!Init
  <2>3. OnlyReadyOrdersAsk
    BY <2>1 DEF OnlyReadyOrdersAsk, BeforeReady, OrderCarried
  <2> QED
    BY <2>2, <2>3
<1>2. CommerceInv /\ OnlyReadyOrdersAsk /\ [CommerceNext]_commerceVars
        => OnlyReadyOrdersAsk' /\ [OrderJobs!Next]_(OrderJobs!vars)
  <2> SUFFICES ASSUME CommerceInv, OnlyReadyOrdersAsk, [CommerceNext]_commerceVars
               PROVE  /\ OnlyReadyOrdersAsk'
                      /\ OrderJobs!Next \/ UNCHANGED OrderJobs!vars
    OBVIOUS
  <2>1. CASE UNCHANGED orderVars
    <3>1. order' = order /\ orderOffer' = orderOffer
      BY <2>1 DEF orderVars
    <3>2. UNCHANGED OrderJobs!vars
      BY <3>1 DEF OrderJobs!vars, OrderPhase, OrderAsks
    <3> QED
      BY <3>1, <3>2 DEF OnlyReadyOrdersAsk
  <2>2. CASE OrdersNext
    BY <2>2, OrdersStepsKeepAsked, OrderStepIsJobStep DEF CommerceInv
  <2> QED
    BY <2>1, <2>2, OneComponentMoves DEF commerceVars
<1> QED
  BY <1>1, <1>2, CommerceInvAlways, PTL
  DEF CommerceSpec, OrdersImplementJobs, OrderJobs!Spec

\* So both kinds of job are handed out as Jobs says, although their rounds
\* compete for the same couriers.
THEOREM JobsAreKept == CommerceSpec => JobsAreHandedOut
  BY OrdersAreJobs, ParcelsAreJobs DEF JobsAreHandedOut
=============================================================================
