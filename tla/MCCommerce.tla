----------------------------- MODULE MCCommerce ------------------------------
\* The scenes: two orders that compete for one courier, an order with two
\* couriers to choose from, one that the merchant hands over himself, two
\* parcels that compete for one courier, a parcel with two, an order and a
\* parcel that compete for one, a service with two providers, three checkouts
\* with one coupon, and a ride of Rides with two drivers, alone, for the
\* liveness of its dispatch.
EXTENDS Commerce, Rides

CONSTANTS o1, o2, o3, p1, p2, r1, k1, k2, alice, bob

MCMethodOf == [j \in {o1, o2, o3, p1, p2, r1} |->
    CASE j \in {o3, p2} -> "wallet"
      [] j = o1 -> "covered"
      [] j = o2 -> "free"
      [] OTHER -> "cash"]

MCUserOf == [r \in {o1, o2, o3, p1, p2} |-> IF r = o2 THEN bob ELSE alice]

RideScene == [jobs |-> {}, duty |-> {}, coupon |-> FALSE]

MCScenes == {
    [jobs |-> {o1, o2}, duty |-> {k1}, coupon |-> FALSE],
    [jobs |-> {o1}, duty |-> {k1, k2}, coupon |-> FALSE],
    [jobs |-> {o3}, duty |-> {}, coupon |-> FALSE],
    [jobs |-> {p1, p2}, duty |-> {k1}, coupon |-> FALSE],
    [jobs |-> {p2}, duty |-> {k1, k2}, coupon |-> FALSE],
    [jobs |-> {o1, p1}, duty |-> {k1}, coupon |-> FALSE],
    [jobs |-> {r1}, duty |-> {}, coupon |-> FALSE],
    [jobs |-> {o1, o2, p1}, duty |-> {}, coupon |-> TRUE],
    RideScene}

MCInit == CommerceInit /\ Init

MCNext ==
    \/ CommerceNext /\ UNCHANGED vars
    \/ scene = RideScene /\ Next /\ UNCHANGED commerceVars

MCSpec ==
    /\ MCInit
    /\ [][MCNext]_<<commerceVars, vars>>
    /\ CommerceFairness
    /\ Fairness
=============================================================================
