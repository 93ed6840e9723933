------------------------------- MODULE Promos --------------------------------
(***************************************************************************)
(* A coupon, from modules/promos/promos.go: priced at checkout without a   *)
(* lock, consumed in the transaction that creates the order or the parcel  *)
(* under the coupon's row lock, and edited by Operations in between.       *)
(* Coupons are independent of each other, so there is one.  Amounts are    *)
(* left out; a NULL limit is any number above the number of references.    *)
(***************************************************************************)
EXTENDS Integers, FiniteSets

CONSTANTS
    References,     \* orders and parcels that may be created with the coupon
    FoodReferences, \* those of the orders
    UserOf,         \* UserOf[r]: the customer
    Scopes,         \* the scopes that Operations give it
    Limits          \* the values of max_uses and max_uses_per_user

ASSUME PromosAssumption ==
    /\ FoodReferences \subseteq References
    /\ Scopes \subseteq {"all", "food", "parcels"} /\ Scopes # {}
    /\ Limits \subseteq Nat \ {0} /\ Limits # {}

VARIABLES
    coupon,     \* the row of coupons
    basket,     \* basket[r]: "none", or "priced" with the coupon by Apply
    redeemed,   \* references with a coupon_redemptions row
    promised    \* the largest limits that were ever in force

promoVars == <<coupon, basket, redeemed, promised>>

UsesBy(user) == Cardinality({r \in redeemed : UserOf[r] = user})
ScopeOf(r) == IF r \in FoodReferences THEN "food" ELSE "parcels"
Larger(m, n) == IF m > n THEN m ELSE n

\* check: the verdict on the coupon for a scope and a number of uses.  The
\* scope is looked at before the dates and the limits.
CouponCheck(scope, userUses) ==
    CASE ~coupon.active -> "invalid"
      [] coupon.scope \notin {"all", scope} -> "not_applicable"
      [] coupon.ended -> "expired"
      [] coupon.uses >= coupon.limit -> "used_up"
      [] userUses >= coupon.perUser -> "used_up"
      [] OTHER -> "ok"

-----------------------------------------------------------------------------
\* There is no coupon until Operations make one.
PromosInit ==
    /\ coupon = [active |-> FALSE, scope |-> CHOOSE s \in Scopes : TRUE, ended |-> FALSE,
                 limit |-> 0, perUser |-> 0, uses |-> 0]
    /\ basket = [r \in References |-> "none"]
    /\ redeemed = {}
    /\ promised = [limit |-> 0, perUser |-> 0]

\* Apply, on the way to creating r; an unlocked read.
ApplyCoupon(r) ==
    /\ basket[r] = "none"
    /\ r \notin redeemed
    /\ CouponCheck(ScopeOf(r), UsesBy(UserOf[r])) = "ok"
    /\ basket' = [basket EXCEPT ![r] = "priced"]
    /\ UNCHANGED <<coupon, redeemed, promised>>

\* Mutant: what Apply found is trusted.
RedeemUnchecked(r) ==
    /\ basket[r] = "priced"
    /\ redeemed' = redeemed \cup {r}
    /\ coupon' = [coupon EXCEPT !.uses = @ + 1]
    /\ basket' = [basket EXCEPT ![r] = "none"]
    /\ UNCHANGED promised

\* Redeem, inside the creating transaction: it asks check for the scope "all"
\* and takes "not_applicable" for a yes.
Redeem(r) ==
    /\ basket[r] = "priced"
    /\ CouponCheck("all", UsesBy(UserOf[r])) \in {"ok", "not_applicable"}
    /\ redeemed' = redeemed \cup {r}
    /\ coupon' = [coupon EXCEPT !.uses = @ + 1]
    /\ basket' = [basket EXCEPT ![r] = "none"]
    /\ UNCHANGED promised

\* Redeem refuses and the creation is rolled back with it.
RedeemFails(r) ==
    /\ basket[r] = "priced"
    /\ CouponCheck("all", UsesBy(UserOf[r])) \notin {"ok", "not_applicable"}
    /\ basket' = [basket EXCEPT ![r] = "none"]
    /\ UNCHANGED <<coupon, redeemed, promised>>

\* Upsert rewrites every field but the count of uses.
UpsertCoupon(scope, limit, perUser) ==
    /\ coupon' = [coupon EXCEPT !.active = TRUE, !.scope = scope, !.ended = FALSE,
                                !.limit = limit, !.perUser = perUser]
    /\ promised' = [limit |-> Larger(promised.limit, limit),
                    perUser |-> Larger(promised.perUser, perUser)]
    /\ UNCHANGED <<basket, redeemed>>

SetCouponActive(b) ==
    /\ coupon' = [coupon EXCEPT !.active = b]
    /\ UNCHANGED <<basket, redeemed, promised>>

\* ends_at passes.
CouponEnds ==
    /\ coupon' = [coupon EXCEPT !.ended = TRUE]
    /\ UNCHANGED <<basket, redeemed, promised>>

PromosAdmin ==
    \/ \E scope \in Scopes, limit \in Limits, perUser \in Limits :
         UpsertCoupon(scope, limit, perUser)
    \/ \E b \in BOOLEAN : SetCouponActive(b)
    \/ CouponEnds

-----------------------------------------------------------------------------
PromosTypeOK ==
    /\ coupon \in [active : BOOLEAN, scope : Scopes, ended : BOOLEAN,
                   limit : Limits \cup {0}, perUser : Limits \cup {0}, uses : Nat]
    /\ basket \in [References -> {"none", "priced"}]
    /\ redeemed \subseteq References
    /\ promised \in [limit : Limits \cup {0}, perUser : Limits \cup {0}]

\* A limit on the number of uses, in total and per customer (promos.go:1-2).
UsesAreLimited ==
    /\ coupon.uses <= promised.limit
    /\ \A r \in redeemed : UsesBy(UserOf[r]) <= promised.perUser

\* Checkouts that were all priced while one use was left, on both sides of
\* an edit of the coupon, are each counted, and never use it more often than
\* the largest limit that was in force (Redeem).
CouponWithinLimits == coupon.uses = Cardinality(redeemed) /\ UsesAreLimited
=============================================================================
