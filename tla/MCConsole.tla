------------------------------- MODULE MCConsole -------------------------------
\* What partners, agents and users change beside the trips: the configuration,
\* a merchant and his catalog, reviews, support, accounts, risk flags and prices.
\* They share no state, so a behaviour is one of them: focus, fixed at the
\* start, says which.
EXTENDS ConfigCache, Catalog, Reviews, SupportDesk, Merchants, Accounts, Risk, Quotes

CONSTANTS ca, cb, driver1, shop1, u1, u2, trip1, trip2, trip3

\* The client's version is good enough, or the apps are in maintenance.
MCVersionRows == {[maintenance |-> m, min |-> 1] : m \in BOOLEAN}
MCFirstVersions == [maintenance |-> FALSE, min |-> 1]

\* A flag that is off and one that is on for a user of bucket 50.
MCFlagRows == {[enabled |-> TRUE, rollout |-> n] : n \in {0, 100}}
MCFirstFlags == [enabled |-> TRUE, rollout |-> 0]

\* No surcharge, and one that takes more than the cheaper price.
MCDeltas == {-2, 0}

\* Two rides of one driver with two customers, one of whom he reviews too, and
\* an order of this customer.
MCReviewing == [t \in Trips |->
    CASE t = trip1 -> [u \in {ca, driver1} |-> IF u = ca THEN driver1 ELSE ca]
      [] t = trip2 -> [u \in {cb} |-> driver1]
      [] OTHER -> [u \in {ca} |-> shop1]]

\* Hours that pass midnight from the last day of the week to the first, where
\* others end when they begin; and two entries of one day, the second of which
\* passes midnight and begins when the first ends.
Entry(weekday, opens, closes) == [weekday |-> weekday, opens |-> opens, closes |-> closes]
MCTimetables == {{Entry(6, 2, 1), Entry(0, 1, 1)}, {Entry(1, 0, 2), Entry(1, 2, 1)}}

\* Two top-ups of which the second alone is too much, a refund, and a ride that
\* a driver gave up.
MCKindOf == [f \in Facts |-> IF f \in {1, 2} THEN "topup" ELSE IF f = 3 THEN "refund" ELSE "share"]
MCAmountOf == [f \in Facts |-> IF f = 2 THEN 3 ELSE 1]
MCBurstSize == [kind \in {"topup", "refund"} |-> IF kind = "topup" THEN 2 ELSE 1]
MCBurstSum == [kind \in {"topup", "refund"} |-> 3]

\* Two areas over one pickup, and two cards: the second has a surge, keeps more
\* of the fare and lets a customer cancel for nothing.  The numbers are small for
\* TLC's arithmetic of 32 bits.
MCDistance == [p \in Pickups |-> [a \in Areas |-> IF a = "centre" THEN 1 ELSE 3]]
MCRadius == [a \in Areas |-> 3]
Card(base, surge, bp, fee) ==
    [base |-> base, perKm |-> 7, perMin |-> 2, minimum |-> 33, surge |-> surge,
     commission |-> bp, cancelFee |-> fee, grace |-> 0]
MCCards == {Card(9, 10000, 1500, 10), Card(8, 12345, 2000, 0)}
MCRoutes == {[metres |-> 1100, seconds |-> 200], [metres |-> 3333, seconds |-> 310]}

\* Requests are alike, and so are idempotency keys: the two of each kind change
\* places.
Siblings == {ConfigReaders, Posters, Writers, Editors, AccountRequests, Keys}
Other(x) == CHOOSE y \in UNION Siblings : y # x /\ \E pair \in Siblings : {x, y} \subseteq pair
MCSymmetry ==
    {[x \in UNION Siblings |-> IF exchanged THEN Other(x) ELSE x] : exchanged \in BOOLEAN}

VARIABLE focus

allVars == <<configVars, catalogVars, reviewVars, supportVars, merchantVars,
             accountVars, riskVars, quoteVars>>

\* A component that a behaviour is not about has one initial state; the first
\* version of the product has an option on sale that may be left out.
ConsoleInit ==
    /\ ConfigInit /\ CatalogInit /\ ReviewsInit /\ SupportInit /\ MerchantsInit
    /\ AccountsInit /\ RiskInit /\ QuotesInit
    /\ focus \in {"config", "catalog", "reviews", "support", "merchants",
                  "accounts", "risk", "quotes"}
    /\ focus # "catalog" =>
        shop[1] = CHOOSE v \in VersionsWith({1}) :
                      v.listed /\ v.available /\ v.optionAvailable /\ v.min = 0
    /\ shop[1].optionAvailable /\ shop[1].min = 0
    /\ focus # "merchants" => accepting
    /\ focus # "accounts" => named
    /\ focus # "risk" => assigned = 0
    /\ focus # "quotes" => rules = {[r EXCEPT !.card = CHOOSE card \in Cards : TRUE] : r \in rules}

\* A rule counts facts of its own kind: no behaviour has facts of two kinds.
OneRule == \E kind \in BurstKinds \cup {DriverKind} :
    \A f \in Facts : ages[f] = "none" \/ KindOf[f] = kind

ConsoleNext ==
    /\ \/ /\ focus = "config" /\ ConfigNext
          /\ UNCHANGED <<catalogVars, reviewVars, supportVars, merchantVars,
                         accountVars, riskVars, quoteVars>>
       \/ /\ focus = "catalog" /\ CatalogNext
          /\ UNCHANGED <<configVars, reviewVars, supportVars, merchantVars,
                         accountVars, riskVars, quoteVars>>
       \/ /\ focus = "reviews" /\ ReviewsNext
          /\ UNCHANGED <<configVars, catalogVars, supportVars, merchantVars,
                         accountVars, riskVars, quoteVars>>
       \/ /\ focus = "support" /\ SupportNext
          /\ UNCHANGED <<configVars, catalogVars, reviewVars, merchantVars,
                         accountVars, riskVars, quoteVars>>
       \/ /\ focus = "merchants" /\ MerchantsNext
          /\ UNCHANGED <<configVars, catalogVars, reviewVars, supportVars,
                         accountVars, riskVars, quoteVars>>
       \/ /\ focus = "accounts" /\ AccountsNext
          /\ UNCHANGED <<configVars, catalogVars, reviewVars, supportVars,
                         merchantVars, riskVars, quoteVars>>
       \/ /\ focus = "risk" /\ RiskNext /\ OneRule'
          /\ UNCHANGED <<configVars, catalogVars, reviewVars, supportVars,
                         merchantVars, accountVars, quoteVars>>
       \/ /\ focus = "quotes" /\ QuotesNext
          /\ UNCHANGED <<configVars, catalogVars, reviewVars, supportVars,
                         merchantVars, accountVars, riskVars>>
    /\ UNCHANGED focus

ConsoleSpec == ConsoleInit /\ [][ConsoleNext]_<<allVars, focus>>

\* The type invariants of the eight.
ConsoleTypeOK ==
    /\ ConfigTypeOK /\ CatalogTypeOK /\ ReviewsTypeOK /\ SupportTypeOK /\ MerchantsTypeOK
    /\ AccountsTypeOK /\ RiskTypeOK /\ QuotesTypeOK
=============================================================================
