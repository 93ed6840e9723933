------------------------------- MODULE Quotes --------------------------------
\* The price of a ride (modules/pricing): an area's rule in force makes a quote,
\* a request books the quote while it is valid, and the ride's end reads the
\* rule again.  One customer and one category; the rules are rows of their own
\* and change while quotes and rides are under way.
EXTENDS Integers, FiniteSets

CONSTANTS Areas, Pickups,
          Distance,       \* Distance[p][a], from a pickup to an area's centre
          Radius,         \* of an area
          Cards,          \* what a rule may say: prices, surge, commission, fee
          Routes,         \* [metres, seconds]
          QuoteIds, NoQuote,
          Keys,           \* the idempotency keys, one of each request
          QuoteTTL,
          MaxClock,       \* bound on time
          MaxRules        \* bound on the rules

\* The CHECKs of pricing_rules (0003_rides.sql:45) and the provider's whole
\* metres and seconds.
ASSUME QuotesAssumption ==
    /\ QuoteTTL \in Nat /\ MaxClock \in Nat /\ NoQuote \notin QuoteIds
    /\ Cards \subseteq [base : Nat, perKm : Nat, perMin : Nat, minimum : Nat, surge : Nat,
                        commission : Nat, cancelFee : Int, grace : Int]
    /\ Routes \subseteq [metres : Int, seconds : Int]

VARIABLES clock,
          rules,       \* pricing_rules
          quotes,      \* ride_quotes
          rides,       \* of each key, its ride
          booking      \* the requests

quoteVars == <<clock, rules, quotes, rides, booking>>

(***************************************************************************)
(* The fare.                                                               *)
(***************************************************************************)
AtLeast(n, m) == IF n < m THEN m ELSE n

\* The fare before it is rounded to ten cents.
Surged(card, route) ==
    LET km == (card.perKm * AtLeast(route.metres, 0) + 500) \div 1000
        mins == (card.perMin * AtLeast(route.seconds, 0) + 30) \div 60 IN
    ((card.base + km + mins) * AtLeast(card.surge, 10000) + 5000) \div 10000

\* Rounded up to ten cents.
Compute(card, route) == AtLeast(((Surged(card, route) + 9) \div 10) * 10, card.minimum)

Commission(price, bp) == IF bp < 0 THEN 0 ELSE (price * bp + 5000) \div 10000

\* What the fare is without any rounding, in parts of which a cent has
\* PartsOfCent.
PartsOfCent == 30000000

Exact(card, route) ==
    (card.base * 3000 + card.perKm * AtLeast(route.metres, 0) * 3
                      + card.perMin * AtLeast(route.seconds, 0) * 50)
        * AtLeast(card.surge, 10000)

\* A rounding of each part, surged, and one of the sum.
Slack(card) == 3000 * AtLeast(card.surge, 10000) + PartsOfCent \div 2

(***************************************************************************)
(* Rules and quotes.                                                       *)
(***************************************************************************)
Covering(p) == {a \in Areas : Distance[p][a] <= Radius[a]}

\* ResolveArea.
Nearest(p) == {a \in Covering(p) : \A b \in Covering(p) : Distance[p][a] <= Distance[p][b]}

InForce(a) == {r \in rules : r.area = a /\ r.from <= clock /\ clock < r.until}

\* Rules: of each category the youngest that is in force.
RuleOfArea(a) == {r \in InForce(a) : \A s \in InForce(a) : s.from <= r.from}

NoRideYet == [state |-> "none", quote |-> NoQuote, price |-> 0, since |-> 0,
              final |-> 0, commission |-> 0, fee |-> 0]
NotBooking == [step |-> "idle", quote |-> NoQuote, price |-> 0]

\* The first rule of each area comes with a migration.
QuotesInit ==
    /\ clock = 0
    /\ \E card \in Cards :
        rules = {[area |-> a, from |-> 0, until |-> MaxClock + 1, card |-> card] : a \in Areas}
    /\ quotes = [q \in QuoteIds |-> NoQuote]
    /\ rides = [k \in Keys |-> NoRideYet]
    /\ booking = [k \in Keys |-> NotBooking]

Tick ==
    /\ clock < MaxClock
    /\ clock' = clock + 1
    /\ UNCHANGED <<rules, quotes, rides, booking>>

\* The administrator changes the prices of an area: a rule more, or an end to
\* one of them.
AddRule(a, card) ==
    /\ Cardinality(rules) < MaxRules
    /\ \A r \in rules : ~(r.area = a /\ r.from = clock)
    /\ rules' = rules \cup {[area |-> a, from |-> clock, until |-> MaxClock + 1, card |-> card]}
    /\ UNCHANGED <<clock, quotes, rides, booking>>

\* Mutant: the rule in force instead of the quote's.
RuleToday(q) ==
    LET a == quotes[q].area IN
    CHOOSE r \in rules : r.area = a /\ (RuleOfArea(a) = {} \/ r \in RuleOfArea(a))

\* A quote names its rule by area and beginning, which together are a key.
RuleOf(q) ==
    CHOOSE r \in rules : r.area = quotes[q].area /\ r.from = quotes[q].from

EndRule(r) ==
    /\ r.until > clock
    /\ rules' = (rules \ {r}) \cup {[r EXCEPT !.until = clock]}
    /\ UNCHANGED <<clock, quotes, rides, booking>>

\* Quote; without an area or a rule it is refused.
TakeQuote(q, p, route) ==
    /\ quotes[q] = NoQuote
    /\ \E a \in Nearest(p) : \E r \in RuleOfArea(a) :
        quotes' = [quotes EXCEPT ![q] =
            [area |-> a, from |-> r.from, route |-> route,
             price |-> Compute(r.card, route), expires |-> clock + QuoteTTL]]
    /\ UNCHANGED <<clock, rules, rides, booking>>

(***************************************************************************)
(* The ride.                                                               *)
(***************************************************************************)
Riding == {k \in Keys : rides[k].state \in {"matching", "assigned"}}

\* Request, with LoadQuote: it reads the quote and then asks for the time.  A
\* key that has a ride already gets that ride as the answer.
LoadQuote(k, q) ==
    /\ booking[k] = NotBooking
    /\ rides[k] = NoRideYet
    /\ quotes[q] # NoQuote
    /\ clock <= quotes[q].expires
    /\ booking' = [booking EXCEPT ![k] =
        [step |-> "loaded", quote |-> q, price |-> quotes[q].price]]
    /\ UNCHANGED <<clock, rules, quotes, rides>>

\* The INSERT; an active ride or one of this key refuses it.
BookRide(k) ==
    /\ booking[k] # NotBooking
    /\ rides' = IF Riding = {} /\ rides[k] = NoRideYet
                THEN [rides EXCEPT ![k] = [NoRideYet EXCEPT !.state = "matching",
                        !.quote = booking[k].quote, !.price = booking[k].price]]
                ELSE rides
    /\ booking' = [booking EXCEPT ![k] = NotBooking]
    /\ UNCHANGED <<clock, rules, quotes>>

AssignDriver(k) ==
    /\ rides[k].state = "matching"
    /\ rides' = [rides EXCEPT ![k].state = "assigned", ![k].since = clock]
    /\ UNCHANGED <<clock, rules, quotes, booking>>

\* driverTransition to completed: the price as quoted, the commission by the
\* quote's rule.
CompleteRide(k) ==
    /\ rides[k].state = "assigned"
    /\ rides' = [rides EXCEPT ![k].state = "completed", ![k].final = rides[k].price,
                  ![k].commission = Commission(rides[k].price, RuleOf(rides[k].quote).card.commission)]
    /\ UNCHANGED <<clock, rules, quotes, booking>>

\* CancelByCustomer: a fee once the driver has been on his way for longer than
\* the grace.
CancelRide(k) ==
    LET card == RuleOf(rides[k].quote).card IN
    /\ k \in Riding
    /\ rides' = [rides EXCEPT ![k].state = "cancelled",
                  ![k].fee = IF rides[k].state = "assigned" /\ clock - rides[k].since > card.grace
                             THEN card.cancelFee ELSE 0]
    /\ UNCHANGED <<clock, rules, quotes, booking>>

QuotesNext ==
    \/ Tick
    \/ \E a \in Areas, card \in Cards : AddRule(a, card)
    \/ \E r \in rules : EndRule(r)
    \/ \E q \in QuoteIds, p \in Pickups, route \in Routes : TakeQuote(q, p, route)
    \/ \E k \in Keys :
        \/ \E q \in QuoteIds : LoadQuote(k, q)
        \/ BookRide(k) \/ AssignDriver(k) \/ CompleteRide(k) \/ CancelRide(k)

QuotesSpec == QuotesInit /\ [][QuotesNext]_quoteVars

QuotesTypeOK ==
    /\ clock \in 0 .. MaxClock
    /\ rules \subseteq [area : Areas, from : 0 .. MaxClock, until : 0 .. MaxClock + 1, card : Cards]
    /\ \A r, s \in rules : r.area = s.area /\ r.from = s.from => r = s
    /\ \A q \in QuoteIds : quotes[q] # NoQuote => quotes[q].price \in Nat
    /\ \A k \in Keys :
        rides[k].state \in {"none", "matching", "assigned", "completed", "cancelled"}

\* The card a quote was made with.
CardOf(q) == (CHOOSE r \in rules : r.area = quotes[q].area /\ r.from = quotes[q].from).card

\* The fare but for its roundings, upwards to ten cents, and the minimum at least.
PriceIsFair(price, card, route) ==
    /\ price >= card.minimum
    /\ price * PartsOfCent >= Exact(card, route) - Slack(card)
    /\ price > card.minimum => (price - 9) * PartsOfCent <= Exact(card, route) + Slack(card)

\* What the commission leaves of a price, to half a cent.
ShareIsFair(share, price, bp) ==
    /\ share * 10000 <= price * (10000 - bp) + 5000
    /\ price * (10000 - bp) <= share * 10000 + 5000

\* A quote asks for the fare but for its roundings and for the minimum at least
\* (pricing.go:50); and a ride ends at the price and on the terms it was booked
\* with, whatever rules have come or gone in between (driver.go:235,
\* service.go:341): the driver's share is what the quote's commission leaves,
\* and a cancellation costs the quote's fee or nothing; in which of the two cases
\* is CancelByCustomer's, and not said here.
QuotedPriceHolds ==
    /\ \A q \in QuoteIds : quotes[q] # NoQuote =>
        PriceIsFair(quotes[q].price, CardOf(q), quotes[q].route)
    /\ \A k \in Keys : rides[k].state \in {"completed", "cancelled"} =>
        LET card == CardOf(rides[k].quote)
            price == quotes[rides[k].quote].price IN
        /\ rides[k].state = "completed" =>
            /\ rides[k].final = price
            /\ ShareIsFair(rides[k].final - rides[k].commission, price, card.commission)
        /\ rides[k].fee \in {0, card.cancelFee}
=============================================================================
