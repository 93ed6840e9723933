------------------------------- MODULE Reviews -------------------------------
\* Reviews of rides and orders (modules/reviews): the two parties of a ride
\* review each other, the customer of an order reviews the merchant, and the
\* sum and the number of somebody's ratings are kept in his own row.
\*
\* A trip is a ride or an order.  A person has one aggregate: one who is both a
\* customer and a driver has two in the code, and is two people here.  A review
\* is one transaction that locks the trip, inserts the review under its unique
\* index, and adds to the aggregate, whose row it then holds until it commits.
EXTENDS FiniteSets, FiniteSetsExt, Integers

CONSTANTS Trips, RideTrips, People,
          Reviewing,   \* of each trip, who reviews whom
          Posters,     \* the requests
          NoTrip, NoPerson,
          Ratings

ASSUME ReviewsAssumption ==
    /\ NoTrip \notin Trips /\ Ratings \subseteq Nat
    /\ \A t \in Trips : \A u \in DOMAIN Reviewing[t] : u \in People /\ Reviewing[t][u] \in People

VARIABLES window,      \* of each trip: not ended, inside its ReviewWindow, after it
          reviewed,    \* rows of ride_reviews and order_reviews
          aggregates,  \* rating_sum and rating_count of a person
          posts        \* the transactions

reviewVars == <<window, reviewed, aggregates, posts>>

NoPost == [phase |-> "none", trip |-> NoTrip, by |-> NoPerson, of |-> NoPerson,
           rating |-> 0, total |-> [sum |-> 0, count |-> 0]]

ReviewsInit ==
    /\ window = [t \in Trips |-> "running"]
    /\ reviewed = {}
    /\ aggregates = [u \in People |-> [sum |-> 0, count |-> 0]]
    /\ posts = [q \in Posters |-> NoPost]

\* The ride is completed or the order delivered; a week later it is too late.
TripEnds(t) ==
    /\ window[t] = "running"
    /\ window' = [window EXCEPT ![t] = "reviewable"]
    /\ UNCHANGED <<reviewed, aggregates, posts>>

WindowCloses(t) ==
    /\ window[t] = "reviewable"
    /\ window' = [window EXCEPT ![t] = "over"]
    /\ UNCHANGED <<reviewed, aggregates, posts>>

\* Create and CreateForOrder begin: SELECT ... FOR UPDATE, and the reviewee.
LockTrip(q, t, u, n) ==
    /\ posts[q] = NoPost
    /\ window[t] = "reviewable"
    /\ \A other \in Posters : posts[other].trip # t
    /\ posts' = [posts EXCEPT ![q] =
        [NoPost EXCEPT !.phase = "locked", !.trip = t, !.by = u, !.of = Reviewing[t][u], !.rating = n]]
    /\ UNCHANGED <<window, reviewed, aggregates>>

\* UNIQUE (trip, reviewer): a second review is refused.
Insert(q) ==
    /\ posts[q].phase = "locked"
    /\ \A row \in reviewed : row.trip = posts[q].trip => row.by # posts[q].by
    /\ posts' = [posts EXCEPT ![q].phase = "inserted"]
    /\ UNCHANGED <<window, reviewed, aggregates>>

Added(q) == [sum |-> aggregates[posts[q].of].sum + posts[q].rating,
             count |-> aggregates[posts[q].of].count + 1]

\* Mutant: the aggregate is read and written without its row's lock.
AggregateUnlocked(q) ==
    /\ posts[q].phase = "inserted"
    /\ posts' = [posts EXCEPT ![q].phase = "counted", ![q].total = Added(q)]
    /\ UNCHANGED <<window, reviewed, aggregates>>

\* UPDATE ... SET rating_sum = rating_sum + $2 waits for whoever has the row.
Aggregate(q) ==
    /\ posts[q].phase = "inserted"
    /\ \A other \in Posters : posts[other].phase = "counted" => posts[other].of # posts[q].of
    /\ posts' = [posts EXCEPT ![q].phase = "counted", ![q].total = Added(q)]
    /\ UNCHANGED <<window, reviewed, aggregates>>

CommitReview(q) ==
    /\ posts[q].phase = "counted"
    /\ reviewed' = reviewed \cup
        {[trip |-> posts[q].trip, by |-> posts[q].by, of |-> posts[q].of,
          rating |-> posts[q].rating, status |-> "visible"]}
    /\ aggregates' = [aggregates EXCEPT ![posts[q].of] = posts[q].total]
    /\ posts' = [posts EXCEPT ![q] = NoPost]
    /\ UNCHANGED window

\* Refused, failed or dead at any statement.
RollBackReview(q) ==
    /\ posts[q] # NoPost
    /\ posts' = [posts EXCEPT ![q] = NoPost]
    /\ UNCHANGED <<window, reviewed, aggregates>>

\* Report, by the person reviewed; only rides' reviews can be reported.
ReportReview(row) ==
    /\ row.trip \in RideTrips /\ row.status = "visible"
    /\ reviewed' = (reviewed \ {row}) \cup {[row EXCEPT !.status = "flagged"]}
    /\ UNCHANGED <<window, aggregates, posts>>

ReviewsNext ==
    \/ \E t \in Trips : TripEnds(t) \/ WindowCloses(t)
    \/ \E q \in Posters :
        \/ \E t \in Trips, n \in Ratings : \E u \in DOMAIN Reviewing[t] : LockTrip(q, t, u, n)
        \/ Insert(q) \/ Aggregate(q) \/ CommitReview(q) \/ RollBackReview(q)
    \/ \E row \in reviewed : ReportReview(row)

ReviewsSpec == ReviewsInit /\ [][ReviewsNext]_reviewVars

ReviewsTypeOK ==
    /\ window \in [Trips -> {"running", "reviewable", "over"}]
    /\ reviewed \subseteq [trip : Trips, by : People, of : People, rating : Ratings,
                           status : {"visible", "flagged"}]
    /\ \A u \in People : aggregates[u].sum \in Nat /\ aggregates[u].count \in Nat
    /\ \A q \in Posters :
        posts[q].phase \in {"none", "locked", "inserted", "counted"}

\* Review and aggregate are written together, for otherwise there would be two
\* truths about one thing (reviews/orders.go:44): whoever reviews at the same
\* time, and whatever is refused or rolled back, a person's aggregate is the
\* sum and the number of the reviews of him, one per trip and reviewer.
RatingsAddUp ==
    \A u \in People :
        LET of == {row \in reviewed : row.of = u} IN
        /\ aggregates[u].count = Cardinality({<<row.trip, row.by>> : row \in of})
        /\ aggregates[u].count = Cardinality(of)
        /\ aggregates[u].sum = MapThenSumSet(LAMBDA row : row.rating, of)
=============================================================================
