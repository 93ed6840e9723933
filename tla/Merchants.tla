------------------------------ MODULE Merchants ------------------------------
\* A merchant's status, staff and opening hours (modules/merchants), and the
\* rule by which a checkout asks whether he is open (modules/orders).
\*
\* An entry of the hours has a weekday, 0 to 6, and two minutes of the day; one
\* that does not close later than it opens passes midnight.  Requests of the
\* staff look up a role first, in a statement of their own, and write later.
EXTENDS Integers

CONSTANTS DayMinutes,   \* the minutes of a day
          Staff, Owner,
          Timetables,   \* what SetHours may be sent: sets of entries
          Editors,      \* the requests
          NoTimetable

ASSUME MerchantsAssumption == DayMinutes \in Nat \ {0} /\ Owner \in Staff

VARIABLES status, accepting,
          hours,    \* merchant_hours
          roles,    \* merchant_staff
          edits     \* the requests

merchantVars == <<status, accepting, hours, roles, edits>>

Statuses == {"pending", "active", "paused", "suspended"}
Days == 0 .. 6
Minutes == 0 .. DayMinutes - 1
Hours == [weekday : Days, opens : Minutes, closes : Minutes]

ASSUME TimetablesAssumption == Timetables \subseteq SUBSET Hours

(***************************************************************************)
(* The two rules for being open, and what they ought to say.               *)
(***************************************************************************)
Yesterday(day) == (day + 6) % 7

\* Mutant: midnight is passed only by entries that close before they open.
OpenAtStrictly(table, day, minute) ==
    \E h \in table :
        IF h.closes >= h.opens
        THEN h.weekday = day /\ minute >= h.opens /\ minute < h.closes
        ELSE \/ h.weekday = day /\ minute >= h.opens
             \/ h.weekday = Yesterday(day) /\ minute < h.closes

\* merchants.OpenAt.
OpenAt(table, day, minute) ==
    \E h \in table :
        IF h.closes > h.opens
        THEN h.weekday = day /\ minute >= h.opens /\ minute < h.closes
        ELSE \/ h.weekday = day /\ minute >= h.opens
             \/ h.weekday = Yesterday(day) /\ minute < h.closes

\* orders.openNow, the condition of its SELECT.
OpenNow(table, day, minute) ==
    \E h \in table :
        \/ h.closes > h.opens /\ h.weekday = day /\ minute >= h.opens /\ minute < h.closes
        \/ /\ h.closes <= h.opens
           /\ \/ h.weekday = day /\ minute >= h.opens
              \/ h.weekday = (day + 6) % 7 /\ minute < h.closes

\* An entry is meant to hold for the minutes from its opening to the first
\* closing after it, on the circle of the week.
Length(h) == IF h.closes > h.opens THEN h.closes - h.opens ELSE h.closes - h.opens + DayMinutes

Since(h, day, minute) == (day - h.weekday) * DayMinutes + minute - h.opens

Meant(h, day, minute) ==
    LET since == Since(h, day, minute) IN
    IF since >= 0 THEN since < Length(h) ELSE since + 7 * DayMinutes < Length(h)

(***************************************************************************)
(* The requests.                                                           *)
(***************************************************************************)
NoRequest == [phase |-> "none", sent |-> NoTimetable, gone |-> {}]

\* Apply: the merchant and its owner.
MerchantsInit ==
    /\ status = "pending"
    /\ accepting \in BOOLEAN
    /\ hours = {}
    /\ roles = [u \in Staff |-> IF u = Owner THEN "owner" ELSE "none"]
    /\ edits = [q \in Editors |-> NoRequest]

\* SetStatus, by Operations.
SetStatus(s) ==
    /\ status' = s
    /\ UNCHANGED <<accepting, hours, roles, edits>>

Authorised(q, u, allowed) ==
    /\ edits[q] = NoRequest
    /\ roles[u] \in allowed

\* requireRole of SetHours, UpdateProfile, AddStaff and RemoveStaff.
AskSetHours(q, u, table) ==
    /\ Authorised(q, u, {"owner", "manager"})
    /\ edits' = [edits EXCEPT ![q] = [NoRequest EXCEPT !.phase = "hours", !.sent = table]]
    /\ UNCHANGED <<status, accepting, hours, roles>>

AskUpdateProfile(q, u) ==
    /\ Authorised(q, u, {"owner", "manager"})
    /\ edits' = [edits EXCEPT ![q] = [NoRequest EXCEPT !.phase = "profile"]]
    /\ UNCHANGED <<status, accepting, hours, roles>>

AskStaff(q, u) ==
    /\ Authorised(q, u, {"owner"})
    /\ edits' = [edits EXCEPT ![q] = [NoRequest EXCEPT !.phase = "staff"]]
    /\ UNCHANGED <<status, accepting, hours, roles>>

\* DELETE: it sees the entries that are committed when it begins, and waits for
\* a transaction that is deleting some of them.
SeeHours(q) ==
    /\ edits[q].phase = "hours"
    /\ edits' = [edits EXCEPT ![q].phase = "deleting", ![q].gone = hours]
    /\ UNCHANGED <<status, accepting, hours, roles>>

DeleteHours(q) ==
    /\ edits[q].phase = "deleting"
    /\ \A other \in Editors :
        edits[other].phase = "deleted" => edits[other].gone \cap edits[q].gone = {}
    /\ edits' = [edits EXCEPT ![q].phase = "deleted", ![q].gone = @ \cap hours]
    /\ UNCHANGED <<status, accepting, hours, roles>>

SameKey(h, k) == h.weekday = k.weekday /\ h.opens = k.opens

\* INSERT ... ON CONFLICT (weekday, opens) DO NOTHING, and COMMIT.  It waits for
\* whoever is deleting an entry of the same key.
InsertHours(q) ==
    LET left == hours \ edits[q].gone IN
    /\ edits[q].phase = "deleted"
    /\ \A other \in Editors \ {q} : edits[other].phase = "deleted" =>
        \A h \in edits[q].sent, k \in edits[other].gone : ~SameKey(h, k)
    /\ \E new \in SUBSET edits[q].sent :
        /\ hours' = left \cup new
        /\ \A h \in edits[q].sent : \E one \in hours' : SameKey(h, one)
        /\ \A h, k \in hours' : SameKey(h, k) => h = k
    /\ edits' = [edits EXCEPT ![q] = NoRequest]
    /\ UNCHANGED <<status, accepting, roles>>

UpdateProfile(q) ==
    /\ edits[q].phase = "profile"
    /\ accepting' \in BOOLEAN
    /\ edits' = [edits EXCEPT ![q] = NoRequest]
    /\ UNCHANGED <<status, hours, roles>>

\* Mutant: the owner's row is overwritten like any other.
AddStaffAnyone(q, u, role) ==
    /\ edits[q].phase = "staff"
    /\ roles' = [roles EXCEPT ![u] = role]
    /\ edits' = [edits EXCEPT ![q] = NoRequest]
    /\ UNCHANGED <<status, accepting, hours>>

\* AddStaff, and RemoveStaff for the role "none": neither touches an owner.
AddStaff(q, u, role) ==
    /\ edits[q].phase = "staff"
    /\ roles' = IF roles[u] = "owner" THEN roles ELSE [roles EXCEPT ![u] = role]
    /\ edits' = [edits EXCEPT ![q] = NoRequest]
    /\ UNCHANGED <<status, accepting, hours>>

EditFails(q) ==
    /\ edits[q] # NoRequest
    /\ edits' = [edits EXCEPT ![q] = NoRequest]
    /\ UNCHANGED <<status, accepting, hours, roles>>

\* Discover and BySlug: the places that are listed as open.
ShownOpen(day, minute) ==
    status = "active" /\ accepting /\ OpenAt(hours, day, minute)

\* price and Checkout of orders: those that may be ordered from.
TakesOrders(day, minute) ==
    status = "active" /\ accepting /\ OpenNow(hours, day, minute)

MerchantsNext ==
    \/ \E s \in Statuses \ {"pending"} : SetStatus(s)
    \/ \E q \in Editors :
        \/ \E u \in Staff :
            \/ \E table \in Timetables : AskSetHours(q, u, table)
            \/ AskUpdateProfile(q, u) \/ AskStaff(q, u)
            \/ \E role \in {"manager", "staff", "none"} : AddStaff(q, u, role)
        \/ SeeHours(q) \/ DeleteHours(q) \/ InsertHours(q) \/ UpdateProfile(q) \/ EditFails(q)

MerchantsSpec == MerchantsInit /\ [][MerchantsNext]_merchantVars

\* The owner is the one member of the staff with his role, and stays it.
MerchantsTypeOK ==
    /\ status \in Statuses
    /\ accepting \in BOOLEAN
    /\ hours \subseteq Hours
    /\ roles \in [Staff -> {"owner", "manager", "staff", "none"}]
    /\ \A u \in Staff : roles[u] = "owner" <=> u = Owner
    /\ \A q \in Editors :
        edits[q].phase \in {"none", "hours", "deleting", "deleted", "profile", "staff"}

\* A customer is shown a place as open exactly when he can order from it: the
\* two modules have a rule each (orders.go:203 says they are the same).  And it
\* is open as its people mean it: Operations has it active, it accepts orders,
\* and some entry of the hours that are left is running, from its opening to
\* the first closing after it, across midnight and from one week into the next.
\* One rule reads Go's clock and the other that of the Postgres session; the
\* deployment has both in UTC, and they are one here.
OpensAsWritten ==
    \A day \in Days, minute \in Minutes :
        /\ ShownOpen(day, minute) <=>
              status = "active" /\ accepting /\ \E h \in hours : Meant(h, day, minute)
        /\ TakesOrders(day, minute) <=> ShownOpen(day, minute)
=============================================================================
