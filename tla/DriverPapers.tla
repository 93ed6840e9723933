----------------------------- MODULE DriverPapers ----------------------------
(***************************************************************************)
(* Who may drive: modules/documents and the approval in modules/drivers.   *)
(* A driver confirms uploads, Operations review them and approve him, the  *)
(* hourly sweep expires papers and suspends whoever lost a required one.   *)
(* Approve and ExpireSweep are several transactions; what they checked may *)
(* have changed when they write.                                           *)
(***************************************************************************)
EXTENDS Integers

CONSTANTS
    PaperDrivers, NoPaperDriver,
    RequiredTypes, TaxiTypes, ExpiringTypes,    \* the rules of Types
    Papers,         \* uploads, as numbers: a larger one was confirmed later
    OwnerOf, TypeOf \* OwnerOf[p], TypeOf[p]: whose upload and what paper it is

ASSUME PapersAssumption ==
    /\ NoPaperDriver \notin PaperDrivers
    /\ Papers \subseteq Nat
    /\ OwnerOf \in [Papers -> PaperDrivers]
    /\ TypeOf \in [Papers -> RequiredTypes \cup TaxiTypes]

VARIABLES
    paper,      \* paper[p]: the row's status, how far the expiry date is (0 valid,
                \* 1 reached, 2 past), and whether Operations ever approved it
    confirming, \* uploads whose transaction of Confirm is open
    replacing,  \* replacing[p]: the rows that it replaces
    driver,     \* driver[d]: status, whether his categories have taxi, capabilities
    approving,  \* approving[d]: where a call of Approve is, and the taxi it was given
    sweep       \* where ExpireSweep is: drivers left, and the one it will suspend

paperVars == <<paper, confirming, replacing, driver, approving, sweep>>

Types == RequiredTypes \cup TaxiTypes
Current == {"pending", "approved", "rejected", "expired"}
RowsLike(p) == {q \in Papers : OwnerOf[q] = OwnerOf[p] /\ TypeOf[q] = TypeOf[p]}

PapersInit ==
    /\ paper = [p \in Papers |-> [status |-> "none", age |-> 0, vetted |-> FALSE]]
    /\ confirming = {}
    /\ replacing = [p \in Papers |-> {}]
    /\ driver = [d \in PaperDrivers |-> [status |-> "none", taxi |-> FALSE, caps |-> {}]]
    /\ approving = [d \in PaperDrivers |-> [step |-> "no", taxi |-> FALSE]]
    /\ sweep = [todo |-> {}, at |-> NoPaperDriver]

-----------------------------------------------------------------------------
\* Apply, or CreateFor by Operations: only while the profile is pending.
ApplyAsDriver(d, taxi) ==
    /\ driver[d].status \in {"none", "pending"}
    /\ driver' = [driver EXCEPT ![d] = [@ EXCEPT !.status = "pending", !.taxi = taxi]]
    /\ UNCHANGED <<paper, confirming, replacing, approving, sweep>>

\* Confirm's first statement replaces the rows of the type that it sees.
ConfirmReplaces(p) ==
    /\ driver[OwnerOf[p]].status # "none"
    /\ \A q \in RowsLike(p) : q >= p => paper[q].status = "none" /\ q \notin confirming
    /\ confirming' = confirming \cup {p}
    /\ replacing' = [replacing EXCEPT ![p] = {q \in RowsLike(p) : paper[q].status \in Current}]
    /\ UNCHANGED <<paper, driver, approving, sweep>>

\* The new row waits for the review; a row another Confirm inserted meanwhile stays.
ConfirmPaperCommits(p) ==
    /\ p \in confirming
    /\ paper' = [q \in Papers |->
          IF q = p THEN [paper[q] EXCEPT !.status = "pending"]
          ELSE IF q \in replacing[p] THEN [paper[q] EXCEPT !.status = "replaced"]
          ELSE paper[q]]
    /\ confirming' = confirming \ {p}
    /\ replacing' = [replacing EXCEPT ![p] = {}]
    /\ UNCHANGED <<driver, approving, sweep>>

\* Operations approve or reject; nothing looks at the expiry date.
Review(p, status) ==
    /\ paper[p].status = "pending"
    /\ paper' = [paper EXCEPT ![p].status = status, ![p].vetted = @ \/ status = "approved"]
    /\ UNCHANGED <<confirming, replacing, driver, approving, sweep>>

\* A day passes: first Eligible no longer counts the paper, then the sweep takes it.
GrowsOld(p) ==
    /\ TypeOf[p] \in ExpiringTypes
    /\ paper[p].status \in {"pending", "approved"} /\ paper[p].age < 2
    /\ paper' = [paper EXCEPT ![p].age = @ + 1]
    /\ UNCHANGED <<confirming, replacing, driver, approving, sweep>>

-----------------------------------------------------------------------------
\* Mutant: a paper that waits for its review counts.
ApprovedOrPending(d, t) ==
    {p \in Papers : OwnerOf[p] = d /\ TypeOf[p] = t /\ paper[p].status \in {"approved", "pending"}}

\* List walks the rows of a type from the newest; the last approved one decides.
Approved(d, t) ==
    {p \in Papers : OwnerOf[p] = d /\ TypeOf[p] = t /\ paper[p].status = "approved"}

Holds(d, t) ==
    \E p \in Approved(d, t) : paper[p].age = 0 /\ \A q \in Approved(d, t) : q >= p

RequiredFor(d) == IF driver[d].taxi THEN Types ELSE RequiredTypes

Eligible(d) == \A t \in RequiredFor(d) : Holds(d, t)

\* Approve writes the new categories before the check, in a statement of its own.
ApproveWrites(d, taxi) ==
    /\ driver[d].status # "none" /\ approving[d].step = "no"
    /\ driver' = [driver EXCEPT ![d].taxi = taxi]
    /\ approving' = [approving EXCEPT ![d] = [step |-> "check", taxi |-> taxi]]
    /\ UNCHANGED <<paper, confirming, replacing, sweep>>

\* A refused approval returns DOCUMENTS_INCOMPLETE; the categories stay.
ApproveChecks(d) ==
    /\ approving[d].step = "check"
    /\ approving' = [approving EXCEPT ![d].step = IF Eligible(d) THEN "commit" ELSE "no"]
    /\ UNCHANGED <<paper, confirming, replacing, driver, sweep>>

\* One transaction: status, categories and the capabilities, which only grow here.
ApproveCommits(d) ==
    /\ approving[d].step = "commit"
    /\ driver' = [driver EXCEPT ![d] =
          [status |-> "approved", taxi |-> approving[d].taxi,
           caps |-> @.caps \cup {"RIDE_DRIVER"}
                        \cup IF approving[d].taxi THEN {"TAXI_DRIVER"} ELSE {}]]
    /\ approving' = [approving EXCEPT ![d].step = "no"]
    /\ UNCHANGED <<paper, confirming, replacing, sweep>>

ApproveFails(d) ==
    /\ approving[d].step \in {"check", "commit"}
    /\ approving' = [approving EXCEPT ![d].step = "no"]
    /\ UNCHANGED <<paper, confirming, replacing, driver, sweep>>

Suspended(d) == [driver[d] EXCEPT !.status = "suspended", !.caps = {}]

\* Operations suspend any driver, whatever his status.
Suspend(d) ==
    /\ driver[d].status # "none"
    /\ driver' = [driver EXCEPT ![d] = Suspended(d)]
    /\ UNCHANGED <<paper, confirming, replacing, approving, sweep>>

-----------------------------------------------------------------------------
Lapsed == {p \in Papers : paper[p].status = "approved" /\ paper[p].age = 2}

\* ExpireSweep's first statement; whom it concerns is only in memory.
SweepExpires ==
    /\ sweep.todo = {} /\ sweep.at = NoPaperDriver
    /\ Lapsed # {}
    /\ paper' = [p \in Papers |->
          IF p \in Lapsed THEN [paper[p] EXCEPT !.status = "expired"] ELSE paper[p]]
    /\ sweep' = [sweep EXCEPT !.todo = {OwnerOf[p] : p \in Lapsed}]
    /\ UNCHANGED <<confirming, replacing, driver, approving>>

SweepChecks(d) ==
    /\ sweep.at = NoPaperDriver /\ d \in sweep.todo
    /\ sweep' = [todo |-> sweep.todo \ {d}, at |-> IF Eligible(d) THEN NoPaperDriver ELSE d]
    /\ UNCHANGED <<paper, confirming, replacing, driver, approving>>

SweepSuspends ==
    /\ sweep.at # NoPaperDriver
    /\ driver' = IF driver[sweep.at].status = "approved"
                 THEN [driver EXCEPT ![sweep.at] = Suspended(sweep.at)] ELSE driver
    /\ sweep' = [sweep EXCEPT !.at = NoPaperDriver]
    /\ UNCHANGED <<paper, confirming, replacing, approving>>

\* A query fails or the worker ends: the drivers left are forgotten.
SweepStops ==
    /\ sweep.todo # {} \/ sweep.at # NoPaperDriver
    /\ sweep' = [todo |-> {}, at |-> NoPaperDriver]
    /\ UNCHANGED <<paper, confirming, replacing, driver, approving>>

PapersNext ==
    \/ \E p \in Papers :
        \/ ConfirmReplaces(p) \/ ConfirmPaperCommits(p) \/ GrowsOld(p)
        \/ \E status \in {"approved", "rejected"} : Review(p, status)
    \/ \E d \in PaperDrivers :
        \/ \E taxi \in BOOLEAN : ApplyAsDriver(d, taxi) \/ ApproveWrites(d, taxi)
        \/ ApproveChecks(d) \/ ApproveCommits(d) \/ ApproveFails(d)
        \/ Suspend(d) \/ SweepChecks(d)
    \/ SweepExpires \/ SweepSuspends \/ SweepStops

PapersSpec == PapersInit /\ [][PapersNext]_paperVars

-----------------------------------------------------------------------------
PapersTypeOK ==
    /\ paper \in [Papers -> [status : {"none", "replaced"} \cup Current, age : 0 .. 2, vetted : BOOLEAN]]
    /\ confirming \subseteq Papers
    /\ replacing \in [Papers -> SUBSET Papers]
    /\ driver \in [PaperDrivers -> [status : {"none", "pending", "approved", "suspended"},
                                    taxi : BOOLEAN, caps : SUBSET {"RIDE_DRIVER", "TAXI_DRIVER"}]]
    /\ approving \in [PaperDrivers -> [step : {"no", "check", "commit"}, taxi : BOOLEAN]]
    /\ sweep \in [todo : SUBSET PaperDrivers, at : PaperDrivers \cup {NoPaperDriver}]

WasVetted(d, t) == \E p \in Papers : OwnerOf[p] = d /\ TypeOf[p] = t /\ paper[p].vetted

(***************************************************************************)
(* However uploads, reviews, approvals and the sweep interleave: an        *)
(* approved driver once had every paper required of all approved by        *)
(* Operations, and the capabilities follow his status (a suspended driver  *)
(* has none, an approved one drives, nobody else does).                    *)
(***************************************************************************)
ApprovedWasVetted ==
    \A d \in PaperDrivers :
        /\ driver[d].status = "approved" =>
               /\ "RIDE_DRIVER" \in driver[d].caps
               /\ \A t \in RequiredTypes : WasVetted(d, t)
        /\ driver[d].caps # {} => driver[d].status = "approved"

(***************************************************************************)
(* "kategoritë e reja (p.sh. taxi) ndikojnë në dokumentet e kërkuara —     *)
(* ruhen para kontrollit" (drivers.go:302): whoever is a TAXI_DRIVER had a *)
(* taxi permit that Operations approved.                                   *)
(***************************************************************************)
TaxiDriversHadPermit ==
    \A d \in PaperDrivers :
        "TAXI_DRIVER" \in driver[d].caps => \A t \in TaxiTypes : WasVetted(d, t)
=============================================================================
