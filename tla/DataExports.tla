----------------------------- MODULE DataExports -----------------------------
(***************************************************************************)
(* A user's copy of his data: modules/dataexport.  The API records a       *)
(* request, a worker builds the file into the object store, and after a    *)
(* week a worker deletes it.  The row and the object are not written       *)
(* together, several workers run, and any of them may end between two of   *)
(* its steps.                                                              *)
(***************************************************************************)
EXTENDS Naturals, FiniteSets

CONSTANTS
    ExportUsers,
    Exports,            \* every request that can be made
    Asking,             \* Asking[x]: the user whose request x is
    NoExport,
    ExportWorkers

ASSUME ExportsAssumption ==
    /\ Asking \in [Exports -> ExportUsers]
    /\ NoExport \notin Exports

VARIABLES
    export,     \* export[x]: the row's status, and whether its week is over
    files,      \* the objects exports/<user>/<x>.json that exist
    latest,     \* latest[u]: the user's newest row
    building,   \* building[w]: the row a worker builds, and whether the file is put
    sweeping    \* sweeping[w]: rows ExpireOld has read, and the one whose file it deleted

exportVars == <<export, files, latest, building, sweeping>>

NotBuilding == [row |-> NoExport, put |-> FALSE]
NotSweeping == [todo |-> {}, gone |-> NoExport]
OpenExport(x) == export[x].status \in {"pending", "building"}

ExportsInit ==
    /\ export = [x \in Exports |-> [status |-> "none", over |-> FALSE]]
    /\ files = {}
    /\ latest = [u \in ExportUsers |-> NoExport]
    /\ building = [w \in ExportWorkers |-> NotBuilding]
    /\ sweeping = [w \in ExportWorkers |-> NotSweeping]

\* Whether a day has passed since the last request is left open; the unique
\* index refuses a second open request that the check did not see.
RequestExport(x) ==
    LET u == Asking[x] IN
    /\ export[x].status = "none"
    /\ \A y \in Exports : Asking[y] = u => ~OpenExport(y)
    /\ export' = [export EXCEPT ![x].status = "pending"]
    /\ latest' = [latest EXCEPT ![u] = x]
    /\ UNCHANGED <<files, building, sweeping>>

\* FOR UPDATE SKIP LOCKED: one statement finds and takes a pending row.
BuildNext(w, x) ==
    /\ building[w] = NotBuilding
    /\ export[x].status = "pending"
    /\ export' = [export EXCEPT ![x].status = "building"]
    /\ building' = [building EXCEPT ![w].row = x]
    /\ UNCHANGED <<files, latest, sweeping>>

PutFile(w) ==
    /\ building[w].row # NoExport /\ ~building[w].put
    /\ files' = files \cup {building[w].row}
    /\ building' = [building EXCEPT ![w].put = TRUE]
    /\ UNCHANGED <<export, latest, sweeping>>

MarkReady(w) ==
    /\ building[w].put
    /\ export' = [export EXCEPT ![building[w].row] = [status |-> "ready", over |-> FALSE]]
    /\ building' = [building EXCEPT ![w] = NotBuilding]
    /\ UNCHANGED <<files, latest, sweeping>>

\* A query or the upload fails; an upload that fails may have stored the file.
MarkExportFailed(w) ==
    /\ building[w].row # NoExport
    /\ export' = [export EXCEPT ![building[w].row].status = "failed"]
    /\ building' = [building EXCEPT ![w] = NotBuilding]
    /\ UNCHANGED <<files, latest, sweeping>>

\* The worker ends, or the last statement fails: the row stays as it is.
BuilderStops(w) ==
    /\ building[w] # NotBuilding
    /\ building' = [building EXCEPT ![w] = NotBuilding]
    /\ UNCHANGED <<export, files, latest, sweeping>>

RetentionEnds(x) ==
    /\ export[x].status = "ready" /\ ~export[x].over
    /\ export' = [export EXCEPT ![x].over = TRUE]
    /\ UNCHANGED <<files, latest, building, sweeping>>

-----------------------------------------------------------------------------
OverdueExports == {x \in Exports : export[x].status = "ready" /\ export[x].over}

ExpireOld(w) ==
    /\ sweeping[w] = NotSweeping
    /\ OverdueExports # {}
    /\ sweeping' = [sweeping EXCEPT ![w].todo = OverdueExports]
    /\ UNCHANGED <<export, files, latest, building>>

DeleteFile(w, x) ==
    /\ x \in sweeping[w].todo /\ sweeping[w].gone = NoExport
    /\ files' = files \ {x}
    /\ sweeping' = [sweeping EXCEPT ![w].gone = x]
    /\ UNCHANGED <<export, latest, building>>

\* Mutant: the row is marked although its file could not be deleted yet.
MarkExpiredFirst(w) ==
    /\ \E x \in sweeping[w].todo :
        /\ export' = [export EXCEPT ![x].status = "expired"]
        /\ sweeping' = [sweeping EXCEPT ![w].todo = @ \ {x}]
    /\ UNCHANGED <<files, latest, building>>

MarkExpired(w) ==
    LET x == sweeping[w].gone IN
    /\ x # NoExport
    /\ export' = [export EXCEPT ![x].status = "expired"]
    /\ sweeping' = [sweeping EXCEPT ![w] = [todo |-> @.todo \ {x}, gone |-> NoExport]]
    /\ UNCHANGED <<files, latest, building>>

\* A deletion or a statement fails, or the worker ends.
SweeperStops(w) ==
    /\ sweeping[w] # NotSweeping
    /\ sweeping' = [sweeping EXCEPT ![w] = NotSweeping]
    /\ UNCHANGED <<export, files, latest, building>>

ExportsNext ==
    \/ \E x \in Exports :
        \/ RequestExport(x) \/ RetentionEnds(x)
        \/ \E w \in ExportWorkers : BuildNext(w, x) \/ DeleteFile(w, x)
    \/ \E w \in ExportWorkers :
        \/ PutFile(w) \/ MarkReady(w) \/ MarkExportFailed(w) \/ BuilderStops(w)
        \/ ExpireOld(w) \/ MarkExpired(w) \/ SweeperStops(w)

ExportsSpec == ExportsInit /\ [][ExportsNext]_exportVars

-----------------------------------------------------------------------------
ExportsTypeOK ==
    /\ export \in [Exports -> [status : {"none", "pending", "building", "ready", "failed", "expired"},
                               over : BOOLEAN]]
    /\ files \subseteq Exports
    /\ latest \in [ExportUsers -> Exports \cup {NoExport}]
    /\ building \in [ExportWorkers -> [row : Exports \cup {NoExport}, put : BOOLEAN]]
    /\ sweeping \in [ExportWorkers -> [todo : SUBSET Exports, gone : Exports \cup {NoExport}]]

\* What Latest shows: a ready file whose week is over counts as expired.
ShownStatus(x) == IF export[x].status = "ready" /\ export[x].over THEN "expired" ELSE export[x].status

(***************************************************************************)
(* Whatever the workers do at once and wherever one ends: a user who is    *)
(* given a link finds the file; a row that says expired has no file left   *)
(* (dataexport.go:287-288); a request has one builder; a user has one open *)
(* request at most, and it is his newest.                                  *)
(***************************************************************************)
ExportsKeepTheirWord ==
    /\ \A x \in Exports :
        /\ ShownStatus(x) = "ready" => x \in files
        /\ export[x].status = "expired" => x \notin files
        /\ OpenExport(x) => latest[Asking[x]] = x
    /\ \A v, w \in ExportWorkers :
        building[v].row = building[w].row /\ v # w => building[v].row = NoExport
=============================================================================
