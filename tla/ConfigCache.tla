----------------------------- MODULE ConfigCache -----------------------------
\* Versions and feature flags (modules/appconfig/appconfig.go): two tables that
\* the console changes, and a snapshot of both that every instance of the API
\* keeps for CacheTTL.  Requests load it at the same time, each with a query
\* per table and without a lock; an administrator's change empties the snapshot
\* of his own instance only, after its transaction has committed.
\*
\* A version is a number, and CompareVersions the order of the numbers.  The
\* state "recommended" of PublicConfig is "ok" here.
EXTENDS Integers, Sequences

CONSTANTS Instances, ConfigReaders,
          VersionRows,     \* contents of the client's row: [maintenance, min]
          FlagRows,        \* contents of a flag: [enabled, rollout]
          FirstVersions, FirstFlags,
          ClientVersion,   \* X-App-Version
          Bucket,          \* of the user, 0 .. 99
          CacheTTL,
          NoSnapshot, NoInstance,
          NoRow,           \* a result that broke off before the row
          MaxConfigTime, MaxConfigChanges   \* bounds

\* CacheTTL is 30 seconds (appconfig.go:27); the rest says what the names mean.
ASSUME ConfigAssumption ==
    /\ CacheTTL \in Nat \ {0} /\ MaxConfigTime \in Nat
    /\ FirstVersions \in VersionRows /\ FirstFlags \in FlagRows
    /\ NoRow \notin VersionRows \cup FlagRows

VARIABLES configTime,
          rows,        \* of each table, its contents so far: [row, since]
          snaps,       \* of each instance
          readers,     \* the requests
          toEmpty      \* instances with a change committed and Invalidate ahead

configVars == <<configTime, rows, snaps, readers, toEmpty>>

Tables == {"versions", "flags"}
Kinds == {"gate", "enabled", "config"}
States == {"maintenance", "required", "ok", "unknown"}
Phases == {"idle", "versions", "flags", "store", "again", "done"}

Current(t) == rows[t][Len(rows[t])].row

ConfigInit ==
    /\ configTime = 0
    /\ rows = [versions |-> <<[row |-> FirstVersions, since |-> 0]>>,
              flags |-> <<[row |-> FirstFlags, since |-> 0]>>]
    /\ snaps = [i \in Instances |-> NoSnapshot]
    /\ readers = [r \in ConfigReaders |->
        [phase |-> "idle", kind |-> "gate", at |-> NoInstance, began |-> 0, draft |-> NoSnapshot,
         state |-> {}, flag |-> {}, failed |-> FALSE]]
    /\ toEmpty = {}

\* What Check and PublicConfig make of the client's row; Check lets a client of
\* whom the snapshot knows nothing pass.
UpdateState(v) ==
    CASE v = NoRow -> "unknown"
      [] v # NoRow /\ v.maintenance -> "maintenance"
      [] v # NoRow /\ ~v.maintenance /\ ClientVersion < v.min -> "required"
      [] OTHER -> "ok"

\* The rollout of a flag is decided by the hash of its key and the user.
RolledOut(f) == f # NoRow /\ f.enabled /\ Bucket < f.rollout

\* A request goes on with a snapshot: Check reads the versions, Enabled the
\* flags, and PublicConfig the versions and then, with Enabled's own load, the
\* flags it has found.  failed remembers an answer that rests on a result that broke off.
With(q, snap) ==
    LET versions == [q EXCEPT !.state = {UpdateState(snap.versions)},
                              !.failed = @ \/ snap.versions = NoRow] IN
    CASE q.kind = "gate" -> [versions EXCEPT !.phase = "done"]
      [] q.kind = "config" /\ q.state = {} ->
            [versions EXCEPT !.phase = IF snap.flags = NoRow THEN "done" ELSE "again"]
      [] OTHER -> [q EXCEPT !.flag = {RolledOut(snap.flags)}, !.phase = "done",
                            !.failed = @ \/ snap.flags = NoRow]

Fresh(snap) == snap # NoSnapshot /\ configTime - snap.loadedAt < CacheTTL

\* load: the snapshot of the instance, or a new one, stamped before its queries.
Loaded(q) ==
    IF Fresh(snaps[q.at])
    THEN With(q, snaps[q.at])
    ELSE [q EXCEPT !.phase = "versions", !.draft = [loadedAt |-> configTime]]

Ask(r, kind, i) ==
    /\ readers[r].phase = "idle"
    /\ readers' = [readers EXCEPT ![r] =
        Loaded([@ EXCEPT !.kind = kind, !.at = i, !.began = configTime])]
    /\ UNCHANGED <<configTime, rows, snaps, toEmpty>>

AskAgain(r) ==
    /\ readers[r].phase = "again"
    /\ readers' = [readers EXCEPT ![r] = Loaded(@)]
    /\ UNCHANGED <<configTime, rows, snaps, toEmpty>>

\* The loops over the rows end at the last one or where the result breaks off;
\* load does not ask which (rows.Err).
ReadVersions(r) ==
    /\ readers[r].phase = "versions"
    /\ \E v \in {Current("versions"), NoRow} :
        readers' = [readers EXCEPT ![r].phase = "flags",
                        ![r].draft = [loadedAt |-> @.loadedAt, versions |-> v]]
    /\ UNCHANGED <<configTime, rows, snaps, toEmpty>>

ReadFlags(r) ==
    /\ readers[r].phase = "flags"
    /\ \E f \in {Current("flags"), NoRow} :
        readers' = [readers EXCEPT ![r].phase = "store",
                        ![r].draft = [loadedAt |-> @.loadedAt, versions |-> @.versions, flags |-> f]]
    /\ UNCHANGED <<configTime, rows, snaps, toEmpty>>

\* Mutant: the snapshot is stamped when it is stored.
StoreStamped(r) ==
    LET q == readers[r]
        snap == [q.draft EXCEPT !.loadedAt = configTime] IN
    /\ q.phase = "store"
    /\ snaps' = [snaps EXCEPT ![q.at] = snap]
    /\ readers' = [readers EXCEPT ![r] = With([q EXCEPT !.draft = NoSnapshot], snap)]
    /\ UNCHANGED <<configTime, rows, toEmpty>>

\* The snapshot replaces whatever the instance has by then.
Store(r) ==
    LET q == readers[r] IN
    /\ q.phase = "store"
    /\ snaps' = [snaps EXCEPT ![q.at] = q.draft]
    /\ readers' = [readers EXCEPT ![r] = With([q EXCEPT !.draft = NoSnapshot], q.draft)]
    /\ UNCHANGED <<configTime, rows, toEmpty>>

\* A query fails: the gate lets the request pass, a flag counts as off, and
\* PublicConfig answers with an error unless it has the versions.
LoadFails(r) ==
    LET q == [readers[r] EXCEPT !.phase = "done", !.draft = NoSnapshot, !.failed = TRUE] IN
    /\ readers[r].phase \in {"versions", "flags"}
    /\ readers' = [readers EXCEPT ![r] =
        IF q.kind = "gate" THEN [q EXCEPT !.state = {"ok"}]
        ELSE IF q.kind = "enabled" \/ q.state # {} THEN [q EXCEPT !.flag = {FALSE}]
        ELSE q]
    /\ UNCHANGED <<configTime, rows, snaps, toEmpty>>

\* SetVersion and SetFlag, of an administrator that instance i answers.
Change(t, row, i) ==
    /\ i \notin toEmpty
    /\ Len(rows["versions"]) + Len(rows["flags"]) - 2 < MaxConfigChanges
    /\ rows' = [rows EXCEPT ![t] = Append(@, [row |-> row, since |-> configTime])]
    /\ toEmpty' = toEmpty \cup {i}
    /\ UNCHANGED <<configTime, snaps, readers>>

SetVersion(i) == \E v \in VersionRows : Change("versions", v, i)

SetFlag(i) == \E f \in FlagRows : Change("flags", f, i)

Invalidate(i) ==
    /\ i \in toEmpty
    /\ snaps' = [snaps EXCEPT ![i] = NoSnapshot]
    /\ toEmpty' = toEmpty \ {i}
    /\ UNCHANGED <<configTime, rows, readers>>

ConfigTick ==
    /\ configTime < MaxConfigTime
    /\ configTime' = configTime + 1
    /\ UNCHANGED <<rows, snaps, readers, toEmpty>>

ConfigNext ==
    \/ \E r \in ConfigReaders :
        \/ \E kind \in Kinds, i \in Instances : Ask(r, kind, i)
        \/ AskAgain(r) \/ ReadVersions(r) \/ ReadFlags(r) \/ Store(r) \/ LoadFails(r)
    \/ \E i \in Instances : SetVersion(i) \/ SetFlag(i) \/ Invalidate(i)
    \/ ConfigTick

ConfigSpec == ConfigInit /\ [][ConfigNext]_configVars

ConfigTypeOK ==
    /\ configTime \in 0 .. MaxConfigTime
    /\ rows \in [Tables -> Seq([row : VersionRows \cup FlagRows, since : 0 .. MaxConfigTime])]
    /\ \A i \in Instances : snaps[i] = NoSnapshot \/
        /\ snaps[i].loadedAt \in 0 .. MaxConfigTime
        /\ snaps[i].versions \in VersionRows \cup {NoRow}
        /\ snaps[i].flags \in FlagRows \cup {NoRow}
    /\ \A r \in ConfigReaders :
        /\ readers[r].phase \in Phases
        /\ readers[r].kind \in Kinds
        /\ readers[r].state \subseteq States
        /\ readers[r].flag \subseteq BOOLEAN
    /\ toEmpty \subseteq Instances

\* Row was the content of table t at time since or later.
Held(t, row, since) ==
    \E n \in 1 .. Len(rows[t]) :
        /\ rows[t][n].row = row
        /\ n = Len(rows[t]) \/ rows[t][n + 1].since >= since

\* Other instances take a change over within CacheTTL (appconfig.go:101): what
\* a request is told, unless a query failed or broke off, follows from rows that were in
\* force when it began or less than CacheTTL before, although loads overtake
\* one another and an older snapshot may replace a newer one.
ConfigIsRecent ==
    \A r \in ConfigReaders :
        LET q == readers[r]
            since == q.began - CacheTTL + 1 IN
        ~q.failed =>
            /\ q.state # {} => \E v \in VersionRows :
                  Held("versions", v, since) /\ q.state = {UpdateState(v)}
            /\ q.flag # {} => \E f \in FlagRows :
                  Held("flags", f, since) /\ q.flag = {RolledOut(f)}
=============================================================================
