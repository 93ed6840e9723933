-------------------------------- MODULE Jobs --------------------------------
(***************************************************************************)
(* What a dispatcher promises about the jobs it hands out, whatever the    *)
(* way it finds the workers: a job is taken only while it is open, by a    *)
(* worker who was asked for it and has not been forgotten since, nobody    *)
(* holds two, and a job that is not open asks nobody.  Orders and Parcels  *)
(* implement it; there a worker who answered in time is not forgotten      *)
(* until his answer fails.                                                 *)
(***************************************************************************)
CONSTANTS Jobs, Workers, NoWorker

VARIABLES
    phase,      \* phase[j]: "unposted", "open", "taken" or "ended"
    worker,     \* worker[j]: who has taken j
    asked       \* asked[j]: the workers who may take j now

vars == <<phase, worker, asked>>

Init ==
    /\ phase = [j \in Jobs |-> "unposted"]
    /\ worker = [j \in Jobs |-> NoWorker]
    /\ asked = [j \in Jobs |-> {}]

Post(j) ==
    /\ phase[j] = "unposted"
    /\ phase' = [phase EXCEPT ![j] = "open"]
    /\ UNCHANGED <<worker, asked>>

Ask(j, w) ==
    /\ phase[j] = "open"
    /\ asked' = [asked EXCEPT ![j] = @ \cup {w}]
    /\ UNCHANGED <<phase, worker>>

\* A refusal, or the time to answer is over.
Forget(j, w) ==
    /\ asked' = [asked EXCEPT ![j] = @ \ {w}]
    /\ UNCHANGED <<phase, worker>>

Take(j, w) ==
    /\ phase[j] = "open"
    /\ w \in asked[j]
    /\ \A k \in Jobs : worker[k] # w
    /\ phase' = [phase EXCEPT ![j] = "taken"]
    /\ worker' = [worker EXCEPT ![j] = w]
    /\ asked' = [asked EXCEPT ![j] = {}]

Release(j) ==
    /\ phase[j] = "taken"
    /\ phase' = [phase EXCEPT ![j] = "open"]
    /\ worker' = [worker EXCEPT ![j] = NoWorker]
    /\ UNCHANGED asked

End(j) ==
    /\ phase[j] \in {"open", "taken"}
    /\ phase' = [phase EXCEPT ![j] = "ended"]
    /\ worker' = [worker EXCEPT ![j] = NoWorker]
    /\ asked' = [asked EXCEPT ![j] = {}]

Next ==
    \E j \in Jobs :
        \/ Post(j)
        \/ \E w \in Workers : Ask(j, w) \/ Forget(j, w) \/ Take(j, w)
        \/ Release(j)
        \/ End(j)

Spec == Init /\ [][Next]_vars
=============================================================================
