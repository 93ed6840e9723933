-------------------------------- MODULE Risk ---------------------------------
\* The risk rules about one user (modules/fraud/fraud.go).  What a rule counts,
\* a fact, is committed no later than the event for which the rule is
\* evaluated.  The event is delivered at least once, to any consumer; a
\* delivery counts the facts in the rule's window in one statement and raises a
\* flag in another.  A refund has no event: payments calls its rule, once.
EXTENDS Naturals, FiniteSets, FiniteSetsExt

CONSTANTS Facts,           \* cancellations, one-star reviews, top-ups, refunds
          KindOf,          \* of each fact, its kind
          AmountOf,        \* of each fact, what it adds to the rule's sum
          CalledDirectly,  \* the facts without an event
          BurstSize,       \* of each kind, how many facts are too many
          BurstSum,        \* of each kind, the sum that is too much
          DriverKind,      \* the rule about a share of the driver's rides
          MinAssigned, MinShare,  \* its floor, and its share in percent
          MaxAssigned,     \* bound
          MaxDeliveries    \* bound on the deliveries that run at once

BurstKinds == {KindOf[f] : f \in Facts} \ {DriverKind}

ASSUME RiskAssumption ==
    /\ IsFiniteSet(Facts)
    /\ AmountOf \in [Facts -> Nat]
    /\ BurstSize \in [BurstKinds -> Nat \ {0}] /\ BurstSum \in [BurstKinds -> Nat \ {0}]

VARIABLES ages,       \* of each fact: not yet, "young" in its rule's window, or "old"
          due,        \* those whose rule is, or may again be, evaluated
          told,       \* those whose rule was evaluated to the end
          assigned,   \* the driver's assignments of the last week
          counting,   \* the deliveries between their two statements: fact and finding
          flags       \* risk_flags of the user, by source_event

riskVars == <<ages, due, told, assigned, counting, flags>>

RiskInit ==
    /\ ages = [f \in Facts |-> "none"]
    /\ due = {} /\ told = {}
    /\ assigned \in 0 .. MaxAssigned
    /\ counting = {}
    /\ flags = [f \in Facts |-> "none"]

Happens(f) ==
    /\ ages[f] = "none"
    /\ ages' = [ages EXCEPT ![f] = "young"]
    /\ due' = due \cup {f}
    /\ UNCHANGED <<told, assigned, counting, flags>>

\* Time passes for one of them.
Ages(f) ==
    /\ ages[f] = "young"
    /\ ages' = [ages EXCEPT ![f] = "old"]
    /\ UNCHANGED <<due, told, assigned, counting, flags>>

AssignmentsChange(n) ==
    /\ assigned' = n
    /\ UNCHANGED <<ages, due, told, counting, flags>>

YoungOf(kind) == {f \in Facts : ages[f] = "young" /\ KindOf[f] = kind}

AmountYoung(kind) == MapThenSumSet(LAMBDA f : AmountOf[f], YoungOf(kind))

\* customerCancelBurst, reviewBurst, topupVelocity and RefundPattern; only the
\* second has a sum.
Burst(kind) ==
    \/ Cardinality(YoungOf(kind)) >= BurstSize[kind]
    \/ AmountYoung(kind) >= BurstSum[kind]

\* driverCancelRate.
ShareTooHigh ==
    /\ assigned >= MinAssigned
    /\ Cardinality(YoungOf(DriverKind)) * 100 >= assigned * MinShare

\* Mutant: the burst begins after the limit.
OverTheLimit(kind) ==
    IF kind = DriverKind THEN ShareTooHigh
    ELSE Cardinality(YoungOf(kind)) > BurstSize[kind] \/ AmountYoung(kind) >= BurstSum[kind]

Over(kind) == IF kind = DriverKind THEN ShareTooHigh ELSE Burst(kind)

\* Handle, or RefundPattern: the count.
Count(f) ==
    /\ f \in due
    /\ Cardinality(counting) < MaxDeliveries
    /\ counting' = counting \cup {[fact |-> f, over |-> Over(KindOf[f])]}
    /\ due' = due \ (CalledDirectly \cap {f})
    /\ UNCHANGED <<ages, told, assigned, flags>>

\* raise: ON CONFLICT DO NOTHING.
Raise(d) ==
    /\ flags' = IF d.over /\ flags[d.fact] = "none"
                THEN [flags EXCEPT ![d.fact] = "open"] ELSE flags
    /\ told' = told \cup {d.fact}
    /\ counting' = counting \ {d}
    /\ UNCHANGED <<ages, due, assigned>>

\* The delivery fails, in this handler or in one before it, and its event comes
\* again; the error of a direct call is dropped.
DeliveryFails(d) ==
    /\ counting' = counting \ {d}
    /\ UNCHANGED <<ages, due, told, assigned, flags>>

\* The desk takes it up, dismisses or confirms it: "resolved".
Resolve(f) ==
    /\ flags[f] # "none"
    /\ flags' = [flags EXCEPT ![f] = "resolved"]
    /\ UNCHANGED <<ages, due, told, assigned, counting>>

RiskNext ==
    \/ \E f \in Facts :
        Happens(f) \/ Ages(f) \/ Count(f) \/ Resolve(f)
    \/ \E d \in counting : Raise(d) \/ DeliveryFails(d)
    \/ \E n \in 0 .. MaxAssigned : AssignmentsChange(n)

RiskSpec == RiskInit /\ [][RiskNext]_riskVars

RiskTypeOK ==
    /\ ages \in [Facts -> {"none", "young", "old"}]
    /\ due \subseteq Facts /\ told \subseteq Facts
    /\ assigned \in 0 .. MaxAssigned
    /\ counting \subseteq [fact : Facts, over : BOOLEAN]
    /\ flags \in [Facts -> {"none", "open", "resolved"}]

\* A burst is seen (fraud.go:138-188): when the rule was evaluated for each fact
\* in its window, in whatever order, twice or side by side, and they are too
\* many, a flag was raised.  This is about the rules that count; the one about a
\* share of the driver's rides is modelled, and nothing is claimed of it, since
\* a ride that he takes between two evaluations may make his share pass.
BurstsAreFlagged ==
    \A kind \in BurstKinds :
        YoungOf(kind) \subseteq told /\ Burst(kind)
            => \E f \in Facts : KindOf[f] = kind /\ flags[f] # "none"
=============================================================================
