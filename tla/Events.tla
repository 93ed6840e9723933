-------------------------------- MODULE Events -------------------------------
(***************************************************************************)
(* From a committed change to the phone: events.Emit writes a row of the   *)
(* outbox in the caller's transaction, the relay of each worker publishes  *)
(* the head of every aggregate, the queue delivers a message at least once *)
(* and the handlers write one notification per event and user before they  *)
(* push.  A worker may stop, a publication or a handler may fail, and the  *)
(* answer of a publication may be lost.                                    *)
(***************************************************************************)
EXTENDS Integers, FiniteSets

CONSTANTS
    OutboxEvents, NoOutboxEvent,
    Aggregates,
    AggregateOf,    \* AggregateOf[e]: what the event is about
    LockedWriters,  \* aggregates whose writers hold the row's lock when they emit
    Users, NobodyPushed,
    NoticeOf,       \* NoticeOf[e]: the users that Map and fillUser find for it
    Relays, Consumers,
    MaxFaults       \* failures of the environment: a bound of the model

ASSUME EventsAssumption ==
    /\ IsFiniteSet(OutboxEvents)
    /\ NoOutboxEvent \notin OutboxEvents /\ NobodyPushed \notin Users
    /\ AggregateOf \in [OutboxEvents -> Aggregates]
    /\ LockedWriters \subseteq Aggregates
    /\ NoticeOf \in [OutboxEvents -> SUBSET Users]
    /\ MaxFaults \in Nat

VARIABLES
    rows,       \* outbox_events: state and sequence number, taken at the insert
    tick,       \* tick[w]: the rows a relay holds: still to publish, sent, failed
    published,  \* published[a]: the event of the aggregate published last
    queued,     \* messages the queue still holds
    handling,   \* handling[c]: the event, the users left, and whom to push
    inbox,      \* <<e, u>> of the table notifications
    pushes,     \* pushes[<<e, u>>]: how often the phone was told
    faults

eventVars == <<rows, tick, published, queued, handling, inbox, pushes, faults>>

NoTick == [todo |-> {}, sent |-> {}, failed |-> {}]
Free == [event |-> NoOutboxEvent, todo |-> {}, push |-> NobodyPushed]

EventsInit ==
    /\ rows = [e \in OutboxEvents |-> [state |-> "none", seq |-> 0]]
    /\ tick = [w \in Relays |-> NoTick]
    /\ published = [a \in Aggregates |-> NoOutboxEvent]
    /\ queued = {}
    /\ handling = [c \in Consumers |-> Free]
    /\ inbox = {}
    /\ pushes = [n \in OutboxEvents \X Users |-> 0]
    /\ faults = 0

Fault == faults < MaxFaults /\ faults' = faults + 1

Siblings(e) == {p \in OutboxEvents \ {e} : AggregateOf[p] = AggregateOf[e]}
Held == UNION {tick[w].todo \cup tick[w].sent \cup tick[w].failed : w \in Relays}
Unpublished(e) == rows[e].state \in {"ready", "backoff"}
Committed(e) == rows[e].state \in {"ready", "backoff", "published"}

-----------------------------------------------------------------------------
\* The row is inserted, not yet committed; where the writers lock, one at a time.
Emit(e) ==
    /\ rows[e].state = "none"
    /\ AggregateOf[e] \in LockedWriters => \A p \in Siblings(e) : rows[p].state # "open"
    /\ rows' = [rows EXCEPT ![e] = [state |-> "open",
                                    seq |-> 1 + Cardinality({p \in OutboxEvents : rows[p].seq > 0})]]
    /\ UNCHANGED <<tick, published, queued, handling, inbox, pushes, faults>>

\* The business transaction ends, and the event with it.
EmitEnds(e, state) ==
    /\ rows[e].state = "open"
    /\ rows' = [rows EXCEPT ![e].state = state]
    /\ UNCHANGED <<tick, published, queued, handling, inbox, pushes, faults>>

\* Mutant: a row whose earlier sibling waits in backoff counts as a head.
IsHeadPastBackoff(e) ==
    /\ rows[e].state = "ready"
    /\ \A p \in Siblings(e) : rows[p].state = "ready" => rows[p].seq > rows[e].seq

\* No earlier row of the aggregate is unpublished, in backoff or not.
IsHead(e) ==
    /\ rows[e].state = "ready"
    /\ \A p \in Siblings(e) : Unpublished(p) => rows[p].seq > rows[e].seq

\* FOR UPDATE SKIP LOCKED: the heads that no other relay holds.
RelayTakes(w) ==
    /\ tick[w] = NoTick
    /\ {e \in OutboxEvents : IsHead(e)} \ Held # {}
    /\ tick' = [tick EXCEPT ![w].todo = {e \in OutboxEvents : IsHead(e)} \ Held]
    /\ UNCHANGED <<rows, published, queued, handling, inbox, pushes, faults>>

\* The batch is published in the order of the sequence; rows change at the commit.
NextOf(w, e) == e \in tick[w].todo /\ \A p \in tick[w].todo : rows[p].seq >= rows[e].seq

Publish(w, e) ==
    /\ NextOf(w, e)
    /\ tick' = [tick EXCEPT ![w].todo = @ \ {e}, ![w].sent = @ \cup {e}]
    /\ published' = [published EXCEPT ![AggregateOf[e]] = e]
    /\ queued' = queued \cup {e}
    /\ UNCHANGED <<rows, handling, inbox, pushes, faults>>

\* Publish returns an error: the topic refused the event, or took it and the
\* answer was lost.
PublishFails(w, e) ==
    /\ NextOf(w, e)
    /\ Fault
    /\ tick' = [tick EXCEPT ![w].todo = @ \ {e}, ![w].failed = @ \cup {e}]
    /\ \/ UNCHANGED <<published, queued>>
       \/ /\ published' = [published EXCEPT ![AggregateOf[e]] = e]
          /\ queued' = queued \cup {e}
    /\ UNCHANGED <<rows, handling, inbox, pushes>>

RelayCommits(w) ==
    /\ tick[w] # NoTick /\ tick[w].todo = {}
    /\ rows' = [e \in OutboxEvents |->
          IF e \in tick[w].sent THEN [rows[e] EXCEPT !.state = "published"]
          ELSE IF e \in tick[w].failed THEN [rows[e] EXCEPT !.state = "backoff"]
          ELSE rows[e]]
    /\ tick' = [tick EXCEPT ![w] = NoTick]
    /\ UNCHANGED <<published, queued, handling, inbox, pushes, faults>>

\* The worker ends or a statement fails: the rows are as before the tick.
RelayStops(w) ==
    /\ tick[w] # NoTick
    /\ Fault
    /\ tick' = [tick EXCEPT ![w] = NoTick]
    /\ UNCHANGED <<rows, published, queued, handling, inbox, pushes>>

\* next_attempt_at is reached.
BackoffEnds(e) ==
    /\ rows[e].state = "backoff"
    /\ rows' = [rows EXCEPT ![e].state = "ready"]
    /\ UNCHANGED <<tick, published, queued, handling, inbox, pushes, faults>>

-----------------------------------------------------------------------------
\* A message stays in the queue until it is deleted, so two consumers can have it.
Receive(c, e) ==
    /\ handling[c] = Free
    /\ e \in queued
    /\ handling' = [handling EXCEPT ![c] = [event |-> e, todo |-> NoticeOf[e], push |-> NobodyPushed]]
    /\ UNCHANGED <<rows, tick, published, queued, inbox, pushes, faults>>

\* Mutant: deliver pushes although the notification was there before.
InsertNoticeAlwaysPush(c, u) ==
    /\ handling[c].push = NobodyPushed
    /\ u \in handling[c].todo
    /\ inbox' = inbox \cup {<<handling[c].event, u>>}
    /\ handling' = [handling EXCEPT ![c].todo = @ \ {u}, ![c].push = u]
    /\ UNCHANGED <<rows, tick, published, queued, pushes, faults>>

\* deliver inserts the notification; on a conflict it was told before.
InsertNotice(c, u) ==
    LET e == handling[c].event IN
    /\ handling[c].push = NobodyPushed
    /\ u \in handling[c].todo
    /\ inbox' = inbox \cup {<<e, u>>}
    /\ handling' = [handling EXCEPT ![c].todo = @ \ {u},
                                    ![c].push = IF <<e, u>> \in inbox THEN NobodyPushed ELSE u]
    /\ UNCHANGED <<rows, tick, published, queued, pushes, faults>>

\* The provider is called; a failed push is written down and does not fail the event.
Push(c) ==
    /\ handling[c].push # NobodyPushed
    /\ pushes' = [pushes EXCEPT ![<<handling[c].event, handling[c].push>>] = @ + 1]
    /\ handling' = [handling EXCEPT ![c].push = NobodyPushed]
    /\ UNCHANGED <<rows, tick, published, queued, inbox, faults>>

\* The category is switched off, or the user has no valid device.
SkipPush(c) ==
    /\ handling[c].push # NobodyPushed
    /\ handling' = [handling EXCEPT ![c].push = NobodyPushed]
    /\ UNCHANGED <<rows, tick, published, queued, inbox, pushes, faults>>

\* Every handler succeeded: the message is deleted.
Acknowledge(c) ==
    /\ handling[c] # Free
    /\ handling[c].todo = {} /\ handling[c].push = NobodyPushed
    /\ queued' = queued \ {handling[c].event}
    /\ handling' = [handling EXCEPT ![c] = Free]
    /\ UNCHANGED <<rows, tick, published, inbox, pushes, faults>>

\* Mutant: the message is deleted although a handler failed.
HandlerFailsDeleting(c) ==
    /\ handling[c] # Free
    /\ Fault
    /\ queued' = queued \ {handling[c].event}
    /\ handling' = [handling EXCEPT ![c] = Free]
    /\ UNCHANGED <<rows, tick, published, inbox, pushes>>

\* A handler or the deletion fails, or the worker ends: the message reappears.
HandlerFails(c) ==
    /\ handling[c] # Free
    /\ Fault
    /\ handling' = [handling EXCEPT ![c] = Free]
    /\ UNCHANGED <<rows, tick, published, queued, inbox, pushes>>

EventsNext ==
    \/ \E e \in OutboxEvents :
        \/ Emit(e) \/ BackoffEnds(e)
        \/ \E state \in {"ready", "gone"} : EmitEnds(e, state)
        \/ \E w \in Relays : Publish(w, e) \/ PublishFails(w, e)
        \/ \E c \in Consumers : Receive(c, e)
    \/ \E w \in Relays : RelayTakes(w) \/ RelayCommits(w) \/ RelayStops(w)
    \/ \E c \in Consumers :
        \/ Push(c) \/ SkipPush(c) \/ Acknowledge(c) \/ HandlerFails(c)
        \/ \E u \in Users : InsertNotice(c, u)

\* The loops of the workers go on; what fails is retried.
EventsFairness ==
    /\ \A w \in Relays :
        /\ WF_eventVars(RelayTakes(w))
        /\ WF_eventVars(RelayCommits(w))
        /\ WF_eventVars(\E e \in OutboxEvents : Publish(w, e))
    /\ \A e \in OutboxEvents : WF_eventVars(BackoffEnds(e))
    /\ \A c \in Consumers :
        /\ WF_eventVars(\E e \in OutboxEvents : Receive(c, e))
        /\ WF_eventVars(\E u \in Users : InsertNotice(c, u))
        /\ WF_eventVars(Push(c) \/ SkipPush(c))
        /\ WF_eventVars(Acknowledge(c))

EventsSpec == EventsInit /\ [][EventsNext]_eventVars /\ EventsFairness

-----------------------------------------------------------------------------
EventsTypeOK ==
    /\ rows \in [OutboxEvents -> [state : {"none", "open", "gone", "ready", "backoff", "published"},
                            seq : 0 .. Cardinality(OutboxEvents)]]
    /\ tick \in [Relays -> [todo : SUBSET OutboxEvents, sent : SUBSET OutboxEvents, failed : SUBSET OutboxEvents]]
    /\ published \in [Aggregates -> OutboxEvents \cup {NoOutboxEvent}]
    /\ queued \subseteq OutboxEvents
    /\ handling \in [Consumers -> [event : OutboxEvents \cup {NoOutboxEvent}, todo : SUBSET Users,
                                   push : Users \cup {NobodyPushed}]]
    /\ inbox \subseteq OutboxEvents \X Users
    /\ pushes \in [OutboxEvents \X Users -> Nat]
    /\ faults \in 0 .. MaxFaults

(***************************************************************************)
(* Redelivery, a second consumer, a republication after a crash: a phone   *)
(* is told of an event once (handler.go: "asnjë push i dytë"), and only of *)
(* an event whose transaction committed and that is in the inbox.          *)
(***************************************************************************)
ToldOncePerEvent ==
    \A e \in OutboxEvents, u \in Users :
        /\ pushes[<<e, u>>] <= 1
        /\ pushes[<<e, u>>] > 0 => <<e, u>> \in inbox
        /\ <<e, u>> \in inbox => Committed(e)

(***************************************************************************)
(* The relay's order is strict for an aggregate whose writers hold its     *)
(* lock: two relays, failures and backoff notwithstanding, the topic gets  *)
(* after an event only the same again or the next that committed.          *)
(***************************************************************************)
FollowsIn(e, p) ==
    /\ p # NoOutboxEvent => rows[p].seq < rows[e].seq
    /\ \A q \in Siblings(e) :
        /\ rows[q].seq < rows[e].seq /\ Committed(q)
        => p # NoOutboxEvent /\ rows[q].seq <= rows[p].seq

EventsInOrder ==
    [][\A a \in LockedWriters :
        published'[a] # published[a] => FollowsIn(published'[a], published[a])]_eventVars

\* Every event that committed reaches the inbox of everyone it concerns.
NoticesArrive ==
    <>[](\A e \in OutboxEvents, u \in Users :
            Committed(e) /\ u \in NoticeOf[e] => <<e, u>> \in inbox)
=============================================================================
