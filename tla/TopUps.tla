------------------------------- MODULE TopUps -------------------------------
(***************************************************************************)
(* Topping a wallet up by card: CreateTopUp, HandleWebhook, apply and      *)
(* credit of payments/payments.go, against a payment provider that sends   *)
(* its events at least once, in any order, until it is answered 200.       *)
(*                                                                         *)
(* Every statement is a transaction of its own, and a handler may stop     *)
(* before any of them.  Amounts are left out: an intent has one, and the   *)
(* provider's event agrees with it ("succeeded") or not ("other_amount").  *)
(* The daily limit and the idempotency of CreateTopUp are left out.        *)
(***************************************************************************)
EXTENDS Naturals, FiniteSets

CONSTANTS Intents, Handlers, NoEvent,
    Copies,         \* tells the events of one intent and verdict apart
    MaxEvents,      \* bound of the events the provider makes
    MaxFailures     \* bound of the calls that stop half way

Verdicts == {"processing", "declined", "succeeded", "other_amount", "canceled"}
Events == [intent : Intents, verdict : Verdicts, copy : Copies]

ASSUME NoEventAssumption == NoEvent \notin Events
ASSUME BoundAssumption == MaxEvents \in Nat /\ MaxFailures \in Nat

VARIABLES
    status,     \* status[i]: payment_intents.status, "none" without a row
    creating,   \* creating[i]: how far the CreateTopUp call of i is
    attached,   \* intents whose provider_intent_id is stored
    provider,   \* provider[i]: the provider's side of the intent
    sent,       \* events the provider has made
    recorded,   \* events in payment_webhook_events
    acked,      \* events that HandleWebhook answered with 200
    handler,    \* handler[h]: a webhook delivery under way
    credits,    \* credits[i]: ledger transactions that credit the wallet for i
    told,       \* told[i]: WalletToppedUp events emitted for i
    failures    \* calls that stopped half way

vars == <<status, creating, attached, provider, sent, recorded, acked, handler,
          credits, told, failures>>
localVars == <<status, creating, attached, credits, told>>
webhookVars == <<recorded, acked, handler>>

Idle == [event |-> NoEvent, step |-> "idle"]

-----------------------------------------------------------------------------
Init ==
    /\ status = [i \in Intents |-> "none"]
    /\ creating = [i \in Intents |-> "none"]
    /\ attached = {}
    /\ provider = [i \in Intents |-> "absent"]
    /\ sent = {}
    /\ recorded = {}
    /\ acked = {}
    /\ handler = [h \in Handlers |-> Idle]
    /\ credits = [i \in Intents |-> 0]
    /\ told = [i \in Intents |-> 0]
    /\ failures = 0

-----------------------------------------------------------------------------
\* CreateTopUp

InsertIntent(i) ==
    /\ creating[i] = "none"
    /\ creating' = [creating EXCEPT ![i] = "inserted"]
    /\ status' = [status EXCEPT ![i] = "created"]
    /\ UNCHANGED <<attached, provider, sent, webhookVars, credits, told, failures>>

CallProvider(i) ==
    /\ creating[i] = "inserted"
    /\ creating' = [creating EXCEPT ![i] = "called"]
    /\ provider' = [provider EXCEPT ![i] = "open"]
    /\ UNCHANGED <<status, attached, sent, webhookVars, credits, told, failures>>

\* The call fails, whether or not the provider has made its intent.
ProviderFails(i) ==
    /\ creating[i] = "inserted"
    /\ creating' = [creating EXCEPT ![i] = "ended"]
    /\ \E p \in {"absent", "open"} : provider' = [provider EXCEPT ![i] = p]
    /\ status' = [status EXCEPT ![i] = IF @ = "created" THEN "failed" ELSE @]
    /\ UNCHANGED <<attached, sent, webhookVars, credits, told, failures>>

\* The UPDATE of provider_intent_id and status, whatever the status was; only
\* then does the client get the secret it can pay with.
Attach(i) ==
    /\ creating[i] = "called"
    /\ creating' = [creating EXCEPT ![i] = "secret"]
    /\ attached' = attached \cup {i}
    /\ status' = [status EXCEPT ![i] = "created"]
    /\ UNCHANGED <<provider, sent, webhookVars, credits, told, failures>>

CreateStops(i) ==
    /\ creating[i] \in {"inserted", "called"}
    /\ failures < MaxFailures
    /\ failures' = failures + 1
    /\ creating' = [creating EXCEPT ![i] = "ended"]
    /\ UNCHANGED <<status, attached, provider, sent, webhookVars, credits, told>>

-----------------------------------------------------------------------------
\* The provider

Send(i, v) ==
    /\ Cardinality(sent) < MaxEvents
    /\ \E c \in Copies :
         sent' = sent \cup {[intent |-> i, verdict |-> v, copy |-> c]}

Capture(i) ==
    /\ creating[i] = "secret"
    /\ provider[i] = "open"
    /\ provider' = [provider EXCEPT ![i] = "captured"]
    /\ Send(i, "succeeded")
    /\ UNCHANGED <<localVars, webhookVars, failures>>

\* An attempt that goes through a bank's page, is declined, or is captured
\* with another amount.
Attempt(i, v) ==
    /\ creating[i] = "secret"
    /\ provider[i] = "open"
    /\ v \in {"processing", "declined", "other_amount"}
    /\ Send(i, v)
    /\ UNCHANGED <<localVars, provider, webhookVars, failures>>

\* Another event of an intent that was captured shows its status again.
EventAfterCapture(i) ==
    /\ provider[i] = "captured"
    /\ Send(i, "succeeded")
    /\ UNCHANGED <<localVars, provider, webhookVars, failures>>

CancelAtProvider(i) ==
    /\ provider[i] = "open"
    /\ provider' = [provider EXCEPT ![i] = "canceled"]
    /\ Send(i, "canceled")
    /\ UNCHANGED <<localVars, webhookVars, failures>>

-----------------------------------------------------------------------------
\* HandleWebhook

Working(h, step) == handler[h].step = step
Answer(h) ==
    /\ acked' = acked \cup {handler[h].event}
    /\ handler' = [handler EXCEPT ![h] = Idle]

\* Mutant: the event is looked up and never inserted.
DeliverUnrecorded(h, e) ==
    /\ e \in sent
    /\ handler[h] = Idle
    /\ e \notin recorded
    /\ handler' = [handler EXCEPT ![h] = [event |-> e, step |-> "apply"]]
    /\ UNCHANGED <<localVars, provider, sent, recorded, acked, failures>>

\* INSERT ... ON CONFLICT DO NOTHING: a duplicate is answered at once.
Deliver(h, e) ==
    /\ e \in sent
    /\ handler[h] = Idle
    /\ IF e \in recorded
       THEN /\ acked' = acked \cup {e}
            /\ UNCHANGED <<recorded, handler>>
       ELSE /\ recorded' = recorded \cup {e}
            /\ handler' = [handler EXCEPT ![h] = [event |-> e, step |-> "apply"]]
            /\ UNCHANGED acked
    /\ UNCHANGED <<localVars, provider, sent, failures>>

\* apply finds no intent with this provider_intent_id.
ApplyUnknown(h) ==
    /\ Working(h, "apply")
    /\ handler[h].event.intent \notin attached
    /\ Answer(h)
    /\ UNCHANGED <<localVars, provider, sent, recorded, failures>>

\* The status an event sets by one UPDATE, from the statuses its WHERE allows.
Sets == [processing |-> "processing", declined |-> "failed",
         other_amount |-> "failed", canceled |-> "canceled"]
MayLeave(v, st) ==
    st \notin [processing |-> {"succeeded", "canceled", "failed"},
               declined |-> {"succeeded", "canceled"},
               other_amount |-> {"succeeded"},
               canceled |-> {"succeeded", "canceled"}][v]

ApplyStatus(h) ==
    LET e == handler[h].event
    IN  /\ Working(h, "apply")
        /\ e.intent \in attached
        /\ e.verdict # "succeeded"
        /\ status' = [status EXCEPT ![e.intent] =
                        IF MayLeave(e.verdict, @) THEN Sets[e.verdict] ELSE @]
        /\ Answer(h)
        /\ UNCHANGED <<creating, attached, provider, sent, recorded, credits,
                       told, failures>>

\* Mutant: a ledger key of its own for every event.
CreditPerEvent(h) ==
    LET e == handler[h].event
    IN  /\ Working(h, "apply")
        /\ e.intent \in attached
        /\ e.verdict = "succeeded"
        /\ credits' = [credits EXCEPT ![e.intent] = @ + 1]
        /\ handler' = [handler EXCEPT ![h].step = "mark"]
        /\ UNCHANGED <<status, creating, attached, provider, sent, recorded,
                       acked, told, failures>>

\* Mutant: an intent that an earlier event failed is not credited.
CreditUnlessFailed(h) ==
    LET e == handler[h].event
    IN  /\ Working(h, "apply")
        /\ e.intent \in attached
        /\ e.verdict = "succeeded"
        /\ IF status[e.intent] = "failed"
           THEN Answer(h) /\ UNCHANGED credits
           ELSE /\ credits' = [credits EXCEPT ![e.intent] = IF @ = 0 THEN 1 ELSE @]
                /\ handler' = [handler EXCEPT ![h].step = "mark"]
                /\ UNCHANGED acked
        /\ UNCHANGED <<status, creating, attached, provider, sent, recorded,
                       told, failures>>

\* credit, first half: Post under the intent's key.
Credit(h) ==
    LET e == handler[h].event
    IN  /\ Working(h, "apply")
        /\ e.intent \in attached
        /\ e.verdict = "succeeded"
        /\ credits' = [credits EXCEPT ![e.intent] = IF @ = 0 THEN 1 ELSE @]
        /\ handler' = [handler EXCEPT ![h].step = "mark"]
        /\ UNCHANGED <<status, creating, attached, provider, sent, recorded,
                       acked, told, failures>>

\* credit, second half: the status and the event, if the status changes.
Mark(h) ==
    LET i == handler[h].event.intent
    IN  /\ Working(h, "mark")
        /\ status' = [status EXCEPT ![i] = "succeeded"]
        /\ told' = [told EXCEPT ![i] = IF status[i] = "succeeded" THEN @ ELSE @ + 1]
        /\ Answer(h)
        /\ UNCHANGED <<creating, attached, provider, sent, recorded, credits,
                       failures>>

\* A statement fails or the process dies: no 200, and the event stays recorded.
HandlerStops(h) ==
    /\ handler[h] # Idle
    /\ failures < MaxFailures
    /\ failures' = failures + 1
    /\ handler' = [handler EXCEPT ![h] = Idle]
    /\ UNCHANGED <<localVars, provider, sent, recorded, acked>>

-----------------------------------------------------------------------------
Handle(h) == ApplyUnknown(h) \/ ApplyStatus(h) \/ Credit(h) \/ Mark(h)

Next ==
    \/ \E i \in Intents :
         \/ InsertIntent(i) \/ CallProvider(i) \/ ProviderFails(i) \/ Attach(i)
         \/ CreateStops(i)
         \/ Capture(i) \/ EventAfterCapture(i) \/ CancelAtProvider(i)
         \/ \E v \in Verdicts : Attempt(i, v)
    \/ \E h \in Handlers :
         \/ \E e \in sent : Deliver(h, e)
         \/ Handle(h)
         \/ HandlerStops(h)

Spec == Init /\ [][Next]_vars

\* The provider delivers an event again until it is answered, and a delivery
\* under way goes on.
Fairness ==
    /\ \A h \in Handlers : WF_vars(Handle(h))
    /\ SF_vars(\E h \in Handlers, e \in sent \ acked : Deliver(h, e))

FairSpec == Spec /\ Fairness

-----------------------------------------------------------------------------
\* Properties

\* What the rows, the deliveries and the provider's side range over; an event
\* is answered only when it is recorded, and recorded only when it was made.
TypeOK ==
    /\ status \in [Intents -> {"none", "created", "processing", "succeeded",
                               "failed", "canceled"}]
    /\ creating \in [Intents -> {"none", "inserted", "called", "secret", "ended"}]
    /\ attached \in SUBSET Intents
    /\ provider \in [Intents -> {"absent", "open", "captured", "canceled"}]
    /\ sent \in SUBSET Events
    /\ recorded \in SUBSET sent
    /\ acked \in SUBSET recorded
    /\ handler \in [Handlers -> [event : Events \cup {NoEvent},
                                 step : {"idle", "apply", "mark"}]]
    /\ credits \in [Intents -> Nat]
    /\ told \in [Intents -> Nat]
    /\ failures \in 0..MaxFailures

\* A wallet is credited once at most for an intent, only when the provider has
\* captured the payment, and the status says succeeded only after that.
CreditFollowsCapture ==
    \A i \in Intents :
      /\ credits[i] <= 1
      /\ credits[i] = 1 => provider[i] = "captured"
      /\ status[i] = "succeeded" => credits[i] = 1

\* The customer is told of a top-up exactly when it has succeeded, and once,
\* however many deliveries race.
ToldOnce ==
    \A i \in Intents : told[i] = IF status[i] = "succeeded" THEN 1 ELSE 0

\* A top-up that succeeded stays succeeded: neither a late event nor the
\* unconditional UPDATE at the end of CreateTopUp takes it back.
SucceededIsFinal ==
    [][\A i \in Intents : status[i] = "succeeded" => status'[i] = "succeeded"]_vars

\* Unless some call stops half way, a captured payment reaches the wallet,
\* whatever the order and the number of the deliveries.
CapturedIsCredited ==
    <>[](\A i \in Intents :
            provider[i] = "captured" => status[i] = "succeeded" \/ failures > 0)

\* "A duplicate: processed earlier": an event that was answered with 200 and
\* that no handler is working on has had its effect.
AnsweredMeansProcessed ==
    \A e \in acked :
      /\ e.verdict = "succeeded"
      /\ \A h \in Handlers : handler[h].event # e
      => credits[e.intent] = 1
=============================================================================
