---------------------------- MODULE Payments_proofs ----------------------------
(***************************************************************************)
(* Proofs about payments: top-ups by card, and refunds of one of them.     *)
(* The two are specifications of their own.                                *)
(***************************************************************************)
EXTENDS TopUps, Refunds, TLAPS

-----------------------------------------------------------------------------
(***************************************************************************)
(* Top-ups, for every set of intents, handlers and events and any number   *)
(* of failures.  Two facts carry it: nobody can pay before CreateTopUp has *)
(* handed out the secret (so its unconditional UPDATE of the status undoes *)
(* nothing), and every event that says "succeeded" was made after a        *)
(* capture.                                                                *)
(***************************************************************************)
\* Nobody pays before CreateTopUp ends.
PaidAfterSecret ==
    \A i \in Intents : provider[i] = "captured" => creating[i] = "secret"

\* What an event, and a handler that works on one, may say.
EventsAreTrue ==
    /\ \A e \in sent : e.verdict = "succeeded" => provider[e.intent] = "captured"
    /\ \A h \in Handlers : handler[h].step # "idle" =>
         /\ handler[h].event \in recorded
         /\ handler[h].step = "mark" =>
              /\ handler[h].event.verdict = "succeeded"
              /\ credits[handler[h].event.intent] = 1

TopUpsInv ==
    /\ TypeOK
    /\ PaidAfterSecret
    /\ EventsAreTrue
    /\ CreditFollowsCapture
    /\ ToldOnce

Record == [event : Events \cup {NoEvent}, step : {"idle", "apply", "mark"}]

-----------------------------------------------------------------------------
LEMMA TopUpsInitial == Init => TopUpsInv
<1> SUFFICES ASSUME Init
             PROVE  TopUpsInv
  OBVIOUS
<1>1. TypeOK
  BY BoundAssumption DEF Init, TypeOK, Idle
<1>2. PaidAfterSecret /\ EventsAreTrue
  BY DEF Init, PaidAfterSecret, EventsAreTrue, Idle
<1>3. CreditFollowsCapture /\ ToldOnce
  BY DEF Init, CreditFollowsCapture, ToldOnce
<1> QED
  BY <1>1, <1>2, <1>3 DEF TopUpsInv

\* CreateTopUp: until it ends, the intent has neither money nor an answer.
LEMMA CreateInv ==
    ASSUME TopUpsInv, NEW i \in Intents,
           \/ InsertIntent(i) \/ CallProvider(i) \/ ProviderFails(i)
           \/ Attach(i) \/ CreateStops(i)
    PROVE  TopUpsInv'
<1> USE DEF TopUpsInv, webhookVars
<1>1. creating[i] \in {"none", "inserted", "called"}
  BY DEF InsertIntent, CallProvider, ProviderFails, Attach, CreateStops
<1>2. provider[i] # "captured" /\ credits[i] # 1 /\ status[i] # "succeeded"
  BY <1>1 DEF PaidAfterSecret, CreditFollowsCapture
<1>3. /\ UNCHANGED <<sent, recorded, acked, handler, credits, told>>
      /\ \A j \in Intents \ {i} :
           /\ creating'[j] = creating[j]
           /\ provider'[j] = provider[j]
           /\ status'[j] = status[j]
  BY DEF InsertIntent, CallProvider, ProviderFails, Attach, CreateStops, TypeOK
<1>4. /\ status'[i] # "succeeded"
      /\ provider'[i] # "captured"
  BY <1>2 DEF InsertIntent, CallProvider, ProviderFails, Attach, CreateStops, TypeOK
<1>5. TypeOK'
  <2>1. creating' \in [Intents -> {"none", "inserted", "called", "secret", "ended"}]
    BY DEF InsertIntent, CallProvider, ProviderFails, Attach, CreateStops, TypeOK
  <2>2. status' \in [Intents -> {"none", "created", "processing", "succeeded",
                                 "failed", "canceled"}]
    BY DEF InsertIntent, CallProvider, ProviderFails, Attach, CreateStops, TypeOK
  <2>3. provider' \in [Intents -> {"absent", "open", "captured", "canceled"}]
    BY DEF InsertIntent, CallProvider, ProviderFails, Attach, CreateStops, TypeOK
  <2>4. attached' \in SUBSET Intents /\ failures' \in 0..MaxFailures
    BY BoundAssumption
       DEF InsertIntent, CallProvider, ProviderFails, Attach, CreateStops, TypeOK
  <2> QED
    BY <1>3, <2>1, <2>2, <2>3, <2>4 DEF TypeOK
<1>6. PaidAfterSecret'
  BY <1>3, <1>4 DEF PaidAfterSecret
<1>7. EventsAreTrue'
  BY <1>2, <1>3 DEF EventsAreTrue, TypeOK, Events
<1>8. CreditFollowsCapture'
  BY <1>2, <1>3, <1>4 DEF CreditFollowsCapture
<1>9. ToldOnce'
  BY <1>2, <1>3, <1>4 DEF ToldOnce
<1> QED
  BY <1>5, <1>6, <1>7, <1>8, <1>9

\* The provider.
LEMMA PayInv ==
    ASSUME TopUpsInv, NEW i \in Intents,
           \/ Capture(i) \/ EventAfterCapture(i) \/ CancelAtProvider(i)
           \/ \E v \in Verdicts : Attempt(i, v)
    PROVE  TopUpsInv'
<1> USE DEF TopUpsInv, localVars, webhookVars
<1>1. PICK v \in Verdicts, c \in Copies :
        /\ sent' = sent \cup {[intent |-> i, verdict |-> v, copy |-> c]}
        /\ v = "succeeded" => provider'[i] = "captured"
  BY DEF Capture, EventAfterCapture, CancelAtProvider, Attempt, Send, Verdicts, TypeOK
<1>2. /\ UNCHANGED <<status, creating, attached, credits, told, recorded,
                     acked, handler, failures>>
      /\ provider' \in [Intents -> {"absent", "open", "captured", "canceled"}]
      /\ \A j \in Intents \ {i} : provider'[j] = provider[j]
      /\ provider[i] = "captured" => provider'[i] = "captured"
      /\ provider'[i] = "captured" => creating[i] = "secret"
  BY DEF Capture, EventAfterCapture, CancelAtProvider, Attempt, TypeOK, PaidAfterSecret
<1>3. [intent |-> i, verdict |-> v, copy |-> c] \in Events
  BY DEF Events
<1>4. TypeOK'
  BY <1>1, <1>2, <1>3 DEF TypeOK
<1>5. PaidAfterSecret'
  BY <1>2 DEF PaidAfterSecret
<1>6. EventsAreTrue'
  <2>1. \A e \in sent' : e.verdict = "succeeded" => provider'[e.intent] = "captured"
    <3> SUFFICES ASSUME NEW e \in sent', e.verdict = "succeeded"
                 PROVE  provider'[e.intent] = "captured"
      OBVIOUS
    <3>1. CASE e \in sent
      <4>1. e.intent \in Intents /\ provider[e.intent] = "captured"
        BY <3>1 DEF EventsAreTrue, TypeOK, Events
      <4> QED
        BY <1>2, <4>1
    <3>2. CASE e = [intent |-> i, verdict |-> v, copy |-> c]
      BY <1>1, <3>2
    <3> QED
      BY <1>1, <3>1, <3>2
  <2> QED
    BY <1>2, <2>1 DEF EventsAreTrue
<1>7. CreditFollowsCapture' /\ ToldOnce'
  BY <1>2 DEF CreditFollowsCapture, ToldOnce
<1> QED
  BY <1>4, <1>5, <1>6, <1>7

\* A handler takes an event, gives up, or answers without a credit: only its
\* own record and the record of events change, and the status never to or
\* from "succeeded".
LEMMA QuietInv ==
    ASSUME TopUpsInv, NEW h \in Handlers,
           \/ \E e \in sent : Deliver(h, e)
           \/ ApplyUnknown(h) \/ ApplyStatus(h) \/ HandlerStops(h)
    PROVE  TopUpsInv'
<1> USE DEF TopUpsInv, localVars
<1>1. /\ UNCHANGED <<creating, attached, provider, sent, credits, told>>
      /\ recorded \subseteq recorded' /\ recorded' \subseteq sent
      /\ acked' \subseteq recorded'
      /\ failures' \in 0..MaxFailures
  <2>1. CASE \E e \in sent : Deliver(h, e)
    BY <2>1 DEF Deliver, TypeOK
  <2>2. CASE ApplyUnknown(h) \/ ApplyStatus(h)
    BY <2>2 DEF ApplyUnknown, ApplyStatus, Answer, Working, TypeOK, EventsAreTrue
  <2>3. CASE HandlerStops(h)
    BY <2>3, BoundAssumption DEF HandlerStops, TypeOK
  <2> QED
    BY <2>1, <2>2, <2>3
<1>2. \E new \in Record :
        /\ handler' = [handler EXCEPT ![h] = new]
        /\ \/ new.step = "idle"
           \/ new.step = "apply" /\ new.event \in recorded'
           \/ new = handler[h]
  <2>1. Idle \in Record /\ Idle.step = "idle"
    BY DEF Idle, Record
  <2>2. ASSUME NEW e \in sent, Deliver(h, e)
        PROVE  \E new \in Record :
                 /\ handler' = [handler EXCEPT ![h] = new]
                 /\ \/ new.step = "idle"
                    \/ new.step = "apply" /\ new.event \in recorded'
                    \/ new = handler[h]
    <3>1. CASE e \in recorded
      <4>1. handler' = [handler EXCEPT ![h] = handler[h]] /\ handler[h] \in Record
        BY <2>2, <3>1 DEF Deliver, TypeOK, Record
      <4> QED
        BY <4>1
    <3>2. CASE e \notin recorded
      <4>1. [event |-> e, step |-> "apply"] \in Record
        BY DEF Record, TypeOK
      <4> QED
        BY <2>2, <3>2, <4>1 DEF Deliver
    <3> QED
      BY <3>1, <3>2
  <2>3. CASE handler' = [handler EXCEPT ![h] = Idle]
    BY <2>1, <2>3
  <2> QED
    BY <2>2, <2>3 DEF ApplyUnknown, ApplyStatus, Answer, HandlerStops
<1>3. /\ status' \in [Intents -> {"none", "created", "processing", "succeeded",
                                  "failed", "canceled"}]
      /\ \A i \in Intents : status'[i] = "succeeded" <=> status[i] = "succeeded"
  <2>1. CASE ApplyStatus(h)
    <3> DEFINE e == handler[h].event
    <3>1. e \in Events /\ e.verdict \in Verdicts \ {"succeeded"} /\ e.intent \in Intents
      BY <2>1 DEF ApplyStatus, Working, EventsAreTrue, TypeOK, Events
    <3>2. Sets[e.verdict] \in {"processing", "failed", "canceled"}
      BY <3>1 DEF Sets, Verdicts
    <3>3. ~MayLeave(e.verdict, "succeeded")
      BY <3>1 DEF MayLeave, Verdicts
    <3>4. status' = [status EXCEPT ![e.intent] =
                       IF MayLeave(e.verdict, @) THEN Sets[e.verdict] ELSE @]
      BY <2>1 DEF ApplyStatus
    <3> HIDE DEF e
    <3>5. CASE MayLeave(e.verdict, status[e.intent])
      <4>1. status' = [status EXCEPT ![e.intent] = Sets[e.verdict]]
        BY <3>4, <3>5
      <4>2. status[e.intent] # "succeeded"
        BY <3>3, <3>5
      <4> QED
        BY <3>1, <3>2, <4>1, <4>2 DEF TypeOK
    <3>6. CASE ~MayLeave(e.verdict, status[e.intent])
      <4>1. status' = [status EXCEPT ![e.intent] = status[e.intent]]
        BY <3>4, <3>6
      <4> QED
        BY <4>1 DEF TypeOK
    <3> QED
      BY <3>5, <3>6
  <2>2. CASE UNCHANGED status
    BY <2>2 DEF TypeOK
  <2> QED
    BY <2>1, <2>2 DEF Deliver, ApplyUnknown, HandlerStops
<1>4. TypeOK'
  BY <1>1, <1>2, <1>3 DEF TypeOK, Record
<1>5. EventsAreTrue'
  BY <1>1, <1>2 DEF EventsAreTrue, TypeOK
<1>6. PaidAfterSecret' /\ CreditFollowsCapture' /\ ToldOnce'
  BY <1>1, <1>3 DEF PaidAfterSecret, CreditFollowsCapture, ToldOnce
<1> QED
  BY <1>4, <1>5, <1>6

\* The two halves of credit.
LEMMA CreditInv ==
    ASSUME TopUpsInv, NEW h \in Handlers, Credit(h)
    PROVE  TopUpsInv'
<1> USE DEF TopUpsInv
<1> DEFINE e == handler[h].event
           i == e.intent
           new == [event |-> e, step |-> "mark"]
<1>1. e \in recorded /\ e \in Events /\ i \in Intents /\ e.verdict = "succeeded"
  BY DEF Credit, Working, EventsAreTrue, TypeOK, Events
<1>2. provider[i] = "captured"
  BY <1>1 DEF EventsAreTrue, TypeOK
<1>3. /\ credits' = [credits EXCEPT ![i] = 1]
      /\ UNCHANGED <<status, creating, attached, provider, sent, recorded,
                     acked, told, failures>>
  <2>1. ASSUME NEW j \in Intents
        PROVE  credits[j] = 0 \/ credits[j] = 1
    <3>1. credits[j] \in Nat /\ credits[j] <= 1
      BY DEF CreditFollowsCapture, TypeOK
    <3> QED
      BY <3>1
  <2>2. credits' = [credits EXCEPT ![i] = IF credits[i] = 0 THEN 1 ELSE credits[i]]
    BY DEF Credit
  <2>3. credits[i] = 0 \/ credits[i] = 1
    BY <1>1, <2>1
  <2>4. credits' = [credits EXCEPT ![i] = 1]
    BY <2>2, <2>3
  <2> QED
    BY <2>4 DEF Credit
<1>4. /\ handler' = [handler EXCEPT ![h] = new]
      /\ new \in Record /\ new.event = e
  <2>1. handler[h] \in Record
    BY DEF TypeOK, Record
  <2>2. [handler[h] EXCEPT !.step = "mark"] = new
    BY <2>1 DEF Record
  <2> QED
    BY <1>1, <2>2 DEF Credit, Record
<1>5. TypeOK'
  <2> HIDE DEF new
  <2>1. credits' \in [Intents -> Nat]
    BY <1>3 DEF TypeOK
  <2> QED
    BY <1>3, <1>4, <2>1 DEF TypeOK, Record
<1> HIDE DEF new, i, e
<1>6. PaidAfterSecret' /\ ToldOnce'
  BY <1>3 DEF PaidAfterSecret, ToldOnce
<1>7. CreditFollowsCapture'
  BY <1>1, <1>2, <1>3 DEF CreditFollowsCapture, TypeOK
<1>8. EventsAreTrue'
  <2>1. \A j \in Intents : credits[j] = 1 => credits'[j] = 1
    BY <1>3 DEF TypeOK
  <2>2. ASSUME NEW g \in Handlers, handler'[g].step # "idle"
        PROVE  /\ handler'[g].event \in recorded
               /\ handler'[g].step = "mark" =>
                    /\ handler'[g].event.verdict = "succeeded"
                    /\ credits'[handler'[g].event.intent] = 1
    <3>1. CASE g = h
      <4>1. handler'[g] = new
        BY <1>4, <3>1 DEF TypeOK
      <4> QED
        BY <1>1, <1>3, <1>4, <4>1 DEF TypeOK, i
    <3>2. CASE g # h
      <4>1. handler'[g] = handler[g]
        BY <1>4, <3>2 DEF TypeOK
      <4>2. handler[g].event \in recorded /\ handler[g].event.intent \in Intents
        BY <2>2, <4>1 DEF EventsAreTrue, TypeOK, Events
      <4> QED
        BY <2>1, <2>2, <4>1, <4>2 DEF EventsAreTrue
    <3> QED
      BY <3>1, <3>2
  <2> QED
    BY <1>3, <2>2 DEF EventsAreTrue
<1> QED
  BY <1>5, <1>6, <1>7, <1>8

LEMMA MarkInv ==
    ASSUME TopUpsInv, NEW h \in Handlers, Mark(h)
    PROVE  TopUpsInv'
<1> USE DEF TopUpsInv
<1> DEFINE i == handler[h].event.intent
<1>1. handler[h].event \in recorded /\ i \in Intents /\ credits[i] = 1
  BY DEF Mark, Working, EventsAreTrue, TypeOK, Events
<1>2. /\ status' = [status EXCEPT ![i] = "succeeded"]
      /\ told' = [told EXCEPT ![i] = IF status[i] = "succeeded" THEN @ ELSE @ + 1]
      /\ handler' = [handler EXCEPT ![h] = Idle]
      /\ acked' \subseteq recorded
      /\ UNCHANGED <<creating, attached, provider, sent, recorded, credits,
                     failures>>
  BY <1>1 DEF Mark, Answer, TypeOK
<1>3. Idle \in Record /\ Idle.step = "idle"
  BY DEF Idle, Record
<1>4. told'[i] = 1 /\ \A j \in Intents \ {i} : told'[j] = told[j]
  BY <1>1, <1>2 DEF ToldOnce, TypeOK
<1> HIDE DEF i
<1>5. TypeOK'
  <2>1. told' \in [Intents -> Nat]
    BY <1>1, <1>2 DEF TypeOK
  <2>2. status' \in [Intents -> {"none", "created", "processing", "succeeded",
                                 "failed", "canceled"}]
    BY <1>2 DEF TypeOK
  <2> QED
    BY <1>2, <1>3, <2>1, <2>2 DEF TypeOK, Record
<1>6. PaidAfterSecret'
  BY <1>2 DEF PaidAfterSecret
<1>7. EventsAreTrue'
  BY <1>2, <1>3 DEF EventsAreTrue, TypeOK
<1>8. CreditFollowsCapture'
  BY <1>1, <1>2 DEF CreditFollowsCapture, TypeOK
<1>9. ToldOnce'
  BY <1>1, <1>2, <1>4 DEF ToldOnce, TypeOK
<1> QED
  BY <1>5, <1>6, <1>7, <1>8, <1>9

LEMMA TopUpsStep == TopUpsInv /\ [Next]_vars => TopUpsInv'
<1> SUFFICES ASSUME TopUpsInv, [Next]_vars
             PROVE  TopUpsInv'
  OBVIOUS
<1>1. CASE UNCHANGED vars
  BY <1>1 DEF vars, TopUpsInv, TypeOK, PaidAfterSecret, EventsAreTrue,
              CreditFollowsCapture, ToldOnce
<1> QED
  BY <1>1, CreateInv, PayInv, QuietInv, CreditInv, MarkInv DEF Next, Handle

LEMMA TopUpsInductive == Spec => []TopUpsInv
  BY TopUpsInitial, TopUpsStep, PTL DEF Spec

-----------------------------------------------------------------------------
\* The theorems

\* Every reachable state is well typed; only recorded events are answered.
THEOREM TopUpsTypeCorrect == Spec => []TypeOK
  BY TopUpsInductive, PTL DEF TopUpsInv

\* A wallet is credited at most once for an intent, and only after a capture.
THEOREM OneCredit == Spec => []CreditFollowsCapture
  BY TopUpsInductive, PTL DEF TopUpsInv

\* The customer is told once, and exactly of what succeeded.
THEOREM CustomerIsToldOnce == Spec => []ToldOnce
  BY TopUpsInductive, PTL DEF TopUpsInv

\* Nothing takes a success back: not the events that come late, and not the
\* UPDATE at the end of CreateTopUp, which runs before anybody could pay.
THEOREM SuccessStays == Spec => SucceededIsFinal
<1> DEFINE Kept == \A i \in Intents : status[i] = "succeeded" => status'[i] = "succeeded"
<1>1. ASSUME TopUpsInv, [Next]_vars, NEW i \in Intents, status[i] = "succeeded"
      PROVE  status'[i] = "succeeded"
  <2>1. /\ creating[i] = "secret"
        /\ status[i] # "none"
    BY <1>1 DEF TopUpsInv, CreditFollowsCapture, PaidAfterSecret
  <2>2. ASSUME NEW h \in Handlers, ApplyStatus(h)
        PROVE  status'[i] = "succeeded"
    <3> DEFINE e == handler[h].event
    <3>1. e \in Events /\ e.verdict \in Verdicts \ {"succeeded"}
      BY <1>1, <2>2 DEF ApplyStatus, Working, TopUpsInv, EventsAreTrue, TypeOK, Events
    <3>2. ~MayLeave(e.verdict, "succeeded")
      BY <3>1 DEF MayLeave, Verdicts
    <3> QED
      BY <1>1, <2>2, <3>2 DEF ApplyStatus, TopUpsInv, TypeOK
  <2>3. CASE UNCHANGED status
    BY <1>1, <2>3
  <2>4. CASE \E j \in Intents : InsertIntent(j) \/ ProviderFails(j) \/ Attach(j)
    BY <1>1, <2>1, <2>4 DEF InsertIntent, ProviderFails, Attach, TopUpsInv, TypeOK
  <2>5. ASSUME NEW h \in Handlers, Mark(h)
        PROVE  status'[i] = "succeeded"
    BY <1>1, <2>5 DEF Mark, TopUpsInv, TypeOK
  <2> QED
    BY <1>1, <2>2, <2>3, <2>4, <2>5
       DEF Next, Handle, CallProvider, CreateStops, Capture, EventAfterCapture,
           CancelAtProvider, Attempt, Deliver, ApplyUnknown, Credit,
           HandlerStops, vars, localVars
<1>2. TopUpsInv /\ [Next]_vars => [Kept]_vars
  BY <1>1
<1> HIDE DEF Kept
<1>3. Spec => [][Kept]_vars
  BY <1>2, TopUpsInductive, PTL DEF Spec
<1> QED
  BY <1>3, PTL DEF SucceededIsFinal, Kept

-----------------------------------------------------------------------------
(***************************************************************************)
(* Refunds, for any number of them and a top-up of any amount.  The        *)
(* invariant follows a refund through its call (Progress) and says what    *)
(* the events and answers of the provider are worth (Reports).             *)
(***************************************************************************)
\* What a call has and has not done by a step.
Progress ==
    \A f \in Refunds :
      /\ step[f] \in {"idle", "counted", "checked", "inserted", "debited"} =>
           card[f] = "none"
      /\ step[f] \in {"debited", "answered", "refused", "marked"} => f \in debited
      /\ f \in linked \cup reversed => step[f] = "ended"
      /\ f \in linked => f \in debited \ reversed

\* A refund that somebody reports as succeeded has succeeded, and only a row
\* that knows the provider's id is told.
Reports ==
    \A f \in Refunds :
      /\ answer[f] = "succeeded" => card[f] = "succeeded"
      /\ <<f, "succeeded">> \in refundEvents => card[f] = "succeeded"
      /\ row[f] = "succeeded" => card[f] = "succeeded" /\ f \in linked

RefundsInv == RefundsTypeOK /\ Progress /\ Reports /\ CardOnlyAfterDebit

-----------------------------------------------------------------------------
LEMMA RefundsInitial == RefundsInit => RefundsInv
<1> SUFFICES ASSUME RefundsInit
             PROVE  RefundsInv
  OBVIOUS
<1>1. RefundsTypeOK
  BY TotalAssumption, RefundBoundAssumption DEF RefundsInit, RefundsTypeOK, Steps, Statuses
<1>2. Progress /\ Reports /\ CardOnlyAfterDebit
  BY DEF RefundsInit, Progress, Reports, CardOnlyAfterDebit
<1> QED
  BY <1>1, <1>2 DEF RefundsInv

\* The call up to the debit.
LEMMA DebitInv ==
    ASSUME RefundsInv, NEW f \in Refunds,
           \/ \E n \in 1..Total : CheckTotal(f, n)
           \/ CheckBalance(f) \/ Insert(f) \/ Post(f)
    PROVE  RefundsInv'
<1> USE DEF RefundsInv, Goto
<1>1. ASSUME NEW n \in 1..Total, CheckTotal(f, n)
      PROVE  RefundsInv'
  <2>1. RefundsTypeOK'
    BY <1>1, TotalAssumption DEF CheckTotal, RefundsTypeOK, Steps, providerVars, moneyVars
  <2> QED
    BY <1>1, <2>1 DEF CheckTotal, RefundsTypeOK, Progress, Reports, CardOnlyAfterDebit,
                      providerVars, moneyVars
<1>2. CASE CheckBalance(f)
  <2>1. RefundsTypeOK'
    BY <1>2 DEF CheckBalance, RefundsTypeOK, Steps, providerVars, moneyVars
  <2> QED
    BY <1>2, <2>1 DEF CheckBalance, RefundsTypeOK, Progress, Reports, CardOnlyAfterDebit,
                      providerVars, moneyVars
<1>3. CASE Insert(f)
  <2>1. RefundsTypeOK'
    BY <1>3 DEF Insert, RefundsTypeOK, Steps, Statuses, providerVars, moneyVars
  <2> QED
    BY <1>3, <2>1 DEF Insert, RefundsTypeOK, Progress, Reports, CardOnlyAfterDebit,
                      providerVars, moneyVars
<1>4. CASE Post(f)
  <2>1. amount[f] \in Int
    BY TotalAssumption DEF RefundsTypeOK
  <2>2. RefundsTypeOK'
    BY <1>4, <2>1 DEF Post, RefundsTypeOK, Steps, providerVars
  <2> QED
    BY <1>4, <2>2 DEF Post, RefundsTypeOK, Progress, Reports, CardOnlyAfterDebit,
                      providerVars
<1> QED
  BY <1>1, <1>2, <1>3, <1>4

\* The call to the provider.
LEMMA RefundProviderInv ==
    ASSUME RefundsInv, NEW f \in Refunds, ProviderAnswers(f) \/ RefundCallFails(f)
    PROVE  RefundsInv'
<1> USE DEF RefundsInv, Goto
<1>1. f \in debited /\ card[f] = "none" /\ f \notin linked /\ step[f] = "debited"
  BY DEF Progress, ProviderAnswers, RefundCallFails
<1>2. ASSUME NEW s \in {"none", "pending", "succeeded", "failed"},
             card' = [card EXCEPT ![f] = s],
             step' = [step EXCEPT ![f] = "answered"] \/ step' = [step EXCEPT ![f] = "refused"],
             answer' = [answer EXCEPT ![f] = s] \/ answer' = answer,
             UNCHANGED <<amount, row, linked, refundEvents, appliedEvents, moneyVars, refundFailures>>
      PROVE  RefundsInv'
  <2>1. RefundsTypeOK'
    BY <1>2 DEF RefundsTypeOK, Steps, Statuses, moneyVars
  <2>2. Progress' /\ CardOnlyAfterDebit'
    BY <1>1, <1>2 DEF RefundsTypeOK, Progress, CardOnlyAfterDebit, moneyVars
  <2>3. Reports'
    BY <1>1, <1>2 DEF RefundsTypeOK, Reports, moneyVars
  <2> QED
    BY <2>1, <2>2, <2>3
<1>3. CASE ProviderAnswers(f)
  <2>1. PICK s \in {"pending", "succeeded", "failed"} : card' = [card EXCEPT ![f] = s]
    BY <1>3 DEF ProviderAnswers, Execute
  <2>2. card'[f] = s
    BY <2>1 DEF RefundsTypeOK
  <2> QED
    BY <1>2, <1>3, <2>1, <2>2 DEF ProviderAnswers
<1>4. CASE RefundCallFails(f)
  <2>1. \E s \in {"none", "pending", "succeeded", "failed"} :
          card' = [card EXCEPT ![f] = s]
    <3>1. CASE Execute(f)
      BY <3>1 DEF Execute
    <3>2. CASE UNCHANGED card
      BY <1>1, <3>2 DEF RefundsTypeOK
    <3> QED
      BY <1>4, <3>1, <3>2 DEF RefundCallFails
  <2> QED
    BY <1>2, <1>4, <2>1 DEF RefundCallFails
<1> QED
  BY <1>3, <1>4

\* What follows the call, with the refundFailures between.
LEMMA FinishInv ==
    ASSUME RefundsInv, NEW f \in Refunds,
           Save(f) \/ MarkFailed(f) \/ Reverse(f) \/ Skip(f) \/ Stop(f)
    PROVE  RefundsInv'
<1> USE DEF RefundsInv, Goto
<1>1. CASE Save(f)
  <2>1. RefundsTypeOK'
    BY <1>1 DEF Save, RefundsTypeOK, Steps, providerVars, moneyVars
  <2> QED
    BY <1>1, <2>1 DEF Save, RefundsTypeOK, Progress, Reports, CardOnlyAfterDebit,
                      providerVars, moneyVars
<1>2. CASE MarkFailed(f)
  <2>1. RefundsTypeOK'
    BY <1>2 DEF MarkFailed, RefundsTypeOK, Steps, Statuses, providerVars, moneyVars
  <2> QED
    BY <1>2, <2>1 DEF MarkFailed, RefundsTypeOK, Progress, Reports, CardOnlyAfterDebit,
                      providerVars, moneyVars
<1>3. CASE Reverse(f)
  <2>1. amount[f] \in Int /\ f \in debited
    BY <1>3, TotalAssumption DEF Reverse, RefundsTypeOK, Progress
  <2>2. RefundsTypeOK'
    BY <1>3, <2>1 DEF Reverse, RefundsTypeOK, Steps, providerVars
  <2> QED
    BY <1>3, <2>2 DEF Reverse, RefundsTypeOK, Progress, Reports, CardOnlyAfterDebit,
                      providerVars
<1>4. CASE Skip(f) \/ Stop(f)
  <2>1. RefundsTypeOK'
    BY <1>4, RefundBoundAssumption DEF Skip, Stop, RefundsTypeOK, Steps, providerVars, moneyVars
  <2> QED
    BY <1>4, <2>1 DEF Skip, Stop, RefundsTypeOK, Progress, Reports, CardOnlyAfterDebit,
                      providerVars, moneyVars
<1> QED
  BY <1>1, <1>2, <1>3, <1>4

\* The provider's events and the customer.
LEMMA EventInv ==
    ASSUME RefundsInv,
           \/ \E f \in Refunds :
                \/ SendRefundEvent(f)
                \/ \E s \in Statuses : Decide(f, s) \/ Apply(f, s)
           \/ \E n \in 1..Total : Spend(n)
    PROVE  RefundsInv'
<1> USE DEF RefundsInv
<1>1. ASSUME NEW f \in Refunds, SendRefundEvent(f)
      PROVE  RefundsInv'
  <2>1. card[f] \in Statuses
    BY DEF RefundsTypeOK
  <2>2. RefundsTypeOK'
    BY <1>1, <2>1 DEF SendRefundEvent, RefundsTypeOK, moneyVars
  <2> QED
    BY <1>1, <2>2 DEF SendRefundEvent, Progress, Reports, CardOnlyAfterDebit, moneyVars
<1>2. ASSUME NEW f \in Refunds, NEW s \in Statuses, Decide(f, s)
      PROVE  RefundsInv'
  <2>1. RefundsTypeOK'
    BY <1>2 DEF Decide, RefundsTypeOK, moneyVars
  <2> QED
    BY <1>2, <2>1 DEF Decide, RefundsTypeOK, Progress, Reports, CardOnlyAfterDebit, moneyVars
<1>3. ASSUME NEW f \in Refunds, NEW s \in Statuses, Apply(f, s)
      PROVE  RefundsInv'
  <2>1. RefundsTypeOK'
    BY <1>3 DEF Apply, RefundsTypeOK, providerVars, moneyVars
  <2> QED
    BY <1>3, <2>1 DEF Apply, RefundsTypeOK, Progress, Reports, CardOnlyAfterDebit,
                      providerVars, moneyVars
<1>4. ASSUME NEW n \in 1..Total, Spend(n)
      PROVE  RefundsInv'
  <2>1. RefundsTypeOK'
    BY <1>4, TotalAssumption DEF Spend, RefundsTypeOK, providerVars
  <2> QED
    BY <1>4, <2>1 DEF Spend, Progress, Reports, CardOnlyAfterDebit, providerVars
<1> QED
  BY <1>1, <1>2, <1>3, <1>4

LEMMA RefundsStep == RefundsInv /\ [RefundsNext]_refundVars => RefundsInv'
<1> SUFFICES ASSUME RefundsInv, [RefundsNext]_refundVars
             PROVE  RefundsInv'
  OBVIOUS
<1>1. CASE UNCHANGED refundVars
  BY <1>1 DEF refundVars, RefundsInv, RefundsTypeOK, Progress, Reports, CardOnlyAfterDebit
<1> QED
  BY <1>1, DebitInv, RefundProviderInv, FinishInv, EventInv DEF RefundsNext

LEMMA RefundsInductive == RefundsSpec => []RefundsInv
  BY RefundsInitial, RefundsStep, PTL DEF RefundsSpec

-----------------------------------------------------------------------------
\* The theorems

\* Every reachable state is well typed, and only debits are reversed.
THEOREM RefundsTypeCorrect == RefundsSpec => []RefundsTypeOK
  BY RefundsInductive, PTL DEF RefundsInv

\* Money goes back to a card only after it left the wallet.
THEOREM DebitComesFirst == RefundsSpec => []CardOnlyAfterDebit
  BY RefundsInductive, PTL DEF RefundsInv

\* A refund that is shown as succeeded is one, and its debit stands.
THEOREM SucceededRefunds == RefundsSpec => []SucceededIsTrue
<1>1. RefundsInv => SucceededIsTrue
  BY DEF RefundsInv, Progress, Reports, SucceededIsTrue
<1> QED
  BY <1>1, RefundsInductive, PTL
================================================================================
