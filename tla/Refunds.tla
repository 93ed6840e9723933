------------------------------ MODULE Refunds ------------------------------
(***************************************************************************)
(* Finance refunds a top-up to the card: Refund of payments/payments.go    *)
(* and the refund branch of apply, which handles the provider's refund     *)
(* events.                                                                 *)
(*                                                                         *)
(* Refund makes its reads, its row, the debit of the wallet, the call to   *)
(* the provider and what follows in one go, but in five transactions, so   *)
(* that two refunds of one top-up, the customer's spending and the events  *)
(* interleave with it.  The call may fail although the provider has made   *)
(* the refund, and the statements after a failed call ignore their errors. *)
(***************************************************************************)
EXTENDS Integers, FiniteSets, FiniteSetsExt

CONSTANTS
    Refunds,        \* calls of Refund, for one top-up that succeeded
    Total,          \* its amount
    MaxRefundFailures \* bound of the statements that fail and the calls that stop

ASSUME TotalAssumption == Total \in Nat \ {0}
ASSUME RefundBoundAssumption == MaxRefundFailures \in Nat

VARIABLES
    step,       \* step[f]: how far the call f is
    amount,     \* amount[f]: its amount_minor
    row,        \* row[f]: payment_refunds.status, "none" without a row
    linked,     \* rows with a provider_refund_id
    answer,     \* answer[f]: the status the provider answered f with
    card,       \* card[f]: the refund as the provider has it
    refundEvents, \* events the provider has made, as <<refund, status>>
    appliedEvents, \* events in payment_webhook_events
    debited,    \* refunds posted to the ledger
    reversed,   \* refunds whose reversal is posted too
    balance,    \* ledger.Balance of the customer's wallet
    refundFailures

refundVars == <<step, amount, row, linked, answer, card, refundEvents, appliedEvents,
               debited, reversed, balance, refundFailures>>
moneyVars == <<debited, reversed, balance>>
providerVars == <<card, refundEvents>>

Statuses == {"none", "pending", "succeeded", "failed"}
Steps == {"idle", "counted", "checked", "inserted", "debited", "answered", "refused",
          "marked", "ended"}

Goto(f, s) == step' = [step EXCEPT ![f] = s]

-----------------------------------------------------------------------------
RefundsInit ==
    /\ step = [f \in Refunds |-> "idle"]
    /\ amount = [f \in Refunds |-> 0]
    /\ row = [f \in Refunds |-> "none"]
    /\ linked = {}
    /\ answer = [f \in Refunds |-> "none"]
    /\ card = [f \in Refunds |-> "none"]
    /\ refundEvents = {}
    /\ appliedEvents = {}
    /\ debited = {}
    /\ reversed = {}
    /\ balance = Total
    /\ refundFailures = 0

\* The sum of the refunds of the top-up that have not failed.
Refunded ==
    LET live == {f \in Refunds : row[f] \in {"pending", "succeeded"}}
    IN  MapThenSumSet(LAMBDA f : amount[f], live)

\* The first check: the refunds of the top-up stay within it.
CheckTotal(f, n) ==
    /\ step[f] = "idle"
    /\ Refunded + n <= Total
    /\ Goto(f, "counted")
    /\ amount' = [amount EXCEPT ![f] = n]
    /\ UNCHANGED <<row, linked, answer, providerVars, appliedEvents, moneyVars, refundFailures>>

\* The second: the wallet still has the money.
CheckBalance(f) ==
    /\ step[f] = "counted"
    /\ Goto(f, IF balance < amount[f] THEN "ended" ELSE "checked")
    /\ UNCHANGED <<amount, row, linked, answer, providerVars, appliedEvents, moneyVars, refundFailures>>

Insert(f) ==
    /\ step[f] = "checked"
    /\ Goto(f, "inserted")
    /\ row' = [row EXCEPT ![f] = "pending"]
    /\ UNCHANGED <<amount, linked, answer, providerVars, appliedEvents, moneyVars, refundFailures>>

\* Mutant: an error of the debit is ignored.
PostIgnoringErrors(f) ==
    /\ step[f] = "inserted"
    /\ Goto(f, "debited")
    /\ UNCHANGED <<amount, row, linked, answer, providerVars, appliedEvents, moneyVars, refundFailures>>

Post(f) ==
    /\ step[f] = "inserted"
    /\ Goto(f, "debited")
    /\ debited' = debited \cup {f}
    /\ balance' = balance - amount[f]
    /\ UNCHANGED <<amount, row, linked, answer, providerVars, appliedEvents, reversed, refundFailures>>

-----------------------------------------------------------------------------
\* provider.Refund

Execute(f) ==
    \E status \in {"pending", "succeeded", "failed"} :
      card' = [card EXCEPT ![f] = status]

ProviderAnswers(f) ==
    /\ step[f] = "debited"
    /\ Execute(f)
    /\ answer' = [answer EXCEPT ![f] = card'[f]]
    /\ Goto(f, "answered")
    /\ UNCHANGED <<amount, row, linked, refundEvents, appliedEvents, moneyVars, refundFailures>>

\* A refusal, or a time-out of the HTTP client that may come too late.
RefundCallFails(f) ==
    /\ step[f] = "debited"
    /\ Execute(f) \/ UNCHANGED card
    /\ Goto(f, "refused")
    /\ UNCHANGED <<amount, row, linked, answer, refundEvents, appliedEvents, moneyVars, refundFailures>>

Save(f) ==
    /\ step[f] = "answered"
    /\ Goto(f, "ended")
    /\ row' = [row EXCEPT ![f] = answer[f]]
    /\ linked' = linked \cup {f}
    /\ UNCHANGED <<amount, answer, providerVars, appliedEvents, moneyVars, refundFailures>>

MarkFailed(f) ==
    /\ step[f] = "refused"
    /\ Goto(f, "marked")
    /\ row' = [row EXCEPT ![f] = "failed"]
    /\ UNCHANGED <<amount, linked, answer, providerVars, appliedEvents, moneyVars, refundFailures>>

Reverse(f) ==
    /\ step[f] = "marked"
    /\ Goto(f, "ended")
    /\ reversed' = reversed \cup {f}
    /\ balance' = balance + amount[f]
    /\ UNCHANGED <<amount, row, linked, answer, providerVars, appliedEvents, debited, refundFailures>>

\* One of these two statements fails, and its error is ignored.
Skip(f) ==
    /\ refundFailures < MaxRefundFailures
    /\ refundFailures' = refundFailures + 1
    /\ \/ step[f] = "refused" /\ Goto(f, "marked")
       \/ step[f] = "marked" /\ Goto(f, "ended")
    /\ UNCHANGED <<amount, row, linked, answer, providerVars, appliedEvents, moneyVars>>

\* Another statement fails, or the process dies.
Stop(f) ==
    /\ step[f] \notin {"idle", "ended"}
    /\ refundFailures < MaxRefundFailures
    /\ refundFailures' = refundFailures + 1
    /\ Goto(f, "ended")
    /\ UNCHANGED <<amount, row, linked, answer, providerVars, appliedEvents, moneyVars>>

-----------------------------------------------------------------------------
\* The provider's events, and the customer who spends what is left

Decide(f, status) ==
    /\ card[f] = "pending"
    /\ status \in {"succeeded", "failed"}
    /\ card' = [card EXCEPT ![f] = status]
    /\ UNCHANGED <<step, amount, row, linked, answer, refundEvents, appliedEvents, moneyVars, refundFailures>>

SendRefundEvent(f) ==
    /\ card[f] # "none"
    /\ refundEvents' = refundEvents \cup {<<f, card[f]>>}
    /\ UNCHANGED <<step, amount, row, linked, answer, card, appliedEvents, moneyVars, refundFailures>>

\* Mutant: the row is found by the refund's own id in the event's metadata.
ApplyUnlinked(f, status) ==
    /\ <<f, status>> \in refundEvents \ appliedEvents
    /\ appliedEvents' = appliedEvents \cup {<<f, status>>}
    /\ row' = [row EXCEPT ![f] = status]
    /\ UNCHANGED <<step, amount, linked, answer, providerVars, moneyVars, refundFailures>>

\* Recorded once, then one UPDATE by provider_refund_id: it finds no row
\* before Save, and none after a failed call.
Apply(f, status) ==
    /\ <<f, status>> \in refundEvents \ appliedEvents
    /\ appliedEvents' = appliedEvents \cup {<<f, status>>}
    /\ row' = [row EXCEPT ![f] = IF f \in linked THEN status ELSE @]
    /\ UNCHANGED <<step, amount, linked, answer, providerVars, moneyVars, refundFailures>>

Spend(n) ==
    /\ balance >= n
    /\ balance' = balance - n
    /\ UNCHANGED <<step, amount, row, linked, answer, providerVars, appliedEvents,
                   debited, reversed, refundFailures>>

-----------------------------------------------------------------------------
RefundsNext ==
    \/ \E f \in Refunds :
         \/ \E n \in 1..Total : CheckTotal(f, n)
         \/ CheckBalance(f) \/ Insert(f) \/ Post(f) \/ ProviderAnswers(f) \/ RefundCallFails(f)
         \/ Save(f) \/ MarkFailed(f) \/ Reverse(f) \/ Skip(f) \/ Stop(f)
         \/ SendRefundEvent(f)
         \/ \E status \in Statuses : Decide(f, status) \/ Apply(f, status)
    \/ \E n \in 1..Total : Spend(n)

RefundsSpec == RefundsInit /\ [][RefundsNext]_refundVars

-----------------------------------------------------------------------------
\* Properties

\* The type invariant; no refund is reversed that was not debited.
RefundsTypeOK ==
    /\ step \in [Refunds -> Steps]
    /\ amount \in [Refunds -> 0..Total]
    /\ row \in [Refunds -> Statuses]
    /\ linked \in SUBSET Refunds
    /\ answer \in [Refunds -> Statuses]
    /\ card \in [Refunds -> Statuses]
    /\ refundEvents \in SUBSET (Refunds \X Statuses)
    /\ appliedEvents \in SUBSET refundEvents
    /\ debited \in SUBSET Refunds
    /\ reversed \in SUBSET debited
    /\ balance \in Int
    /\ refundFailures \in 0..MaxRefundFailures

\* Money goes back to a card only after it left the wallet, wherever the call
\* stops.
CardOnlyAfterDebit == \A f \in Refunds : card[f] # "none" => f \in debited

\* A refund is shown as succeeded only if the provider has made it and the
\* wallet has paid for it for good, whatever late events are applied.
SucceededIsTrue ==
    \A f \in Refunds : row[f] = "succeeded" =>
      card[f] = "succeeded" /\ f \in debited \ reversed

\* `The money returns to the wallet (the refund did not happen)': a reversed
\* refund is not on its way to the card.
ReversedMeansNotRefunded ==
    \A f \in reversed : card[f] \in {"none", "failed"}
=============================================================================
