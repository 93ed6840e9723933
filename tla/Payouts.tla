------------------------------- MODULE Payouts -------------------------------
(***************************************************************************)
(* What drivers are owed and how Finance pays it: modules/payouts.         *)
(* CreateBatch debits each driver through the ledger and then inserts an   *)
(* item; SettleItem writes the bank's answer and then gives the money      *)
(* back.  Nothing is one transaction, so any of them stops half way.       *)
(* Several batches are made and several items settled at once: nothing     *)
(* keeps two batches from debiting one balance, nor an answer about one    *)
(* item from completing the batch while another waits for its reversal.    *)
(***************************************************************************)
EXTENDS Integers, FiniteSetsExt

CONSTANTS
    PaidDrivers, NoDriverPaid,
    Batches,
    MinPayoutMinor,
    MaxEarned, MaxCharged   \* the most that rides credit and debit: bounds

ASSUME PayoutsAssumption ==
    /\ NoDriverPaid \notin PaidDrivers
    /\ IsFiniteSet(Batches)
    /\ MinPayoutMinor \in Nat \ {0}
    /\ MaxEarned \in Nat /\ MaxCharged \in Nat

VARIABLES
    earned,     \* earned[d]: credited to the wallet by rides
    charged,    \* charged[d]: commissions of cash rides, debited from it
    banked,     \* drivers with a bank account
    batch,      \* batch[b]: the row's status, and where CreateBatch is: its
                \* step, the candidates left, the current one and his amount
    item,       \* item[b][d]: the row of payout_items
    posted,     \* posted[b][d]: debited under the key payout:b:d
    givenBack,  \* <<b, d>> whose payout_reversal key the ledger knows
    answering,  \* answering[b][d]: the step of SettleItem after its UPDATE
    overlapped  \* history: drivers whose balance a batch read while another
                \* was about to debit it

payoutVars ==
    <<earned, charged, banked, batch, item, posted, givenBack, answering, overlapped>>

ItemIds == Batches \X PaidDrivers

PostedIn(bs, d) == MapThenSumSet(LAMBDA b : posted[b][d], bs)

\* The payouts of a driver that did not come back.
PaidOut(d) == PostedIn({b \in Batches : <<b, d>> \notin givenBack}, d)

\* The driver's wallet; one who drives for cash may well be in debt.
Balance(d) == earned[d] - charged[d] - PaidOut(d)

PayoutsInit ==
    /\ earned = [d \in PaidDrivers |-> 0] /\ charged = [d \in PaidDrivers |-> 0]
    /\ banked = {}
    /\ batch = [b \in Batches |-> [status |-> "none", step |-> "idle", todo |-> {},
                                   at |-> NoDriverPaid, amount |-> 0]]
    /\ item = [b \in Batches |-> [d \in PaidDrivers |-> [status |-> "none", amount |-> 0]]]
    /\ posted = [b \in Batches |-> [d \in PaidDrivers |-> 0]]
    /\ givenBack = {}
    /\ answering = [b \in Batches |-> [d \in PaidDrivers |-> "no"]]
    /\ overlapped = {}

-----------------------------------------------------------------------------
\* A completed ride credits the driver (ride settlement, see RideSettlement).
Earn(d, amount) ==
    /\ earned[d] + amount <= MaxEarned
    /\ earned' = [earned EXCEPT ![d] = @ + amount]
    /\ UNCHANGED <<charged, banked, batch, item, posted, givenBack, answering, overlapped>>

\* A ride paid in cash debits its commission.
ChargeCommission(d, amount) ==
    /\ charged[d] + amount <= MaxCharged
    /\ charged' = [charged EXCEPT ![d] = @ + amount]
    /\ UNCHANGED <<earned, banked, batch, item, posted, givenBack, answering, overlapped>>

\* A driver gives his bank account; a later change keeps him banked.
SetBankAccount(d) ==
    /\ banked' = banked \cup {d}
    /\ UNCHANGED <<earned, charged, batch, item, posted, givenBack, answering, overlapped>>

\* The row of the batch commits, then the candidates are read.
CreateBatch(b) ==
    /\ batch[b].step = "idle"
    /\ batch' = [batch EXCEPT ![b] = [@ EXCEPT !.status = "pending", !.step = "each", !.todo = banked]]
    /\ UNCHANGED <<earned, charged, banked, item, posted, givenBack, answering, overlapped>>

\* The batches that have read the balance of the driver and not yet debited it.
Debiting(d) == {b \in Batches : batch[b].step = "debit" /\ batch[b].at = d}

\* The loop reads the balance of the next candidate; a small one is carried over.
PayNext(b) ==
    /\ batch[b].step = "each"
    /\ \E d \in batch[b].todo :
        LET rest == batch[b].todo \ {d} IN
        /\ batch' = [batch EXCEPT ![b] =
            IF Balance(d) < MinPayoutMinor
            THEN [@ EXCEPT !.todo = rest]
            ELSE [@ EXCEPT !.step = "debit", !.todo = rest, !.at = d, !.amount = Balance(d)]]
        /\ overlapped' = IF Debiting(d) = {} THEN overlapped ELSE overlapped \cup {d}
    /\ UNCHANGED <<earned, charged, banked, item, posted, givenBack, answering>>

\* The ledger moves the amount that was read: wallet to payout clearing.
DebitDriver(b) ==
    /\ batch[b].step = "debit"
    /\ posted' = [posted EXCEPT ![b][batch[b].at] = batch[b].amount]
    /\ batch' = [batch EXCEPT ![b].step = "insert"]
    /\ UNCHANGED <<earned, charged, banked, item, givenBack, answering, overlapped>>

InsertItem(b) ==
    /\ batch[b].step = "insert"
    /\ item' = [item EXCEPT ![b][batch[b].at] = [status |-> "pending", amount |-> batch[b].amount]]
    /\ batch' = [batch EXCEPT ![b] = [@ EXCEPT !.step = "each", !.at = NoDriverPaid, !.amount = 0]]
    /\ UNCHANGED <<earned, charged, banked, posted, givenBack, answering, overlapped>>

\* The totals are written and PayoutBatchCreated is emitted; the status stays.
CloseBatch(b) ==
    /\ batch[b].step = "each" /\ batch[b].todo = {}
    /\ batch' = [batch EXCEPT ![b].step = "done"]
    /\ UNCHANGED <<earned, charged, banked, item, posted, givenBack, answering, overlapped>>

\* A statement fails or the process ends: the call returns, and nothing resumes it.
BatchStops(b) ==
    /\ batch[b].step \in {"each", "debit", "insert"}
    /\ batch' = [batch EXCEPT ![b].step = "stopped"]
    /\ UNCHANGED <<earned, charged, banked, item, posted, givenBack, answering, overlapped>>

-----------------------------------------------------------------------------
HasPending(b) == \E d \in PaidDrivers : item[b][d].status = "pending"

\* The file for the bank lists the pending items.
ExportCSV(b) ==
    /\ HasPending(b)
    /\ batch[b].status \in {"pending", "exported"}
    /\ batch' = [batch EXCEPT ![b].status = "exported"]
    /\ UNCHANGED <<earned, charged, banked, item, posted, givenBack, answering, overlapped>>

\* Mutant: SettleItem does not look whether the item is still pending.
SettleItemAgain(b, d, status) ==
    /\ item[b][d].status # "none"
    /\ item' = [item EXCEPT ![b][d].status = status]
    /\ answering' = [answering EXCEPT ![b][d] = IF status = "failed" THEN "reverse" ELSE "close"]
    /\ UNCHANGED <<earned, charged, banked, batch, posted, givenBack, overlapped>>

\* Finance records the bank's answer; the statement takes a pending item only.
SettleItem(b, d, status) ==
    /\ item[b][d].status = "pending"
    /\ item' = [item EXCEPT ![b][d].status = status]
    /\ answering' = [answering EXCEPT ![b][d] = IF status = "failed" THEN "reverse" ELSE "close"]
    /\ UNCHANGED <<earned, charged, banked, batch, posted, givenBack, overlapped>>

\* The ledger gives a failed payment back, once per item.
ReverseItem(b, d) ==
    /\ answering[b][d] = "reverse"
    /\ givenBack' = givenBack \cup {<<b, d>>}
    /\ answering' = [answering EXCEPT ![b][d] = "close"]
    /\ UNCHANGED <<earned, charged, banked, batch, item, posted, overlapped>>

\* The batch is completed when it has no pending item, finished or not.
CloseIfSettled(b, d) ==
    /\ answering[b][d] = "close"
    /\ answering' = [answering EXCEPT ![b][d] = "no"]
    /\ batch' = [batch EXCEPT ![b].status = IF HasPending(b) THEN @ ELSE "completed"]
    /\ UNCHANGED <<earned, charged, banked, item, posted, givenBack, overlapped>>

\* The call ends early; the item keeps its answer and nothing retries the rest.
SettleStops(b, d) ==
    /\ answering[b][d] \in {"reverse", "close"}
    /\ answering' = [answering EXCEPT ![b][d] = "stopped"]
    /\ UNCHANGED <<earned, charged, banked, batch, item, posted, givenBack, overlapped>>

PayoutsNext ==
    \/ \E d \in PaidDrivers :
        \/ SetBankAccount(d)
        \/ \E amount \in 1 .. MaxEarned : Earn(d, amount)
        \/ \E amount \in 1 .. MaxCharged : ChargeCommission(d, amount)
    \/ \E b \in Batches :
        \/ CreateBatch(b) \/ PayNext(b) \/ DebitDriver(b) \/ InsertItem(b)
        \/ CloseBatch(b) \/ BatchStops(b) \/ ExportCSV(b)
        \/ \E d \in PaidDrivers :
            \/ \E status \in {"paid", "failed"} : SettleItem(b, d, status)
            \/ ReverseItem(b, d) \/ CloseIfSettled(b, d) \/ SettleStops(b, d)

PayoutsSpec == PayoutsInit /\ [][PayoutsNext]_payoutVars

-----------------------------------------------------------------------------
PayoutsTypeOK ==
    /\ earned \in [PaidDrivers -> 0 .. MaxEarned] /\ charged \in [PaidDrivers -> 0 .. MaxCharged]
    /\ banked \subseteq PaidDrivers
    /\ batch \in [Batches -> [
           status : {"none", "pending", "exported", "completed"},
           step : {"idle", "each", "debit", "insert", "done", "stopped"},
           todo : SUBSET PaidDrivers, at : PaidDrivers \cup {NoDriverPaid}, amount : Nat]]
    /\ item \in [Batches -> [PaidDrivers -> [status : {"none", "pending", "paid", "failed"}, amount : Nat]]]
    /\ posted \in [Batches -> [PaidDrivers -> Nat]]
    /\ givenBack \subseteq ItemIds
    /\ answering \in [Batches -> [PaidDrivers -> {"no", "reverse", "close", "stopped"}]]
    /\ overlapped \subseteq PaidDrivers

(***************************************************************************)
(* What the ledger moved, what the items say and what was earned agree,    *)
(* wherever a call stops.  An item stands for exactly the debit of its     *)
(* key, and a debit without one is that at which CreateBatch stands, or    *)
(* stopped.  Money went back only for an item that failed, and a failed    *)
(* item whose money is not back is one whose own SettleItem has still to   *)
(* post it, or ended before it did.  A driver was never paid more than he  *)
(* earned, unless two batches read his balance at once.                    *)
(***************************************************************************)
PayoutsAddUp ==
    /\ \A b \in Batches, d \in PaidDrivers :
        /\ item[b][d].status # "none" => item[b][d].amount = posted[b][d] /\ posted[b][d] >= MinPayoutMinor
        /\ posted[b][d] > 0 /\ item[b][d].status = "none" =>
               batch[b].at = d /\ batch[b].step \in {"insert", "stopped"}
        /\ <<b, d>> \in givenBack => item[b][d].status = "failed"
        /\ item[b][d].status = "failed" /\ <<b, d>> \notin givenBack =>
               answering[b][d] \in {"reverse", "stopped"}
    /\ \A d \in PaidDrivers \ overlapped : PaidOut(d) <= earned[d]
=============================================================================
