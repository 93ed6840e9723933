---------------------------- MODULE JobPayments -----------------------------
(***************************************************************************)
(* How the jobs other than rides are paid: settle of orders, parcels and   *)
(* services, three copies of one protocol.  A settler reads the payer's    *)
(* balance, posts under the job's key and writes the status, in three      *)
(* transactions; the handler that finished the job is one settler and the  *)
(* worker's SettlePending another.  RideSettlement has the balances and    *)
(* the lists; here the balance read is any, and what matters is what the   *)
(* three steps leave behind next to the job's own state.                   *)
(***************************************************************************)
CONSTANTS
    PaidJobs,       \* whatever is paid for: orders, parcels, requests
    MethodOf        \* MethodOf[j]: "wallet", "cash", "covered" by wallet when
                    \* a coupon leaves the customer nothing to pay, or "free":
                    \* cash, with no commission, fee or discount to post.  The
                    \* amounts are in the row or, an order's commission_bp, in
                    \* the merchant's, which nothing in src/ changes

ASSUME MethodAssumption ==
    MethodOf \in [PaidJobs -> {"wallet", "cash", "covered", "free"}]

VARIABLES
    pay,        \* pay[j]: payment_status
    debited,    \* jobs whose key the ledger has recorded
    settling    \* settling[j][s]: the step s is at with j

payVars == <<pay, debited, settling>>

PayStatuses == {"none", "pending", "paid", "cash", "failed"}
JobSettlers == {"handler", "worker"}
PaySteps == {"idle", "called", "fail", "post", "write"}

PaymentsInit ==
    /\ pay = [j \in PaidJobs |-> "none"]
    /\ debited = {}
    /\ settling = [j \in PaidJobs |-> [s \in JobSettlers |-> "idle"]]

PayBecomes(j, status) ==
    /\ pay' = [pay EXCEPT ![j] = status]
    /\ UNCHANGED <<debited, settling>>

InCash(j) == MethodOf[j] \in {"cash", "free"}

SettlerGoes(j, s, step) == settling' = [settling EXCEPT ![j][s] = step]

\* The job is done: payment_status = 'pending', and after its commit the
\* handler calls settle with the row it wrote.
JobIsDone(j) ==
    /\ pay' = [pay EXCEPT ![j] = "pending"]
    /\ SettlerGoes(j, "handler", "called")
    /\ UNCHANGED debited

\* SettlePending finds the row.
TakeUpPending(j) ==
    /\ pay[j] = "pending"
    /\ settling[j]["worker"] = "idle"
    /\ SettlerGoes(j, "worker", "called")
    /\ UNCHANGED <<pay, debited>>

\* settle: for a wallet the balance is read first.
CheckBalance(j, s) ==
    /\ settling[j][s] = "called"
    /\ \/ SettlerGoes(j, s, "post")
       \/ ~InCash(j) /\ SettlerGoes(j, s, "fail")
    /\ UNCHANGED <<pay, debited>>

WriteFailed(j, s) ==
    /\ settling[j][s] = "fail"
    /\ pay' = [pay EXCEPT ![j] = IF @ = "pending" THEN "failed" ELSE @]
    /\ SettlerGoes(j, s, "idle")
    /\ UNCHANGED debited

\* ledger.Post is idempotent by key, and refuses the zero debit of a covered
\* job (Validate, ledger.go:57); without postings it is not called.
PostJob(j, s) ==
    /\ settling[j][s] = "post"
    /\ MethodOf[j] # "covered"
    /\ debited' = IF MethodOf[j] = "free" THEN debited ELSE debited \cup {j}
    /\ SettlerGoes(j, s, "write")
    /\ UNCHANGED pay

\* Mutant: the status is written before the debit.
WriteSettledEarly(j, s) ==
    /\ settling[j][s] = "post"
    /\ pay' = [pay EXCEPT ![j] =
         IF @ = "pending" THEN IF InCash(j) THEN "cash" ELSE "paid"
         ELSE @]
    /\ SettlerGoes(j, s, "idle")
    /\ UNCHANGED debited

WriteSettled(j, s) ==
    /\ settling[j][s] = "write"
    /\ pay' = [pay EXCEPT ![j] =
         IF @ = "pending" THEN IF InCash(j) THEN "cash" ELSE "paid"
         ELSE @]
    /\ SettlerGoes(j, s, "idle")
    /\ UNCHANGED debited

\* An error, or the process dies: the next settler starts over.
SettlerStops(j, s) ==
    /\ settling[j][s] # "idle"
    /\ SettlerGoes(j, s, "idle")
    /\ UNCHANGED <<pay, debited>>

SettleStep(j) ==
    \E s \in JobSettlers :
        \/ CheckBalance(j, s)
        \/ WriteFailed(j, s)
        \/ PostJob(j, s)
        \/ WriteSettled(j, s)
        \/ SettlerStops(j, s)

PaymentsTypeOK ==
    /\ pay \in [PaidJobs -> PayStatuses]
    /\ debited \subseteq PaidJobs
    /\ settling \in [PaidJobs -> [JobSettlers -> PaySteps]]
=============================================================================
