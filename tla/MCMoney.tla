------------------------------- MODULE MCMoney -------------------------------
\* The ledger's own transactions, and the settlement of rides that builds on
\* them.  A behaviour is one of the two: focus, fixed at the start, says which.
\*   ledger: three calls over two keys, so that two race for one key beside a
\*     third; valid lists of two and three postings, and one that does not
\*     balance;
\*   settlement: two rides of one payer, so that the debit of one is what the
\*     other's balance check misses, and two settlers: a handler and the worker.
EXTENDS LedgerPost, RideSettlement

CONSTANTS wallet, earnings, commission

Debit(a, n) == [account |-> a, debit |-> n, credit |-> 0]
Credit(a, n) == [account |-> a, debit |-> 0, credit |-> n]

MCCodes == {wallet, earnings, commission}
Toll == <<Debit(wallet, 1), Credit(commission, 1)>>
Fare == <<Debit(wallet, 3), Credit(earnings, 2), Credit(commission, 1)>>
Crooked == <<Debit(wallet, 2), Credit(earnings, 1)>>
MCPostingLists == {Toll, Fare, Crooked}

\* One of the calls has a fixed key, which loses nothing since keys are alike,
\* and posts a toll.
TollCall == CHOOSE p \in Calls : TRUE
TollCallIsFixed ==
    /\ key[TollCall] \in {NoKey, CHOOSE k \in Keys : TRUE}
    /\ sent[TollCall] \in {<<>>, Toll}

VARIABLE focus

MoneyInit ==
    /\ Init
    /\ SettlementInit
    /\ focus \in {"ledger", "settlement"}

MoneyNext ==
    /\ \/ focus = "ledger" /\ Next /\ TollCallIsFixed' /\ UNCHANGED settlementVars
       \/ focus = "settlement" /\ SettlementNext /\ UNCHANGED vars
    /\ UNCHANGED focus

MoneySpec ==
    /\ MoneyInit /\ [][MoneyNext]_<<vars, settlementVars, focus>>
    /\ Fairness /\ SettlementFairness

\* The two type invariants.
MoneyTypeOK == TypeOK /\ SettlementTypeOK
=============================================================================
