---------------------------- MODULE MCLedgerPost ----------------------------
\* Three calls over two keys: two that race for one key beside a third, valid
\* lists of two and three postings, and one that does not balance.
EXTENDS LedgerPost

CONSTANTS wallet, earnings, commission

Debit(a, n) == [account |-> a, debit |-> n, credit |-> 0]
Credit(a, n) == [account |-> a, debit |-> 0, credit |-> n]

MCCodes == {wallet, earnings, commission}
Fee == <<Debit(wallet, 1), Credit(commission, 1)>>
Fare == <<Debit(wallet, 3), Credit(earnings, 2), Credit(commission, 1)>>
Crooked == <<Debit(wallet, 2), Credit(earnings, 1)>>
MCPostingLists == {Fee, Fare, Crooked}
=============================================================================
