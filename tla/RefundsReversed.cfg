\* Two refunds of one top-up by two people of Finance.
SPECIFICATION RefundsSpec
CONSTANTS
  Refunds = {f1, f2}
  Total = 2
  MaxRefundFailures = 1
CHECK_DEADLOCK FALSE
INVARIANT ReversedMeansNotRefunded
