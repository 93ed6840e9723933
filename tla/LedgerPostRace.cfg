SPECIFICATION Spec
CONSTANTS
  Keys = {k1, k2}
  NoKey = NoKey
  Calls = {p1, p2, p3}
  wallet = wallet
  earnings = earnings
  commission = commission
  Codes <- MCCodes
  PostingLists <- MCPostingLists
CHECK_DEADLOCK FALSE
INVARIANT LostRaceIsAnswered
