SPECIFICATION MoneySpec
CONSTANTS
  Keys = {k1, k2}
  NoKey = NoKey
  Calls = {p1, p2, p3}
  wallet = wallet
  earnings = earnings
  commission = commission
  Codes <- MCCodes
  PostingLists <- MCPostingLists
  Rides = {r1, r2}
  Payers = {p1}
  NoPayer = NoPayer
  Settlers = {handler, worker}
  NoRide = NoRide
  Price = 2
  Fee = 1
  MaxBalance = 4
  MaxFailures = 1
INVARIANTS
  MoneyTypeOK
  ToldMeansRecorded
  DebitedAtMostOnce
  PaidMeansDebited
  InvoiceMatchesPaidRides
PROPERTIES
  ImplementsLedger
  
  PendingIsSettled
