\* Two rides of one payer, so that the debit of one is what the other's
\* balance check misses, and two settlers: a handler and the worker.
SPECIFICATION SettlementSpec
CONSTANTS
  Rides = {r1, r2}
  Payers = {p1}
  NoPayer = NoPayer
  Settlers = {worker}
  NoRide = NoRide
  Price = 2
  Fee = 1
  MaxBalance = 4
  MaxFailures = 1
INVARIANT FailedMeansNotDebited
