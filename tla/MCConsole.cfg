SPECIFICATION ConsoleSpec
CONSTANTS
  Instances = {i1}
  ConfigReaders = {r1, r2}
  VersionRows <- MCVersionRows
  FlagRows <- MCFlagRows
  FirstVersions <- MCFirstVersions
  FirstFlags <- MCFirstFlags
  ClientVersion = 1
  Bucket = 50
  CacheTTL = 1
  NoSnapshot = NoSnapshot
  NoInstance = NoInstance
  NoRow = NoRow
  MaxConfigTime = 1
  MaxConfigChanges = 1
  Checkouts = {o1}
  Prices = {1, 3}
  Deltas <- MCDeltas
  MaxVersions = 3
  Trips = {trip1, trip2, trip3}
  RideTrips = {trip1, trip2}
  People = {ca, cb, driver1, shop1}
  Reviewing <- MCReviewing
  Posters = {q1, q2}
  NoTrip = NoTrip
  NoPerson = NoPerson
  Ratings = {5}
  Tickets = {t1, t2}
  SafetyTickets = {t1}
  Writers = {w1, w2}
  NoTicket = NoTicket
  MaxMessages = 2
  DayMinutes = 3
  Staff = {u1, u2}
  Owner = u1
  Timetables <- MCTimetables
  Editors = {e1, e2}
  NoTimetable = NoTimetable
  ca = ca
  cb = cb
  driver1 = driver1
  u1 = u1
  u2 = u2
  trip1 = trip1
  trip2 = trip2
  trip3 = trip3
  shop1 = shop1
  AddressRows = {1, 2, 3}
  MaxAddresses = 2
  AccountRequests = {a1, a2}
  NoAddress = NoAddress
  Facts = {1, 2, 3, 4}
  KindOf <- MCKindOf
  AmountOf <- MCAmountOf
  CalledDirectly = {3}
  BurstSize <- MCBurstSize
  BurstSum <- MCBurstSum
  DriverKind = "share"
  MinAssigned = 1
  MinShare = 30
  MaxAssigned = 1
  MaxDeliveries = 2
  Areas = {"centre", "county"}
  Pickups = {1}
  Distance <- MCDistance
  Radius <- MCRadius
  Cards <- MCCards
  Routes <- MCRoutes
  QuoteIds = {qa}
  NoQuote = NoQuote
  Keys = {k1, k2}
  QuoteTTL = 0
  MaxClock = 1
  MaxRules = 3
SYMMETRY MCSymmetry
CHECK_DEADLOCK FALSE
INVARIANTS
  ConsoleTypeOK
  ConfigIsRecent
  PricedFromOneVersion
  RatingsAddUp
  ClosedTicketsStaySilent
  OpensAsWritten
  AccountInOrder
  
  QuotedPriceHolds
