SPECIFICATION BackofficeSpec
CONSTANTS
  Intents = {i1}
  Handlers = {h1, h2}
  NoEvent = NoEvent
  Copies = {1, 2}
  MaxEvents = 3
  MaxFailures = 2
  Refunds = {f1, f2}
  Total = 2
  MaxRefundFailures = 1
  PaidDrivers = {d1, d2}
  NoDriverPaid = NoDriverPaid
  Batches = {b1, b2}
  MinPayoutMinor = 1
  MaxEarned = 2
  MaxCharged = 1
  PaperDrivers = {d1}
  NoPaperDriver = NoPaperDriver
  RequiredTypes = {"license"}
  TaxiTypes = {"permit"}
  ExpiringTypes = {"license"}
  Papers = {1, 2, 3}
  OwnerOf <- MCOwnerOf
  TypeOf <- MCTypeOf
  OutboxEvents = {e1, e2}
  NoOutboxEvent = NoOutboxEvent
  Aggregates = {ride}
  AggregateOf <- MCAggregateOf
  LockedWriters = {ride}
  Users = {u1}
  NobodyPushed = NobodyPushed
  NoticeOf <- MCNoticeOf
  Nobody = Nobody
  Relays = {w1, w2}
  Consumers = {c1, c2}
  MaxFaults = 1
  ExportUsers = {u1, u2}
  Exports = {1, 2, 3}
  Asking <- MCAsking
  NoExport = 0
  ExportWorkers = {w1, w2}
  Uploads = {m1, m2}
  Columns = {logo, cover}
  ColumnOf <- MCColumnOf
  MediaCalls = {k1, k2}
  NoImage = NoImage
  d1 = d1
  d2 = d2
  u1 = u1
  u2 = u2
  e1 = e1
  e2 = e2
  ride = ride
  logo = logo
CHECK_DEADLOCK FALSE
INVARIANTS
  BackofficeTypeOK
  CreditFollowsCapture
  CardOnlyAfterDebit
  SucceededIsTrue
  PayoutsAddUp
  ApprovedWasVetted
  ToldOncePerEvent
  ExportsKeepTheirWord
  ShownImageIsStored
PROPERTIES
  CapturedIsCredited
  EventsInOrder
  NoticesArrive
