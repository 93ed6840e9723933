SPECIFICATION MCSpec
CONSTANTS
  o1 = o1
  o2 = o2
  o3 = o3
  p1 = p1
  p2 = p2
  r1 = r1
  k1 = k1
  k2 = k2
  alice = alice
  bob = bob
  PaidJobs = {o1, o2, o3, p1, p2, r1}
  Orders = {o1, o2, o3}
  ByCourier = {o1, o2}
  Parcels = {p1, p2}
  Requests = {r1}
  References = {o1, o2, o3, p1, p2}
  FoodReferences = {o1, o2, o3}
  Couriers = {k1, k2}
  NoCourier = NoCourier
  Providers = {v1, v2}
  NoProvider = NoProvider
  OfferPrices = {1, 2}
  Scopes = {"food"}
  Limits = {1, 2}
  MethodOf <- MCMethodOf
  UserOf <- MCUserOf
  Scenes <- MCScenes
  Customers = {c1}
  Drivers = {d1, d2}
  Rides = {ride}
  NoCustomer = NoCustomer
  NoDriver = NoDriver
CHECK_DEADLOCK FALSE
INVARIANTS
  UsesAreLimited
