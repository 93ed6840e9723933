SPECIFICATION Spec
CONSTANTS
  Customers = {c1, c2}
  Drivers = {d1, d2}
  Rides = {r1, r2}
  NoCustomer = NoCustomer
  NoDriver = NoDriver
SYMMETRY Symmetry
INVARIANTS
  OneActiveRide
  DriverHoldsTheAcceptedOffer
  OpenOffersAreLive
