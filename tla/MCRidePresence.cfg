SPECIFICATION SpecP
CONSTANTS
  Customers = {c1}
  Drivers = {d1, d2}
  Rides = {r1}
  NoCustomer = NoCustomer
  NoDriver = NoDriver
  NoRide = NoRide
SYMMETRY Symmetry
INVARIANTS
  PublishesOnlyToOwnRide
