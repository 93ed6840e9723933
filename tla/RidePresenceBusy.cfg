SPECIFICATION SpecP
CONSTANTS
  Customers = {c1}
  Drivers = {d1}
  Rides = {r1, r2}
  NoCustomer = NoCustomer
  NoDriver = NoDriver
  NoRide = NoRide
INVARIANT BusyMeansDriving
