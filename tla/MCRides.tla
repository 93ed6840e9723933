------------------------------ MODULE MCRides ------------------------------
\* Two rides, two drivers and two customers: enough for two rounds that pick
\* the same driver, a driver asked for two rides, and a ride two drivers want.
EXTENDS Rides, TLC

Symmetry == Permutations(Customers) \cup Permutations(Drivers)
              \cup Permutations(Rides)
=============================================================================
