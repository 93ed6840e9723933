--------------------------- MODULE MCRidePresence ---------------------------
\* One ride that two drivers want, one after the other: calls of both are in
\* flight together.
EXTENDS RidePresence, TLC

Symmetry == Permutations(Drivers)
=============================================================================
