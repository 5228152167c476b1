------------------------------ MODULE MCDispatch ------------------------------
EXTENDS RideDispatch, TLC

\* Riders, drivers, trips and slots are told apart only by what happened to them.
Symmetry == Permutations(Riders) \cup Permutations(Drivers)
                \cup Permutations(Trips) \cup Permutations(Slots)
=============================================================================
