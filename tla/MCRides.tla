------------------------------- MODULE MCRides -------------------------------
EXTENDS Rides, TLC

\* Riders, drivers, trips and slots are told apart only by what happened to them.
Symmetry == Permutations(Riders) \cup Permutations(Drivers)
                \cup Permutations(Trips) \cup Permutations(Slots)

AllPhases == Phases \ {"idle"}

\* The awaits on the Google API and on the fare of the pickup's area.
OutsidePhases == {"quote", "price"}
=============================================================================
