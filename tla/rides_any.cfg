\* Any app sends any event at any time; every await may throw.
SPECIFICATION Spec
CONSTANTS
    Riders = {r1}
    Drivers = {d1}
    Trips = {t1, t2}
    Slots = {s1, s2}
    None = None
    MaxSockets = 1
    MaxRequests = 1
    RepeatAnswers = TRUE
    MaxRestarts = 0
    Fallible <- AllPhases
SYMMETRY Symmetry
INVARIANTS
    RidesTypeOK
    SettledAtMostOnce
    FareOnlyIfStarted
    BusyOnlyWithTrip
\* The system stops at its bounds.
CHECK_DEADLOCK FALSE
