\* The process may be restarted and every await may throw.
SPECIFICATION Spec
CONSTANTS
    Riders = {r1}
    Drivers = {d1}
    Trips = {t1, t2}
    Slots = {s1}
    None = None
    MaxSockets = 2
    MaxRequests = 2
    RepeatAnswers = FALSE
    MaxRestarts = 1
    Fallible <- AllPhases
SYMMETRY Symmetry
PROPERTIES
    Settles
\* The system stops at its bounds.
CHECK_DEADLOCK FALSE
