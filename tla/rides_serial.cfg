\* One ride handler at a time.
SPECIFICATION Spec
CONSTANTS
    Riders = {r1, r2}
    Drivers = {d1}
    Trips = {t1, t2}
    Slots = {s1}
    None = None
    MaxSockets = 1
    MaxRequests = 1
    RepeatAnswers = TRUE
    MaxRestarts = 0
    Fallible <- OutsidePhases
SYMMETRY Symmetry

    
PROPERTIES
    
    Settles
\* The system stops at its bounds.
CHECK_DEADLOCK FALSE
