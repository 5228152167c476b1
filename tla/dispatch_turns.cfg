\* Apps that take turns: one request per rider, one answer per offer.
SPECIFICATION DispatchSpec
CONSTANTS
    Riders = {r1, r2}
    Drivers = {d1, d2}
    Trips = {t1, t2}
    Slots = {s1, s2}
    None = None
    MaxSockets = 1
    MaxRequests = 1
    RepeatAnswers = FALSE
SYMMETRY Symmetry
INVARIANTS
    
    OneTripPerRequest
    TripGoesToWhoAccepted
\* The dispatch stops at its bounds.
CHECK_DEADLOCK FALSE
