\* Apps that answer offers and ask for rides as often as they like.
SPECIFICATION DispatchSpec
CONSTANTS
    Riders = {r1}
    Drivers = {d1, d2}
    Trips = {t1, t2}
    Slots = {s1, s2}
    None = None
    MaxSockets = 1
    MaxRequests = 2
    RepeatAnswers = TRUE
SYMMETRY Symmetry
INVARIANTS
    TripHasAcceptedRequest
    
\* The dispatch stops at its bounds.
CHECK_DEADLOCK FALSE
