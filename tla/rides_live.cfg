\* What eventually happens, without restarts.
SPECIFICATION FairSpec
CONSTANTS
    Riders = {r1}
    Drivers = {d1}
    Trips = {t1}
    Slots = {s1, s2}
    None = None
    MaxSockets = 2
    MaxRequests = 1
    RepeatAnswers = FALSE
    MaxRestarts = 0
    Fallible <- OutsidePhases
PROPERTIES
    PricedTripIsCredited
    AcceptedRequestGetsTrip
\* The system stops at its bounds.
CHECK_DEADLOCK FALSE
