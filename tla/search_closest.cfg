\* The comment of findDriver: the closest driver is offered the ride first.
SPECIFICATION SearchSpec
CONSTANTS
    Vehicles = {"car", "bike"}
    Areas = {"town", "other"}
    Drivers <- MCDrivers
    MaxFound = 3
    OweLimit = 2
INVARIANTS
    ClosestDriverFirst
\* One search.
CHECK_DEADLOCK FALSE
