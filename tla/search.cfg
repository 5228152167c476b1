\* Every order and every choice of up to three drivers.
SPECIFICATION SearchSpec
CONSTANTS
    Vehicles = {"car", "bike"}
    Areas = {"town", "other"}
    Drivers <- MCDrivers
    MaxFound = 3
    OweLimit = 2
INVARIANTS
    RankedByScoreThenDistance
    OffersAreFreeDrivers
    DebtorsTakeNoCash
\* One search.
CHECK_DEADLOCK FALSE
