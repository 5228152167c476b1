\* Two handlers in flight in each component.
SPECIFICATION ServicesSpec
CONSTANTS
    Slots = {s1, s2}
    None = None
    PaidTrips = {t1}
    References = {x1, x2}
    Earners = {u1}
    RequestIds = {x1, x2, x3}
    MaxFunds = 1
    MinWithdrawal = 1
    MaxWithdrawal = 1
    Verdicts = {"approved", "rejected"}
    Atlas <- MCAtlas
    Banks <- MCBanks
    MaxSeedings = 2
    Names = {n1, n2}
    Groups = {g1}
    MaxRows = 3
    Countries = {"land"}
    States = {"north", "south"}
    Cities = {"town", "port"}
    CountryOf <- MCCountryOf
    StateOf <- MCStateOf
    LocationNames = {n1}
    Locations = {x1, x2}
    MaxPoint = 2
    Areas = {a1, a2}
    Kinds = {k1}
    FareIds = {x1, x2}
    Tariffs <- MCTariffs
    Minutes = {1}
    MaxHour = 2
    Customers = {u1, u2}
    PromoDrivers = {u1}
    PromoAreas = {a1, a2}
    Goals <- MCGoals
    MaxAsked = 1
    NoticeIds = {x1, x2, x3}
    Days = {d1, d2}
    Chatters = {"ann", "ben"}
    ChatSockets = {x1, x2, x3}
    ChatUserOf <- MCChatUserOf
    MessageIds = {m1}
    StaffOf <- MCStaffOf
    RideSockets = {x1, x2}
    EntityKeys = {a1, a2}
    Owners = {u1}
    MaxLicenses = 2
    MaxVehicles = 1
    VehicleKinds = {a1}
    MaxYear = 1
SYMMETRY Symmetry
INVARIANTS
    ServicesTypeOK
    SuccessIsPaid
    PaidOnlyIfCharged
    PendingPerRace
    
    
    ActiveInActive
    OneFarePerPlace
    PromoIsAsWanted
    CompletedByWorking
    DeliveredOnce
    EntitiesPerRace
    
    VerifiedPerRace
\* The system stops at its bounds.
CHECK_DEADLOCK FALSE
