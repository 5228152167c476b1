\* Two handlers in flight in each component.  The rows of the tables are the same
\* three model values in each, so that one symmetry serves all.
SPECIFICATION AccountsSpec
CONSTANTS
    Slots = {s1, s2}
    None = None
    Holders = {u1}
    Tokens = {x1, x2, x3}
    OtpTypes = {"login", "phone"}
    People = {x1, x2, x3}
    Phones = {x1, x2, x3}
    AccountOfficers = {m1, m2}
    Supervisors = {v1}
    Callers = {u1, u2}
    Root = u1
    RoleNames = {"super-admin", "clerk"}
    Calls <- MCCalls
    MaxRoles = 3
    Permissions = {a1, a2}
    DriverGrants = {a1}
    SupervisorGrants = {a2}
    Admins = {u1}
    Officers = {m1}
    MaxRuns = 3
SYMMETRY Symmetry
INVARIANTS
    AccountsTypeOK
    LiveTokensPerRace
    AcceptedPerRace
    
    
    EndpointsAnswerable
    
PROPERTIES
    PassedIsGranted
\* The system stops at its bounds.
CHECK_DEADLOCK FALSE
