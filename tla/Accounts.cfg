SPECIFICATION Spec
CONSTANTS
    Requests = {q1, q2, q3}
    InFlight = 2
    MayFail = TRUE
    NoMem = NoMem
    Seed = Seed
    Null = Null
    Emails = {e1, e2, e3}
    SeedEmail = e1
    AdminLogin = AdminLogin
    Seats = 2
    DiscoverLimit = 1
    Domains = {d1, d2}
    Migrations = 2
    Workloads <- MCWorkloads
SYMMETRY Symmetric
CHECK_DEADLOCK FALSE
INVARIANTS TypeOK NothingDangles UsedOnce  SetUpWhole
PROPERTIES SettingsStay AccessIsCurrent
