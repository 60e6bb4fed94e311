SPECIFICATION Spec
CONSTANTS
    Keys = {k1, k2}
    Slas = {gold}
    NoSla = NoSla
    Ids = {1, 2, 3}
    Names = {a, b, c}
    Ghost = Ghost
    NoName = NoName
    MaxServices = 2
    MaxDepth = 2
    SyncSize = 1
    Requests = {q1, q2, q3}
    InFlight = 2
    MayFail = TRUE
    NoMem = NoMem
    Workloads <- MCWorkloads
SYMMETRY CatalogSymmetry
CHECK_DEADLOCK FALSE
INVARIANTS TypeOK  DependenciesSound LimitOvershootBounded
PROPERTIES RefinesVersionLog 
