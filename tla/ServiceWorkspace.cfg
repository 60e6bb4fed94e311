SPECIFICATION Spec
CONSTANTS
    Requests = {q1, q2, q3}
    InFlight = 2
    MayFail = TRUE
    NoMem = NoMem
    Old = Old
    None = None
    DbNames = {n1, n2}
    Schemas = {s1, s2}
    Refs = {r1}
    PoolSize = 2
    OldTest = OldTest
    NoTest = NoTest
    Workloads <- MCWorkloads
SYMMETRY Symmetric
CHECK_DEADLOCK FALSE
INVARIANTS TypeOK SchemaIsVersioned ReportedOnce CutShortIsSafe
PROPERTIES DbVersionsRefineLog AloneIsExact
