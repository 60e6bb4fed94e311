SPECIFICATION Spec
CONSTANTS
    Contents = {c1, c2}
    NoContent = NoContent
    Picture = Picture
    Requests = {q1, q2, q3, q4}
    Workers = {}
    Ops = {"create", "sync", "syncCreate", "restore"}
    InFlight = 2
    MayFail = TRUE
CHECK_DEADLOCK FALSE
SYMMETRY DiagramSymmetry
INVARIANTS TypeOK VersionsContiguous ObjectsStored
