SPECIFICATION Spec
CONSTANTS
    Contents = {c1, c2}
    NoContent = NoContent
    Picture = Picture
    Requests = {q1, q2, q3}
    Workers = {w1}
    Ops = {"create", "update", "sync"}
    InFlight = 1
    MayFail = FALSE
CHECK_DEADLOCK FALSE
PROPERTIES SkipsOnlyNoOps
