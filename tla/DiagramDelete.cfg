SPECIFICATION Spec
CONSTANTS
    Contents = {c1, c2}
    NoContent = NoContent
    Picture = Picture
    Requests = {q1, q2, q3}
    Workers = {w1}
    Ops = {"create", "update", "createVersion", "touch", "thumbnail", "generate", "delete"}
    InFlight = 2
    MayFail = TRUE
CHECK_DEADLOCK FALSE
SYMMETRY DiagramSymmetry
PROPERTIES DeletedIsFinal
