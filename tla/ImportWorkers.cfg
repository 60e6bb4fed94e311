SPECIFICATION Spec
CONSTANTS
    Workers = {w1, w2}
    Requests = {}
    MaxRuns = 2
    MaxRunAttempts = 1
    MaxAttempts = 2
    ClaimBound = 3
    MaxRetries = 1
    Polls = {}
    NoOwner = NoOwner
CHECK_DEADLOCK FALSE
SYMMETRY WorkerSymmetry
INVARIANTS TypeOK NoLostStart RowIsCoherent
PROPERTIES MovesForward
