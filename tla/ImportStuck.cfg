SPECIFICATION Spec
CONSTANTS
    Workers = {w1}
    Requests = {q1}
    MaxRuns = 2
    MaxRunAttempts = 2
    MaxAttempts = 2
    ClaimBound = 2
    MaxRetries = 0
    Polls = {}
    NoOwner = NoOwner
CHECK_DEADLOCK FALSE
INVARIANT PollCanFinish
