SPECIFICATION FairSpec
CONSTANTS
    Workers = {w1}
    Requests = {q1}
    MaxRuns = 1
    MaxRunAttempts = 2
    MaxAttempts = 1
    ClaimBound = 2
    MaxRetries = 1
    Polls = {p1}
    NoOwner = NoOwner
CHECK_DEADLOCK FALSE
INVARIANT PollCanFinish
 
