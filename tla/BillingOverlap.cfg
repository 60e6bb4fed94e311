SPECIFICATION Spec
CONSTANTS
    Syncs = {s1, s2, s3}
    Tests = {t1}
    Resources = {r1, r2}
    InFlight = 3
    MayExpire = TRUE
    MayFail = TRUE
CHECK_DEADLOCK FALSE
SYMMETRY BillingSymmetry
INVARIANTS TypeOK SuccessMeansStored UsageHasResource 
