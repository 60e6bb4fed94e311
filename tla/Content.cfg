SPECIFICATION Spec
CONSTANTS
    Requests = {q1, q2, q3}
    InFlight = 2
    MayFail = TRUE
    NoMem = NoMem
    Seed = Seed
    Null = Null
    Refs = {r1, r2}
    Shots = {s1, s2}
    Asset = Asset
    Gives = {{"name"}, {"note"}}
    MaxMaps = 1
    Workloads <- MCWorkloads
SYMMETRY Symmetric
CHECK_DEADLOCK FALSE
INVARIANTS TypeOK  FilesStored 
  
