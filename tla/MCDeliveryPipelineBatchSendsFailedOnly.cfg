SPECIFICATION Spec
CONSTANTS
    Requests = {r1, r2}
    GithubIds = {d1}
    GenericIds = {g1}
    NoId = NoId
    Bodies = {b1}
    NoBody = NoBody
    Routed = FALSE
    Singles = {s1}
    Batches = {a1}
    IdemKeys = {}
    NoKey = NoKey
    MaxAttempts = 2
    Concurrency = 1
    PruneAbove = 0
PROPERTY BatchSendsFailedOnly
CHECK_DEADLOCK FALSE
