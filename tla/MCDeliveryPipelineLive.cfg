SPECIFICATION Spec
CONSTANTS
    Requests = {r1, r2}
    GithubIds = {}
    GenericIds = {g1}
    NoId = NoId
    Bodies = {b1}
    NoBody = NoBody
    Routed = FALSE
    Singles = {}
    Batches = {a1, a2}
    IdemKeys = {k1}
    NoKey = NoKey
    MaxAttempts = 3
    Concurrency = 1
    PruneAbove = 0
PROPERTIES DecidesFates BatchesDrain
CHECK_DEADLOCK FALSE
