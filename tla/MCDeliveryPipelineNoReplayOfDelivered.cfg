SPECIFICATION Spec
CONSTANTS
    Requests = {r1, r2}
    GithubIds = {d1}
    GenericIds = {g1}
    NoId = NoId
    Bodies = {b1}
    NoBody = NoBody
    Routed = FALSE
    Singles = {s1, s2}
    Batches = {}
    IdemKeys = {}
    NoKey = NoKey
    MaxAttempts = 2
    Concurrency = 1
    PruneAbove = 0
PROPERTY NoReplayOfDelivered
CHECK_DEADLOCK FALSE
