SPECIFICATION Spec
CONSTANTS
    Requests = {r1, r2}
    GithubIds = {d1}
    GenericIds = {g1}
    NoId = NoId
    Bodies = {b1, b2}
    NoBody = NoBody
    Routed = TRUE
    Singles = {s1}
    Batches = {a1}
    IdemKeys = {}
    NoKey = NoKey
    MaxAttempts = 1
    Concurrency = 1
    PruneAbove = 0
SYMMETRY Symmetry
INVARIANTS TypeOK OneBodyPerDelivery OneDispatchPerWindow DeliveredIsTrue NothingLost ReplayBudget ExhaustedIsSettled
PROPERTIES DeadLetterIsFinal KeepsContract
CHECK_DEADLOCK FALSE
