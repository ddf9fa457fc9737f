SPECIFICATION Spec
CONSTANTS
    Requests = {r1, r2}
    Backlog = {}
    Ids = {d1}
    NoId = NoId
    Bodies = {b1}
    NoBody = NoBody
    Singles = {s1}
    Batches = {}
    MaxAttempts = 2
    MaxHandlers = 3
    MaxErrors = 0
    MaxRestarts = 0
INVARIANT NoFalseMismatch
CHECK_DEADLOCK FALSE
