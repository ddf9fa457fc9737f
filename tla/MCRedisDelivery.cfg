SPECIFICATION Spec
CONSTANTS
    Requests = {r1, r2, r3}
    Backlog = {r3}
    Ids = {d1}
    NoId = NoId
    Bodies = {b1}
    NoBody = NoBody
    Singles = {s1}
    Batches = {a1}
    MaxAttempts = 2
    MaxHandlers = 2
    MaxErrors = 2
    MaxRestarts = 1
SYMMETRY Symmetry
INVARIANTS TypeOK DeliveredIsTrue FailedIsOnRecord OneDispatchPerClaim DeadLetterEarned BudgetUnlessDisturbed
CHECK_DEADLOCK FALSE
