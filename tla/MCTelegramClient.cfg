SPECIFICATION Spec
CONSTANTS
    Calls = {c1, c2, c3}
    Threshold = 1
    Timeout = 1
    HalfOpenMax = 1
    Retries = 1
INVARIANTS TypeOK CopiesAccounted
PROPERTIES ImplementsBreaker FairToBreaker TrialDecides WindowEnds
CHECK_DEADLOCK FALSE
