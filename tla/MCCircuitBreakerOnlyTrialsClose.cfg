SPECIFICATION Spec
CONSTANTS
    Calls = {c1, c2, c3, c4}
    Threshold = 1
    Timeout = 1
    HalfOpenMax = 1
PROPERTY OnlyTrialsClose
CHECK_DEADLOCK FALSE
