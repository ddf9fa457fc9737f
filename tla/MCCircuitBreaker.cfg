SPECIFICATION Spec
CONSTANTS
    Calls = {c1, c2, c3, c4, c5, c6, c7}
    Threshold = 2
    Timeout = 2
    HalfOpenMax = 2
SYMMETRY Symmetry
INVARIANTS TypeOK SlotAccounting ClosedBelowThreshold OpenIsTimed
PROPERTIES TripNeedsEvidence
CHECK_DEADLOCK FALSE
