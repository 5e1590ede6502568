SPECIFICATION Spec
CONSTANTS
    r1 = r1
    r2 = r2
    r3 = r3
    Requests = {r1, r2, r3}
    Events <- OneEvent
    NoID = NoID
    NoType = NoType
    MaxAttempts = 2
SYMMETRY RequestSymmetry
INVARIANTS
    AppliedOnce
\* Every request ends.
CHECK_DEADLOCK FALSE
