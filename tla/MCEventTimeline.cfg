SPECIFICATION Spec
CONSTANTS
    r1 = r1
    r2 = r2
    r3 = r3
    Requests = {r1, r2, r3}
    Events <- AllEvents
    NoID = NoID
    NoType = NoType
    MaxAttempts = 2
SYMMETRY RequestSymmetry
INVARIANTS
    TypeOK
    RepliesHonest
PROPERTIES
    LogKeepsPromise
\* Every request ends.
CHECK_DEADLOCK FALSE
