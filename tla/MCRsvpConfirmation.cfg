SPECIFICATION Spec
CONSTANTS
    p1 = p1
    p2 = p2
    coach = coach
    Parents = {p1, p2}
    Coach = coach
    SignedIn = {p1}
    Anonymous = anonymous
    NoDoc = nodoc
    NoPlayer = 0
    InitialRoster = 1
    Target <- Links
    Answers = {"going", "out"}
    Budgets <- OneParent
INVARIANT ConfirmedAsSent
CHECK_DEADLOCK FALSE
