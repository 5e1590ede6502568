SPECIFICATION FairSpec
CONSTANTS
    p1 = p1
    p2 = p2
    coach = coach
    Parents = {p1, p2}
    Coach = coach
    SignedIn = {p1}
    Anonymous = anonymous
    NoDoc = nodoc
    NoPlayer = 0
    InitialRoster = 1
    Target <- Links
    Answers = {"going", "out"}
    Budgets <- FourInterplays
INVARIANTS
    TypeOK
    AnswerGoesToOwnKid
    ConfirmedIsStored
    OneEntryPerTry
    IndexedHaveAnswered
    RefreshHasWhatWasAdded
PROPERTIES
    EveryPageSettles
CHECK_DEADLOCK FALSE
