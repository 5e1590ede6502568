SPECIFICATION FairSpec
CONSTANTS
    c1 = c1
    b1 = b1
    l1 = l1
    l2 = l2
    Consoles = {c1}
    Boards = {b1}
    Types = {"score", "status"}
    Lanes <- TwoForConsole
    MaxClicks = 2
    MaxTime = 2
INVARIANTS
    TypeOK
    ClickCountsOnce
    OwnClicksInOrder
PROPERTIES
    RefreshShowsOwnAppend
    EveryPageCatchesUp
