SPECIFICATION FairSpec
CONSTANTS
    BaseMs = 1
    IncrementMs = 0
    DelayMs = 0
    p1 = p1
    p2 = p2
    t1 = t1
    Pages = {p1}
    Games = {g1}
    Tabs = {t1}
    TabOf <- OneTab
    NoGame = NoGame
    NoDoc = NoDoc
    Positions = {"open", "checkmate"}
    MaxPlies = 2
PROPERTIES
    ResultIsShown
