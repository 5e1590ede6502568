SPECIFICATION FairSpec
CONSTANTS
    BaseMs = 3
    IncrementMs = 1
    DelayMs = 1
    TickMs = 2
    MaxPlies = 3
    MaxElapsed = 16
INVARIANTS
    TypeOK
    ClockFollowsBoard
    ClockStopsAtEnd
    ChargedForOwnTime
    NoTimeLost
    ScoresheetReads
PROPERTIES
    OutcomeDecidedOnce
    TimedGameIsDecided
\* A decided game offers no further step.
CHECK_DEADLOCK FALSE
