SPECIFICATION FairSpec
CONSTANTS
    Nobody = Nobody
    NoDraft = NoDraft
    u1 = u1
    u2 = u2
    t1 = t1
    t2 = t2
    t3 = t3
    d1 = d1
    d2 = d2
    Users = {u1, u2}
    Tabs <- MCTabs
    Devices = {d1, d2}
    DeviceOf <- MCDeviceOf
    Inputs = {"a"}
    MaxRows = 2
    Targets = {1}
    Scenarios <- MCScenarios
INVARIANTS
    TypeOK
    GamesAreReported
    SettingsFromOneForm
    WhatIsToldIsSo
PROPERTIES
    OwnGamesShown
    RoundTripKeepsInput
    EveryTapSettles
CHECK_DEADLOCK FALSE
