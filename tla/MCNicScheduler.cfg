CONSTANTS
    N = 3
    Pg <- FlowPg
    AckPg = 3
    Size <- FlowSize
    Window <- FlowWin
    Gaps <- FlowGaps
    Settings <- SettingSet
    Uint64 = 100
    MaxAnswers = 1
    MaxPauses = 1
    MaxNacks = 1
    None = None
SPECIFICATION FairNicSpec
INVARIANTS
    NicTypeOK
    StallsOnlyBehindABlockedFlow
    ServesItsChoice
    RoundRobinWait
PROPERTIES
    CompletedIsSilent
    FlowsComplete
CHECK_DEADLOCK FALSE
