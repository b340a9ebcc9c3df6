CONSTANTS
    FlowSize = 7
    Mtu = 2
    AckInterval = 2
    BackToZero = FALSE
    Window = 6
    Uint64 = 1000
    Reordering = {0}
    MaxLost = 1
    MaxOvertakes = 1
    MaxInFlight = 3
    NoQp = NoQp
SPECIFICATION FairMultipathSpec
INVARIANTS
    MultipathTypeOK
    PathsAgree
PROPERTIES
    CompletedIsTaken
    DeliversUntilLate
    FlowEnds
CHECK_DEADLOCK FALSE
