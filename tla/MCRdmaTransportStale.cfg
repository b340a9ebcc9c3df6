CONSTANTS
    FlowSize = 7
    Mtu = 2
    Chunk = 4
    AckInterval = 2
    BackToZero = FALSE
    Window = 6
    Uint64 = 1000
    MayReorder = FALSE
    Losable <- NotTheTail
    MaxLost = 1
    MaxInFlight = 4
    NoQp = NoQp
SPECIFICATION TransportSpec
INVARIANTS
    WindowBlocksOnFlight
CHECK_DEADLOCK FALSE
