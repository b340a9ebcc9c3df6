CONSTANTS
    FlowSize = 8
    Mtu = 2
    Chunk = 4
    AckInterval = 2
    BackToZero = TRUE
    Window = 0
    Uint64 = 1000
    MayReorder = TRUE
    Losable <- AnyOffset
    MaxLost = 2
    MaxInFlight = 3
    NoQp = NoQp
SPECIFICATION TransportSpec
INVARIANTS
    TransportTypeOK
    AckedIsDelivered
    NoStraddling
PROPERTIES
    ImplementsDelivery
CHECK_DEADLOCK FALSE
