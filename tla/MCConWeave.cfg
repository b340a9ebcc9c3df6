CONSTANTS
    Paths = {"fast", "slow"}
    BaseRTT = 2
    ExtraReplyDeadline = 1
    ExtraVOQFlushTime = 2
    TxExpiryTime = 16
    DefaultVOQWaitingTime = 7
    AgingTime = 40
    MinDelay <- MCMinDelay
    Jitter = 1
    ReplyDelay = 2
    Phases = {20, 40}
    MaxPackets = 5
    MaxTime = 10000
    None = None
SPECIFICATION ConWeaveSpec
INVARIANTS
    ConWeaveTypeOK
    AssertionsHold
    InOrder
    StableOnOnePath
    HoldBounded
VIEW MCView
CHECK_DEADLOCK FALSE
