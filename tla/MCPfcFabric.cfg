CONSTANTS
    NumPorts = 2
    NumPrios = 2
    Sizes = {1}
    buffer_size = 2
    reserve = 0
    resume_offset = 0
    headroom <- MCHeadroom
    pfc_a_shift <- MCShift
    UintRange = 1000
    Routes <- BothWays
    BypassLimit = 0
    OpticalPorts = {}
    MaxHighPrio = 1
    NoPacket = NoPacket
    Traffic <- TwoAndOne
    Pausers = {2}
    WireLength = 1
    Corruptible = {"data"}
    MaxCorrupt = 1
SPECIFICATION FairFabricSpec
INVARIANTS
    FabricTypeOK
    PfcAgreement
    MustBePaused
PROPERTIES
    EveryPauseEnds
    EveryQueueServed
