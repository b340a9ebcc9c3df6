CONSTANTS
    NumPorts = 3
    NumPrios = 1
    Sizes = {1}
    buffer_size = 8
    reserve = 1
    resume_offset = 1
    headroom <- MCHeadroom
    pfc_a_shift <- MCShift
    UintRange = 1000
    Routes <- FanIn
    BypassLimit = 0
    OpticalPorts = {}
    MaxHighPrio = 1
    NoPacket = NoPacket
    Traffic <- OneEach
    Pausers = {3}
    WireLength = 1
    Corruptible = {"pause"}
    MaxCorrupt = 1
SPECIFICATION FabricSpec
INVARIANTS
    MustBePaused
