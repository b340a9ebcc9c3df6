CONSTANTS
    NumPorts = 2
    NumPrios = 2
    Sizes = {1}
    buffer_size = 6
    reserve = 1
    resume_offset = 1
    headroom <- MCHeadroom
    pfc_a_shift <- MCShift
    UintRange = 1000
    Routes <- Leaf
    BypassLimit = 1
    OpticalPorts = {1}
    MaxHighPrio = 1
    NoPacket = NoPacket
SPECIFICATION NodeSpec
INVARIANTS
    NodeTypeOK
    WorkConserving
    RoundRobinFair
PROPERTIES
    DrivesUnit
