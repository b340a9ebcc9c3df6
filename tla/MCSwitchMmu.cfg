CONSTANTS
    NumPorts = 2
    NumPrios = 2
    Sizes = {1, 2}
    buffer_size = 8
    reserve = 1
    resume_offset = 1
    headroom <- MCHeadroom
    pfc_a_shift <- MCShift
    UintRange = 1000
SPECIFICATION Spec
INVARIANTS
    TypeOK
    AccountingExact
    SharedPoolExact
    HeadroomOnlyWhilePaused
    DropOnlyAfterPause
    PausedHasTraffic
    OccupancyBounded
