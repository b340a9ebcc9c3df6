CONSTANTS
    MpMode = TRUE
    Paths = {0, 1, 10}
    Sources = {0}
    Late <- MCLate
    None = None
SPECIFICATION OpticalSpec
INVARIANTS
    OpticalTypeOK
    RoutesMatchCircuits
    HopsBounded
CHECK_DEADLOCK FALSE
