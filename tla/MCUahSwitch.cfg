SPECIFICATION Spec
CONSTANTS
    a = a
    b = b
    agr = agr
    self = self
    BC = BC
    BROADCAST = BC
    PUERTO_ELEFANTE = 30000
    Dp <- MCDp
    Scenarios <- MCScenarios
    TIME_SEND = 9
    MaxGrowing = 1
INVARIANTS
    SearchesAgree
    FloodFollowsLock
    DestroyedTwiceOnlyForPortZero
PROPERTIES
    LeaseKept
    ClientPortKept
CHECK_DEADLOCK FALSE
