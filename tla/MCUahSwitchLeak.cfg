SPECIFICATION Spec
CONSTANTS
    a = a
    b = b
    agr = agr
    self = self
    BC = BC
    BROADCAST = BC
    PUERTO_ELEFANTE = 30000
    Dp <- MCDp
    Scenarios <- MCLeakScenarios
    TIME_SEND = 9
    MaxGrowing = 1
PROPERTY PacketDeletedByCaller
CHECK_DEADLOCK FALSE
