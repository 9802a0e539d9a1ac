SPECIFICATION TalkingSpec
CONSTANTS
    h1 = h1
    h2 = h2
    s1 = s1
    s2 = s2
    s3 = s3
    s4 = s4
    t1 = t1
    t2 = t2
    g1 = g1
    g2 = g2
    BROADCAST = BROADCAST
    Hosts = {h1, h2}
    Scenarios <- MCNetworks
    PUERTO_ELEFANTE = 30000
    MaxWire = 3
INVARIANTS
    TcpPathsAreOne
PROPERTIES
    ImplementsArpPath
    FloodEnds
    Resolved
    Connected
    PathRestored
CHECK_DEADLOCK FALSE
