SPECIFICATION ServicesSpec
CONSTANTS
    Bridges = {1, 2, 3}
    Ports = {1, 2}
    Cable <- MCCable
    Costs = {3}
    SpareIds = {0}
    MaxAge = 6
    HelloTime = 2
    ForwardDelay = 4
    HoldTime = 1
    AgeIncrement = 1
    BigEndian = FALSE
    MaxEvents = 1
    Tlvs <- MCTlvs
    MaxTlvs = 4
    Messages <- MCGoodMessages
    Faulty <- MCBadMessages
    MaxArrivals <- MCArrivals
    Rooms <- MCRooms
    Iterations = 2
    TxLimit = 1
    DrainLimit = 2
    RateLimit = 1
    BurstLimit = 1
    TokenCost = 2
    FirstTokens = 2
    QueueArray = 2
    PortMax = 3
    NumControllers = 2
    MaxBackoffTime = 1
    L1Size = 2
    L2Size = 2
    L3Size = 2
    SwitchPorts = {1, 4, 14}
    LocalPort = 14
    StpMaxPorts = 4
    MaxObjects = 3
    MaxWaiting = 2
    MaxChanges = 2
    Macs = {1, 2, 3}
    Vlans = {0}
    SrcPorts = {1, 2}
    MAC_MAX = 2
    HashOf <- MCHashOf
    LearnTimeout = 1
    MaxFlows = 1
    TfeSwitches = {"t1", "t2", "a1", "a2"}
    Hierarchy <- MCHierarchy
    TfeCable <- MCTfeCable
    UpperPorts <- MCUpperPorts
    TfeMode = "TFEPATH"
    FlowKinds = {TRUE, FALSE}
    ArpBlock = 0
    ArpExpire = 1
    TcpExpire = 0
    TfeHelloTime = 1
    MaxTfeTicks = 1
    MaxSyns = 1
    MaxData = 1
    Daemons = {d1, d2}
    Detached = {d1}
    Forced = {d2}
    MaxStarts = 2
INVARIANTS
    BridgesFormTree
    MatchesSurvive
    MessagesSurvive
    
    PortsFollowed
    LearningAgrees
    TfePathsHold
    PidFilesHold
CHECK_DEADLOCK FALSE
