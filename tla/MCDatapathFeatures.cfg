SPECIFICATION DatapathSpec
CONSTANTS
    Chosen = {"features"}
    Packets = {p1, p2, p3}
    NULL = NULL
    NBuffers = 2
    MaxCookie = 2
    OVERWRITE_SECS = 1
    MaxTime = 4
    Remotes = {r1, r2}
    GenModulus = 4
    TXQ_LIMIT = 2
    AsyncConfigs <- MCAsyncConfigs
    DP_MAX_PORTS = 3
    Names = {"eth1", "eth2", "eth3"}
    LOCAL_PORT = LOCAL_PORT
    OFPP_ANY = OFPP_ANY
    OFPQ_ALL = OFPQ_ALL
    max_queues = 2
    PortMods <- MCPortMods
    Controllers = {c, s}
    SlaveControllers = {s}
    PipelineTables = 3
    TablesPerReply = 2
    Xids = {1, 2}
    Bodies <- MCBodies
    MaxRequests = 3
    Arriving <- MCArriving
    FieldValues = {1}
    Sources = {"flow", "packet_out"}
    MaxActions = 3
    BehindMpls = {TRUE, FALSE}
    WordBits = 2
    PacketWords = 5
    FieldSizes = {1, 2, 4}
    Senders = {"host", "switch"}
INVARIANT ErrorLeavesMessage
CHECK_DEADLOCK FALSE
