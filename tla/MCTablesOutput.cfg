SPECIFICATION MCSpec
CONSTANTS
    Fields = {"in_port", "eth_type", "pbb_isid"}
    ThreeBytes = {"pbb_isid"}
    Bits = {1}
    Compared <- ExactMatches
    TableIds = {0, 1}
    FLOW_TABLE_MAX_ENTRIES = 2
    g1 = g1
    g2 = g2
    GroupIds = {g1, g2}
    GROUP_TABLE_MAX_ENTRIES = 2
    GROUP_TABLE_MAX_BUCKETS = 3
    m1 = m1
    m2 = m2
    MeterIds = {m1, m2}
    DEFAULT_MAX_METER = 2
    METER_TABLE_MAX_BANDS = 3
    InitialBands = {2}
    FlowMods <- MCFlowMods
    GroupMods <- MCGroupMods
    MeterMods <- MCMeterMods
    FlowRequests <- MCFlowRequests
    PipelinePackets <- MCPackets
    ALL = ALL
    ANY = ANY
    NO_BUFFER = NO_BUFFER
    MaxTime = 2
    MaxBuckets = 3
    MaxWeight = 4
    LifePorts = {"1", "2", "3"}
    InPort = "1"
    Datas <- MCDatas
    PacketOuts <- MCPacketOuts
    Setups <- MCSetups
    MaxKept = 1
    NONE = NONE
    Bands = {1, 2}
    Configs <- MCConfigs
    Sizes = {1, 3}
    Kilo = 2
    Word = 6
    Elapsed = {1, 2}
    MaxOffered = 7
    NO_BAND = NO_BAND
INVARIANTS
    OutputIsIgnored
CHECK_DEADLOCK FALSE
