SPECIFICATION ConnectionSpec
CONSTANTS
    ProbeInterval = 1
    MaxBackoff = 2
    QuestionSecs = 1
    AdmitSecs = 1
    AgeLimit = 2
    QueueLimit = 1
    QueueBound = 1
    PeerVersions = {3, 4, 5}
    Reconnectable = TRUE
    Header = 2
    Lengths <- MCLengths
    SocketRoom = 3
    Kids <- MCKids
    UserSignals <- MCUserSignals
    PollTimeout = 2
    Deadlines = {0, 3}
    PipeRoom = 1
    MaxRaises = 1
    MaxNow = 4
PROPERTIES
    ConnectionHolds
    StreamDelivers
    LoopWakes
CHECK_DEADLOCK FALSE
