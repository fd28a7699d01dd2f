CONSTANTS
    Addrs = {a1, a2}
    NoAddr = NoAddr
    UdpWriter = UdpWriter
    max_connections = 1
    CtlBuffer = 0
    TxBuffer = 1
    WriteBuffer = 0
    Circumstances = {"undecodable", "io_error", "sink_error"}
    MaxPeers = 2
    MaxReads = 1
    MaxUdp = 0
    MaxQueue = 0

SPECIFICATION Spec

INVARIANTS
    TypeOK
    ShutdownAssertsHold
    EventsMatchPeers
    HeardOut
PROPERTIES
    ImplementsPeerLifecycle


CHECK_DEADLOCK FALSE
