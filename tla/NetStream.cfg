CONSTANTS
    Addrs = {a1}
    NoAddr = NoAddr
    UdpWriter = UdpWriter
    max_connections = 1
    CtlBuffer = 0
    TxBuffer = 0
    WriteBuffer = 0
    Circumstances = {"hello", "io_error", "sink_error"}
    MaxPeers = 1
    MaxReads = 3
    MaxUdp = 1
    MaxQueue = 0
    MsgBuffer = 0
    EventBuffer = 3
    MaxSends = 2

SPECIFICATION NetFairSpec

INVARIANTS
    CanSendIsTrue
    OrderlyLeaveIsHeard

PROPERTIES
    LeavingIsNoticed
    HandshakeCompletes

CHECK_DEADLOCK FALSE
