CONSTANTS
    Addrs = {a1}
    NoAddr = NoAddr
    UdpWriter = UdpWriter
    max_connections = 1
    CtlBuffer = 0
    TxBuffer = 0
    WriteBuffer = 0
    Circumstances = {"io_error"}
    MaxPeers = 1
    MaxReads = 1
    MaxUdp = 0
    MaxQueue = 0
    MsgBuffer = 0
    EventBuffer = 1
    MaxSends = 0

SPECIFICATION NetSpec

INVARIANTS
    BlamedForGarbageOnly

CHECK_DEADLOCK FALSE
