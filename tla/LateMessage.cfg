CONSTANTS
    Addrs = {a1}
    NoAddr = NoAddr
    UdpWriter = UdpWriter
    max_connections = 1
    CtlBuffer = 0
    TxBuffer = 0
    WriteBuffer = 0
    Circumstances = {"sink_error"}
    MaxPeers = 1
    MaxReads = 1
    MaxUdp = 0
    MaxQueue = 0

SPECIFICATION Spec

INVARIANTS
    NothingAfterDisconnect


CHECK_DEADLOCK FALSE
