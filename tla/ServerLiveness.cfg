CONSTANTS
    Addrs = {a1}
    NoAddr = NoAddr
    UdpWriter = UdpWriter
    max_connections = 1
    CtlBuffer = 0
    TxBuffer = 0
    WriteBuffer = 0
    Circumstances = {"heartbeat", "reader_panic", "writer_panic", "drop_handle", "drop_events", "reset_before_accept"}
    MaxPeers = 1
    MaxReads = 1
    MaxUdp = 0
    MaxQueue = 0

SPECIFICATION FairSpec

PROPERTIES
    ClosedIsNoticed
    ActorsFinish
    FedIsWritten

CHECK_DEADLOCK FALSE
