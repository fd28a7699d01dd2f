CONSTANTS
    Addrs = {a1, a2}
    NoAddr = NoAddr
    UdpWriter = UdpWriter
    max_connections = 1
    CtlBuffer = 0
    TxBuffer = 0
    WriteBuffer = 1
    Circumstances = {"hello", "heartbeat", "nat"}
    MaxPeers = 1
    MaxReads = 0
    MaxUdp = 0
    MaxQueue = 0

SPECIFICATION Spec

INVARIANT
    AnnouncementsFollowHello

SYMMETRY AddrSymmetry

CHECK_DEADLOCK FALSE
