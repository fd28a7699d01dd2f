CONSTANTS
    Addrs = {a1}
    NoAddr = NoAddr
    UdpWriter = UdpWriter
    max_connections = 2
    CtlBuffer = 0
    TxBuffer = 0
    WriteBuffer = 0
    Circumstances = {"hello", "addr_reuse"}
    MaxPeers = 2
    MaxReads = 0
    MaxUdp = 0
    MaxQueue = 0

SPECIFICATION Spec

INVARIANTS
    AssertInvariants


CHECK_DEADLOCK FALSE
