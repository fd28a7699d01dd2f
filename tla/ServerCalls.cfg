CONSTANTS
    Addrs = {a1, a2}
    NoAddr = NoAddr
    UdpWriter = UdpWriter
    max_connections = 1
    CtlBuffer = 0
    TxBuffer = 0
    WriteBuffer = 0
    Circumstances = {"hello", "undecodable", "nat"}
    MaxPeers = 1
    MaxReads = 0
    MaxUdp = 1
    MaxQueue = 1

SPECIFICATION Spec

INVARIANT
    IndexesExact
PROPERTIES
    ImplementsPeerLifecycle
    DatagramsKeepToPeers

SYMMETRY AddrSymmetry

CHECK_DEADLOCK FALSE
