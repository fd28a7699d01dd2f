CONSTANTS
    Addrs = {a1, a2, a3}
    NoAddr = NoAddr
    UdpWriter = UdpWriter
    max_connections = 2
    CtlBuffer = 0
    TxBuffer = 0
    WriteBuffer = 0
    Circumstances = {"hello", "nat"}
    MaxPeers = 2
    MaxReads = 0
    MaxUdp = 1
    MaxQueue = 0

SPECIFICATION Spec

INVARIANTS
    AssertInvariants
    IndexesExact
    AckMeansKnown
PROPERTY
    DatagramsKeepToPeers

SYMMETRY AddrSymmetry

CHECK_DEADLOCK FALSE
