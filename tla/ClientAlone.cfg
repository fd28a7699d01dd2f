CONSTANTS
    Clients = {c1}
    CtlBuffer = 0
    TxBuffer = 0
    WriteBuffer = 0
    MsgBuffer = 0
    EventBuffer = 0
    MaxSends = 1
    MaxTraffic = 3
    MaxFaults = 1
    SendsOn = {"tcp"}

SPECIFICATION Spec

INVARIANTS
    ClientTypeOK
    NothingSwallowed
    CanReceiveFirst
    CancelledOnlyByFailure

PROPERTIES
    LeavesWhenDropped
    IoActorsFinish
    StatusReturns

CHECK_DEADLOCK FALSE
