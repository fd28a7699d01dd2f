CONSTANTS
    Writers = {w1}
    WriteItems = {x, y}
    WriteBuffer = 1
    SinkBuffer = 2
    MaxAccepted = 4

SPECIFICATION Spec

INVARIANTS
    LogTypeOK
    WireIsPrefix
    QuietMeansWritten
    OrderlyShutdownLosesNothing

PROPERTY
    FinishesWithoutHandle

CHECK_DEADLOCK FALSE
