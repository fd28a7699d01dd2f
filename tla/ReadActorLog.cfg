CONSTANTS
    Readers = {r1}
    Items = {item, reset}
    LastItems = {reset}
    CtlBuffer = 1
    TxBuffer = 2

SPECIFICATION Spec

INVARIANTS
    LogTypeOK
    ReasonIsTrue
    TxBounded

PROPERTY
    StopsWhenTold

CHECK_DEADLOCK FALSE
