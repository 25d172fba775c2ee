SPECIFICATION FairSpec
CONSTANTS
    Names = {a}
    Handles = {h1}
    Put = Put
    NULL = NULL
    Closed = Closed
    Modes = {"r", "w", "a", "w+", "a+"}
    MaxSize = 3
    BufSize = 1
    FragSize = 2
    Word = 12
    Lengths = {0, 1, 3, 7}
    MaxBlock = 2
    Failures = {"disk", "datamode", "malloc"}
INVARIANTS
    TypeOK
    WithinAnnounced
    OverreadHasCause
PROPERTIES
    ReportedIsStored
    WholeBlockStored
    CancelCutsAtStart
    PositionsStayInside
    AnsweredIsRead
    TransferEnds
CHECK_DEADLOCK FALSE
