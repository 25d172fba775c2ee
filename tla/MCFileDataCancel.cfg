SPECIFICATION Spec
CONSTANTS
    Names = {a}
    Handles = {h1}
    Put = Put
    NULL = NULL
    Closed = Closed
    Modes = {"w+"}
    MaxSize = 2
    BufSize = 1
    FragSize = 2
    Word = 10
    Lengths = {0, 1, 2}
    MaxBlock = 2
    Failures = {}
PROPERTY CancelClearsReceived
CHECK_DEADLOCK FALSE
