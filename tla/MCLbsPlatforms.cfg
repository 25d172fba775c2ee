SPECIFICATION MCSpec
CONSTANTS
    Ues = {u1, u2}
    Keys = {k1, k2}
    NULL = NULL
    Freed = Freed
    MaxTime = 2
    ValidTime = 1
    Failures = {"malloc", "curl"}
INVARIANTS
    AnsweredMeansBusy
PROPERTIES
    AmapKeepsContract
    OneosposKeepsContract
CHECK_DEADLOCK FALSE
