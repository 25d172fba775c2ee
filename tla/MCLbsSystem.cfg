SPECIFICATION SystemSpec
CONSTANTS
    Platforms = {"AMAP10", "ONEOSPOS"}
    MaxRequests = 3
    Failures = {"net"}
    Outcomes = {"ok", "ok_nomem", "err", "fail", "ueinfo", "forbidden"}
    Ues = {u1}
    Keys = {k1, k2}
    NULL = NULL
    Freed = Freed
    MaxTime = 1
    ValidTime = 1
    PlatformFailures = {"curl"}
INVARIANTS
    SystemTypeOK
    AnswersMatchRequests
PROPERTIES
    ImplementsCore
    AnswerIsOwn
CHECK_DEADLOCK FALSE
SYMMETRY Symmetry
