SPECIFICATION SystemSpec
CONSTANTS
    Platforms = {"AMAP10"}
    MaxRequests = 2
    Failures = {}
    Outcomes = {"ok", "err", "fail"}
    Ues = {u1}
    Keys = {k1}
    NULL = NULL
    Freed = Freed
    MaxTime = 0
    ValidTime = 1
    PlatformFailures = {}
INVARIANT UeinfoFreedOnce
CHECK_DEADLOCK FALSE
