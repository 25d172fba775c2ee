CONSTANTS
    Platforms = {"AMAP10", "ONEOSPOS"}
    MaxRequests = 2
    Failures = {}
    Outcomes = {"ok"}
SPECIFICATION Spec
PROPERTY RequestFreedOnlyAfterAnswer
CHECK_DEADLOCK FALSE
