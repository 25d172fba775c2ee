CONSTANTS
    Platforms = {"AMAP10", "AMAP20"}
    MaxRequests = 4
    Failures = {"net", "apikey", "malloc", "task", "queue", "send"}
    Outcomes = {"ok", "ok_nomem", "err", "fail", "ueinfo", "forbidden"}
SPECIFICATION FairSpec
INVARIANTS
    TypeOK
    AnswersMatchRequests
    OneRequestInFlight
    AttrPresentWhenUsed
    QueueRaceOnlyAtStart
    NoRequestLost
    BusyHasOwner
PROPERTIES
    RequestFreedOnlyAfterAnswer
    LbsTaskAdvances
    ImplementsService
    AnsweredUnlessCrashed
    BusyEnds
CHECK_DEADLOCK FALSE
