CONSTANTS
    Platforms = {"ONEOSPOS"}
    MaxRequests = 2
    Failures = {}
    Outcomes = {"ok"}
SPECIFICATION FairSpec
PROPERTY EveryRequestAnswered
CHECK_DEADLOCK FALSE
