SPECIFICATION Spec
CONSTANTS
    Options = {"method", "apikey", "precision"}
    Keys = {k1}
    NoKey = NoKey
    LongKey = LongKey
    CM_LBS_PRECISION_MIN = 1
    CM_LBS_PRECISION_MAX = 2
    NULL = NULL
    Failures = {"malloc", "read", "open", "write", "close"}
INVARIANTS
    TypeOK
    
PROPERTY ImplementsConfigStore
CHECK_DEADLOCK FALSE
