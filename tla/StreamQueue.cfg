SPECIFICATION FairSpec
CONSTANTS
    t1 = t1
    t2 = t2
    Key = {t1, t2}
    NoKey = NoKey
    MaxDepth = 2
    MaxAttempts = 2
    BatchSize = 2
    MaxRows = 3
    MaxStops = 1
    MaxReplays = 1
INVARIANTS
    FirstAttemptsInOrder
PROPERTIES
    ImplementsDeliveryLog
    EverythingSettles
CHECK_DEADLOCK FALSE
