SPECIFICATION FairConnectorSpec
CONSTANTS
    t1 = t1
    t2 = t2
    loop = loop
    request = request
    Key = {t1, t2}
    NoKey = NoKey
    MaxDepth = 1
    MaxAttempts = 1
    BatchSize = 2
    MaxRows = 12
    MaxStops = 1
    MaxReplays = 0
    Poller = {loop, request}
    BackgroundLoop = loop
    Junk = Junk
    MaxEvents = 2
    MaxRecords = 2
    Chunks = 2
    TextAt = 2
INVARIANTS
    LossIsBounded
    KeyEnqueuedOnce
PROPERTIES
    EveryRecordArrives
CHECK_DEADLOCK FALSE
ACTION_CONSTRAINT
    KeysInOrder
