SPECIFICATION ConnectorSpec
CONSTANTS
    t1 = t1
    t2 = t2
    loop = loop
    request = request
    Key = {t1, t2}
    NoKey = NoKey
    MaxDepth = 1
    MaxAttempts = 1
    BatchSize = 2
    MaxRows = 12
    MaxStops = 1
    MaxReplays = 0
    Poller = {loop, request}
    BackgroundLoop = loop
    Junk = Junk
    MaxEvents = 2
    MaxRecords = 2
    Chunks = 3
    TextAt = 2
INVARIANTS
    TailNotLost
CHECK_DEADLOCK FALSE
