SPECIFICATION OperationsSpec
CONSTANTS
    h1 = h1
    h2 = h2
    h3 = h3
    heavy = heavy
    f1 = f1
    f2 = f2
    scorer = scorer
    gate = gate
    rival = rival
    b1 = b1
    b2 = b2
    w1 = w1
    w2 = w2
    l1 = l1
    l2 = l2
    l3 = l3
    t1 = t1
    t2 = t2
    r1 = r1
    r2 = r2
    a1 = a1
    s1 = s1
    d1 = d1
    p1 = p1
    q1 = q1
    q2 = q2
    neobank = neobank
    exchange = exchange
    y1 = y1
    y2 = y2
    v1 = v1
    tbl1 = tbl1
    pl1 = pl1
    pl2 = pl2
    conn1 = conn1
    g1 = g1
    c1 = c1
    c2 = c2
    k1 = k1
    pan1 = pan1
    pan2 = pan2
    n1 = n1
    n2 = n2
    n3 = n3
    salt1 = salt1
    Host = {h1, h2, h3}
    NoHeader = NoHeader
    Limiter = {"global", heavy}
    TrustProxy = TRUE
    Rate <- MCRate
    Period <- MCPeriod
    Capacity = 2
    EvictSample = 2
    EndOfTime = 2
    Feature = {f1, f2}
    BufferSize = 3
    CheckEvery = 2
    MinPerSide = 1
    KeptEvents = 3
    ShownEvents = 2
    MaxSamples = 8
    Served = {scorer, gate}
    Required = {scorer}
    Challenger = {rival}
    Purpose <- MCPurpose
    Build = {b1, b2}
    Fits = {b1}
    Writer = {w1, w2}
    Nobody = Nobody
    LabelId = {l1, l2, l3}
    MaxDepth = 2
    MaxCrash = 1
    Thread = {t1, t2}
    Rule = {r1, r2}
    MaxRuleOps = 3
    Scorer = {a1}
    MaxLoads = 3
    MaxIngests = 1
    NoIdentity = NoIdentity
    NoDevice = NoDevice
    Subject = {s1}
    ClientTells = {{"slow"}}
    Report <- MCReport
    SuspectDevice <- MCSuspectDevice
    Row <- MCRow
    Score = {100, 5000, 9000}
    SequenceLine = 8500
    DeviceLine = 8000
    Dispute = {p1}
    Code = {"10.4", "10.5", "13.1"}
    NoLabel = NoLabel
    Clerk = {q1, q2}
    MaxFiled = 4
    MaxFiles = 2
    Payee = {y1, y2}
    InLedger = {y1}
    INSTITUTIONS = {neobank, exchange}
    LedgerCounts <- MCLedgerCounts
    Noise <- MCNoise
    Amount <- MCAmount
    MaxTx = 4
    Session = {v1}
    NoIntent = NoIntent
    Raw <- MCRaw
    Table = {tbl1}
    MaxRowId = 3
    PollRequest <- MCPollRequest
    Poller = {pl1, pl2}
    Batch = 2
    MaxPollCrashes = 1
    DataRow <- MCDataRow
    Panel <- MCPanel
    CardMessage <- MCCardMessage
    NoRef = NoRef
    NoToken = NoToken
    NoPan = NoPan
    NoKey = NoKey
    Salt = {salt1}
    NoSalt = NoSalt
    Handler = {g1}
    DayTicks = 1
    MaxTick = 2
    MaxQueued = 1
INVARIANTS
    NoBurst
    HistoryUnbroken
    DurableIsWhole
    ReturnedIsDurable
    BookAgrees
    ContextFromOneSnapshot
    WithholdingNeverHelps
    EscalateOnly
    LabelFollowsARuling
    FraudElsewhereNeverSoothes
    NoRowInOrderIsPassedOver
    DecidingBeatsDithering
    DecidesFromWhatItSees
    VictimIsNotDenied
    HistoryIsThisCards
PROPERTIES
    StampNamesTheScorer
    VictimIsNotAccused
    ArcGoesForward
CHECK_DEADLOCK FALSE
