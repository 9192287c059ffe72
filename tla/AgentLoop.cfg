SPECIFICATION AgentSpec
CONSTANTS
    l1 = l1
    l2 = l2
    p1 = p1
    t1 = t1
    t2 = t2
    r1 = r1
    Loop = {l1, l2}
    Putter = {p1}
    Thread = {t1, t2}
    Rule = {r1}
    Tx <- MCTx
    Body <- MCBody
    MaxCases = 1
    MaxTicks = 2
    MaxRuleOps = 1
INVARIANTS
    FlaggedGetsACase
PROPERTIES
    BacklogIsCut
    StopDrains
CHECK_DEADLOCK FALSE
