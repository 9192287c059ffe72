SPECIFICATION LoopSpec
CONSTANTS
    t1 = t1
    t2 = t2
    r1 = r1
    w1 = w1
    w2 = w2
    Subject = {t1, t2}
    Decision = {}
    SubjectOf <- MCSubjectOf
    OutcomeTarget = "outcome.is_fraud"
    MotiveTarget = "intent.motive"
    Target = {"outcome.is_fraud", "intent.motive"}
    Source = {"analyst", "chargeback"}
    Fact = {"0", "1"}
    NoSubject = NoSubject
    NoDecision = NoDecision
    MaxLabels = 6
    Handler = {w1, w2}
    Recipient = {r1}
    NoRecipient = NoRecipient
    Body <- MCBody
    MaxPosts = 3
    MaxStops = 1
SYMMETRY HandlerSymmetry
INVARIANTS
    DispositionsCounted
    NoDispositionLost
CHECK_DEADLOCK FALSE
