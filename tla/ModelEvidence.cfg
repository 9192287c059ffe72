SPECIFICATION EvidenceSpec
CONSTANTS
    s1 = s1
    s2 = s2
    d1 = d1
    d2 = d2
    Subject = {s1, s2}
    Decision = {d1, d2}
    SubjectOf <- MCSubjectOf
    Target <- MCTarget
    Source <- MCSource
    Fact <- MCFact
    NoSubject = NoSubject
    NoDecision = NoDecision
    MaxLabels = 3
    Profile <- MCProfile
    NoFeature = NoFeature
    NoDay = NoDay
    Answer = {FALSE}
    LastDay = 2
    Horizon = 1
    Coverage = 9
    WindowDays = 1
    Windows = 4
    MIN_LABELS_FOR_CURVE = 1
    MIN_LABELLED = 1
    MIN_PER_SIDE = 1
    MIN_GOLD = 2
    MIN_PAIRED = 1
    KAPPA_FLOOR = 0
    KAPPA_CEILING = 9
    MIN_GOLD_TO_MODEL = 1
    ExploreBucket = {}
INVARIANTS
    RetrainIsEarned
    CertificateNeedsMatureGold
PROPERTIES
    MachineCallsAreNotEvidence
    AnAnswerMakesAPair
CHECK_DEADLOCK FALSE
