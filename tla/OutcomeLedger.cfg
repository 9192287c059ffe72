SPECIFICATION LedgerSpec
CONSTANTS
    s1 = s1
    s2 = s2
    enforced1 = enforced1
    w1 = w1
    w2 = w2
    Subject = {s1, s2}
    Decision = {enforced1}
    SubjectOf <- MCSubjectOf
    OutcomeTarget = "outcome.is_fraud"
    Target = {"outcome.is_fraud"}
    Source = {"heuristic", "analyst", "chargeback", "victim_report"}
    Fact <- MCFact
    NoSubject = NoSubject
    NoDecision = NoDecision
    MaxLabels = 4
    Reporter = {w1, w2}
    Feed <- MCFeed
    NoReference = NoReference
    MaxCrashes = 1
    Limit = 1
    ScanFactor = 2
CONSTRAINT OthersSpeakOnce
SYMMETRY ReporterSymmetry
INVARIANTS
    EvidenceOnRecord
    EventYieldsToItsReference
    DisagreementSurfaced
CHECK_DEADLOCK FALSE
