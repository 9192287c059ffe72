SPECIFICATION Spec
CONSTANTS
    s1 = s1
    s2 = s2
    enforced1 = enforced1
    shadow1 = shadow1
    enforced2 = enforced2
    Subject = {s1, s2}
    Decision = {enforced1, shadow1, enforced2}
    SubjectOf <- MCSubjectOf
    Target = {"outcome.is_fraud"}
    Source = {"heuristic", "analyst", "chargeback"}
    Fact = {"fraud"}
    NoSubject = NoSubject
    NoDecision = NoDecision
    MaxLabels = 3
INVARIANTS
    StrongestStands
PROPERTIES
    ImplementsStandingLabels
CHECK_DEADLOCK FALSE
