-------------------------- MODULE MCOutcomeLedger ---------------------------
(* Two payments, one with an enforced decision, and a small feed of         *)
(* reports about them.                                                      *)
EXTENDS OutcomeLedger, TLC

CONSTANTS s1, s2, enforced1, w1, w2

MCSubjectOf == [d \in Decision |-> s2]

fraud == [outcome |-> "fraud", effective_ts |-> "day1"]
legit == [outcome |-> "legit", effective_ts |-> "day2"]

MCFact == {fraud, legit}

Report(s, source, fact, reference, override) ==
    [subject |-> s, source |-> source, fact |-> fact, reference |-> reference,
     override |-> override]

\* Chargebacks on both payments under one dispute reference, the second sent
\* with a reason to override, and the victim's own report without a reference.
MCFeed ==
    {Report(s1, "chargeback", fraud, "code/terminal", FALSE),
     Report(s2, "chargeback", fraud, "code/terminal", TRUE),
     Report(s1, "victim_report", legit, NoReference, FALSE)}

\* Bound: the other writers of the cells speak once each.
OthersSpeakOnce ==
    /\ Cardinality({i \in DOMAIN labels : labels[i].source = "heuristic"}) <= 1
    /\ Cardinality({i \in DOMAIN labels : labels[i].source = "analyst"}) <= 1

ReporterSymmetry == Permutations(Reporter)
=============================================================================
