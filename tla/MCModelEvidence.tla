--------------------------- MODULE MCModelEvidence --------------------------
(* Two payments of two subjects, three label rows, three days; windows of   *)
(* one day and every floor of the code scaled down to one or two.           *)
EXTENDS ModelEvidence, TLC

CONSTANTS s1, s2, d1, d2

MCSubjectOf == d1 :> s1 @@ d2 :> s2

MCTarget == {"is_fraud"}

MCSource == {"heuristic", "analyst", "chargeback"}

MCFact == [says: BOOLEAN, effective: 0..LastDay \cup {NoDay}]

\* An alert, a payment let through, and an alert whose feature was missing.
MCProfile == {[alert |-> TRUE, feature |-> "low"], [alert |-> FALSE, feature |-> "high"],
              [alert |-> TRUE, feature |-> NoFeature]}
=============================================================================
