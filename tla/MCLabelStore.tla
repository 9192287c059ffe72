---------------------------- MODULE MCLabelStore ----------------------------
(* Two subjects; the first has an enforced decision and a shadow what-if    *)
(* decision, the second one decision of its own.                            *)
EXTENDS LabelStore, TLC

CONSTANTS s1, s2, enforced1, shadow1, enforced2

MCSubjectOf == enforced1 :> s1 @@ shadow1 :> s1 @@ enforced2 :> s2
=============================================================================
