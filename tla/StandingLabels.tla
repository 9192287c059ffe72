--------------------------- MODULE StandingLabels ---------------------------
(***************************************************************************)
(* What the labelling substrate promises its readers (current_labels,      *)
(* training_rows, labels_for_target): a standing claim per cell, which a   *)
(* weaker source replaces only by a deliberate override.  No table, no     *)
(* history, no ids.                                                        *)
(***************************************************************************)
EXTENDS Integers

CONSTANTS
    Cell,               \* a decision or a subject, and a target
    Source,
    Fact,
    precedence_of(_)    \* the authority of a source

VARIABLE standing       \* per cell, the set of claims that stand: none or one

Claim == [source: Source, fact: Fact, override: BOOLEAN]

Init == standing = [c \in Cell |-> {}]

Outranked(c, claim) ==
    \E held \in standing[c] : precedence_of(claim.source) < precedence_of(held.source)

Report(c, claim) ==
    /\ ~claim.override
    /\ ~Outranked(c, claim)
    /\ standing' = [standing EXCEPT ![c] = {claim}]

\* The escape hatch shows in the claim itself: it is "always recorded".
Override(c, claim) ==
    /\ claim.override
    /\ standing[c] # {}
    /\ standing' = [standing EXCEPT ![c] = {claim}]

Next == \E c \in Cell, claim \in Claim : Report(c, claim) \/ Override(c, claim)

Spec == Init /\ [][Next]_standing
=============================================================================
