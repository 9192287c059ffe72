--------------------------- MODULE MCDecisionPath ---------------------------
(* A card payment, a push payment and a card payment to a listed party in   *)
(* the holdout slice, and a push payment under a synonym outside it.        *)
EXTENDS DecisionPath, TLC

CONSTANTS card, push, plain, listed, w1, w2

MCSpelling ==
    (card :> "card") @@ (push :> "zelle") @@ (plain :> "fedwire") @@ (listed :> "card")

MCMatch == [r \in Ref \cup {NoRef} |-> IF r = listed THEN "potential_match" ELSE "clear"]

Looks(band, pays, over, recon, tier, funds, slow) ==
    [band |-> band, known |-> FALSE, pays |-> pays, over |-> over, recon |-> recon,
     tier |-> tier, funds |-> funds, slow |-> slow, small |-> pays]

MCAssess ==
    {Looks("low", FALSE, FALSE, FALSE, "", "ok", FALSE),
     [Looks("low", TRUE, FALSE, FALSE, "", "51", FALSE) EXCEPT !.known = TRUE],
     Looks("elevated", TRUE, FALSE, FALSE, "new_account", "ok", TRUE),
     Looks("high", TRUE, FALSE, TRUE, "", "ok", FALSE),
     Looks("high", TRUE, TRUE, FALSE, "", "ok", FALSE),
     Looks("severe", FALSE, FALSE, FALSE, "", "ok", FALSE),
     Looks("severe", TRUE, TRUE, FALSE, "", "ok", TRUE)}

CallerSymmetry == Permutations(Caller)
=============================================================================
