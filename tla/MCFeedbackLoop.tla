--------------------------- MODULE MCFeedbackLoop ---------------------------
(* Two payments to one payee, dispositions of both classes and of neither,  *)
(* from an investigator and from an imported chargeback file.               *)
EXTENDS FeedbackLoop, TLC

CONSTANTS t1, t2, r1, w1, w2

MCSubjectOf == [d \in Decision |-> t1]

Disposition(t, r, class, source, fact, intent) ==
    [transaction |-> t, recipient |-> r, class |-> class, source |-> source,
     fact |-> fact, intent |-> intent]

MCBody ==
    {Disposition(t1, r1, "fraud", "investigator", "1", TRUE),
     Disposition(t2, r1, "legit", "investigator", "0", FALSE),
     Disposition(t1, r1, "legit", "chargeback", "0", FALSE),
     Disposition(t2, NoRecipient, "fraud", "investigator", "1", FALSE),
     Disposition(t1, r1, "other", "investigator", "0", FALSE)}

HandlerSymmetry == Permutations(Handler)
=============================================================================
