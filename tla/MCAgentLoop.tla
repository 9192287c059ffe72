---------------------------- MODULE MCAgentLoop -----------------------------
(* Two agent loops, one thread inside PUT /agent/config, two threads for    *)
(* pipelines and deployments.  The payments: a large one with a machine's   *)
(* timing, which is flagged, and a small one off a headless device, which   *)
(* is blocked; both are novel.                                              *)
EXTENDS AgentLoop, TLC

CONSTANTS l1, l2, p1, t1, t2, r1

Payment(amount, ml, combined, pattern, labels) ==
    [amount |-> amount, ml |-> ml, combined |-> combined, graph |-> 0, rail |-> "card",
     pattern |-> pattern, labels |-> labels]

MCTx == {Payment(6000, 99, 99, "", {"velocity"}),
         Payment(100, 80, 99, "", {"velocity", "device"})}

\* A buffer of one, and every block reviewed by a human.
MCBody == {(BufferSizeKey :> 1) @@ (<<"toggles", "human_review_required">> :> TRUE)}
=============================================================================
