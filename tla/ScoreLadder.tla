----------------------------- MODULE ScoreLadder ----------------------------
(***************************************************************************)
(* How a score comes about in main.py: the model the rail calls for, the   *)
(* card gates, the pattern match, the Tier-2 cascade, the consortium view, *)
(* the novelty gate and the device gate, through build_event or POST       *)
(* /score.  What the models and views say is input; what the ladder makes  *)
(* of it, and in which order, is the model.  A stage is a step, because    *)
(* fingerprints arrive and the network index warms up between two stages.  *)
(*                                                                         *)
(* Scores are in ten-thousandths, so the two blends are exact on multiples *)
(* of twenty.                                                              *)
(***************************************************************************)
EXTENDS DeviceIdentity

CONSTANTS
    Row,            \* payments: [subject, rail, card_key, device, recipient]
    NoDevice,       \* the body names no device
    Score,          \* what a model, a pattern's confidence or a view may be
    SuspectDevice,  \* devices, derived or named, on which the device graph's gate fires
    SequenceLine,   \* what the card sequence gate raises a score to
    DeviceLine      \* what the device graph's gate raises a score to

ASSUME LadderAssumption ==
    /\ \A row \in Row : row.subject \in Subject
    /\ Score \subseteq Nat
    /\ SequenceLine \in Nat /\ DeviceLine \in Nat

VARIABLES
    layers,         \* the optional layers that are loaded
    ladder          \* the payment being scored, or Unscored

ladderVars == <<identityVars, layers, ladder>>

Layer == {"card_scorer", "card_sequence", "anomaly", "device_graph", "aiq_index"}

Unscored == [pc |-> "idle"]

\* is_alert's default, which _alert_line reads back from its signature.
_alert_line == 6500

Best(score, line) == IF score < line THEN line ELSE score

LadderInit ==
    /\ IdentityInit
    /\ layers \in {Layer, Layer \ {"aiq_index"}, Layer \ {"card_scorer"}, {}}
    /\ ladder = Unscored

\* _get_aiq_index, on an executor thread.
WarmNetwork ==
    /\ "aiq_index" \notin layers
    /\ layers' = layers \cup {"aiq_index"}
    /\ UNCHANGED <<identityVars, ladder>>

\* A derived id wins over the one the body names.
resolve_device_id(row) ==
    IF identities[row.subject] # NoIdentity
    THEN identities[row.subject].device_id ELSE row.device

apply_device_gate(score, row) ==
    IF "device_graph" \in layers /\ resolve_device_id(row) \in SuspectDevice
    THEN Best(score, DeviceLine) ELSE score

\* To the alert line and no further.
apply_novelty_gate(score, novel) ==
    IF "anomaly" \in layers /\ novel THEN Best(score, _alert_line) ELSE score

apply_escalate_only(score, risk, sufficient_evidence) ==
    IF sufficient_evidence THEN Best(score, risk) ELSE score

combined_score(ml_score, pattern_confidence) == (60 * ml_score + 40 * pattern_confidence) \div 100

_TIER2_LO == 3500
_TIER2_HI == 8000
should_invoke(score) == _TIER2_LO <= score /\ score <= _TIER2_HI
cascade_blend(score, gnn) == (65 * score + 35 * gnn) \div 100

-----------------------------------------------------------------------------

\* The payment moves on with this score.  ladder.sequence remembers what the
\* sequence gate returned, ladder.local the score before the network had its
\* say, and ladder.steady that the payment's device has not been replaced.
Onward(pc, score) == ladder' = [ladder EXCEPT !.pc = pc, !.score = score]

Receive(door, row) ==
    /\ ladder = Unscored
    /\ ladder' = [pc |-> "model", door |-> door, row |-> row, score |-> 0, local |-> 0,
                  sequence |-> 0, steady |-> TRUE]
    /\ UNCHANGED <<identityVars, layers>>

\* score_by_rail.  Without a card scorer the answer is 0, flagged as no score.
ScoreByRail ==
    /\ ladder.pc = "model"
    /\ IF ladder.row.rail # "card" THEN \E ml \in Score : Onward("match", ml)
       ELSE IF "card_scorer" \notin layers THEN Onward("sequence", 0)
       ELSE \E p \in Score : Onward("sequence", p)
    /\ UNCHANGED <<identityVars, layers>>

\* apply_sequence_gate: silent without a card key or the gate itself.
SequenceGate ==
    /\ ladder.pc = "sequence"
    /\ \E fires \in BOOLEAN :
          LET sees == "card_sequence" \in layers /\ ladder.row.card_key
              score == IF sees /\ fires THEN Best(ladder.score, SequenceLine) ELSE ladder.score
          IN  ladder' = [ladder EXCEPT !.pc = "card_device", !.score = score, !.sequence = score]
    /\ UNCHANGED <<identityVars, layers>>

CardDeviceGate ==
    /\ ladder.pc = "card_device"
    /\ Onward("match", apply_device_gate(ladder.score, ladder.row))
    /\ UNCHANGED <<identityVars, layers>>

\* Some pattern is always the best match.  Only build_event has a cascade.
MatchPatterns ==
    /\ ladder.pc = "match"
    /\ \E confidence \in Score :
          Onward(IF ladder.door = "build_event" THEN "cascade" ELSE "network",
                 combined_score(ladder.score, confidence))
    /\ UNCHANGED <<identityVars, layers>>

Cascade ==
    /\ ladder.pc = "cascade"
    /\ IF should_invoke(ladder.score)
       THEN \E gnn \in Score : Onward("network", cascade_blend(ladder.score, gnn))
       ELSE Onward("network", ladder.score)
    /\ UNCHANGED <<identityVars, layers>>

\* _network_view, silent while the index is warming or without a recipient.
NetworkView ==
    /\ ladder.pc = "network"
    /\ \E risk \in Score, sufficient_evidence \in BOOLEAN :
          LET sees == "aiq_index" \in layers /\ ladder.row.recipient
          IN  ladder' = [ladder EXCEPT !.pc = "novelty", !.local = ladder.score,
                            !.score = apply_escalate_only(ladder.score, risk,
                                                          sees /\ sufficient_evidence)]
    /\ UNCHANGED <<identityVars, layers>>

NoveltyGate ==
    /\ ladder.pc = "novelty"
    /\ \E novel \in BOOLEAN : Onward("device", apply_novelty_gate(ladder.score, novel))
    /\ UNCHANGED <<identityVars, layers>>

\* Mutant: a card row has met the device gate already.
FinalGate_CardOnce(score, row) ==
    IF row.rail = "card" THEN score ELSE apply_device_gate(score, row)

FinalGate(score, row) == apply_device_gate(score, row)

DeviceGate ==
    /\ ladder.pc = "device"
    /\ Onward("scored", FinalGate(ladder.score, ladder.row))
    /\ UNCHANGED <<identityVars, layers>>

Return ==
    /\ ladder.pc = "scored"
    /\ ladder' = Unscored
    /\ UNCHANGED <<identityVars, layers>>

FingerprintArrives(s) ==
    /\ PostFingerprint(s)
    /\ ladder' = IF ladder # Unscored /\ ladder.row.subject = s
                 THEN [ladder EXCEPT !.steady = identities'[s] = identities[s] /\ @] ELSE ladder
    /\ UNCHANGED layers

TelemetryArrives(s) == PostTelemetry(s) /\ UNCHANGED <<layers, ladder>>

LadderNext ==
    \/ \E door \in {"build_event", "score"}, row \in Row : Receive(door, row)
    \/ ScoreByRail \/ SequenceGate \/ CardDeviceGate \/ MatchPatterns \/ Cascade
    \/ NetworkView \/ NoveltyGate \/ DeviceGate \/ Return
    \/ WarmNetwork
    \/ \E s \in Subject : FingerprintArrives(s) \/ TelemetryArrives(s)

LadderSpec == LadderInit /\ [][LadderNext]_ladderVars

-----------------------------------------------------------------------------

\* "A clean network view must never talk the local model DOWN", and neither do
\* the gates after it: the score that is priced and alerted on is at least the
\* institution's own, and at least what the device gate had raised a card's
\* score to before the match and the cascade could lower it again, provided no
\* fingerprint replaced the payment's device in between.
EscalateOnly ==
    ladder.pc = "scored" =>
        /\ ladder.score >= ladder.local
        /\ ladder.steady /\ "device_graph" \in layers
              /\ resolve_device_id(ladder.row) \in SuspectDevice
           => ladder.score >= DeviceLine

\* The same of the sequence gate, which is applied once, before the cascade.
SequenceGateSurvives == ladder.pc = "scored" => ladder.score >= ladder.sequence
=============================================================================
