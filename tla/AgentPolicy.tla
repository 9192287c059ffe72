----------------------------- MODULE AgentPolicy ----------------------------
(***************************************************************************)
(* What the autonomous agent of agent.py makes of one scored payment: the  *)
(* behavioural signature, the threat and the decision.  Scores, weights    *)
(* and thresholds are percentages; amounts are whole dollars, and the      *)
(* wording of signals and patterns is reduced to the keywords it is        *)
(* searched for.                                                           *)
(***************************************************************************)
EXTENDS Integers, FiniteSets, FiniteSetsExt

Threat ==
    {"card_testing_bot", "credential_stuffing", "ato_bot", "synthetic_identity_farm",
     "deepfake_bypass", "adversarial_ml"}

\* AI_SIGNATURES.
Weight ==
    [timing_regularity |-> 30, micro_amount_sequence |-> 25, headless_device |-> 20,
     ip_reputation |-> 15, identity_clone |-> 10]

\* What each signal is read off.  tx.labels are the keyword families found in
\* the matched signals, tx.pattern the family of the top pattern, "" if none.
SignalsIn(tx) ==
    {s \in DOMAIN Weight :
        CASE s = "timing_regularity"     -> "velocity" \in tx.labels
          [] s = "micro_amount_sequence" -> tx.amount < 2 /\ tx.ml > 50
          [] s = "headless_device"       -> "device" \in tx.labels
          [] s = "ip_reputation"         -> tx.rail = "instant or crypto" /\ tx.ml > 60
          [] s = "identity_clone"        -> tx.pattern \in {"card testing", "Synthetic Identity", "ATO"}}

detect_ai_signature(tx) ==
    LET signals == SignalsIn(tx)
        confidence == FoldSet(LAMBDA s, total : total + Weight[s], 0, signals)
    IN  [signals      |-> signals,
         confidence   |-> confidence,
         is_bot       |-> confidence >= 40 /\ "timing_regularity" \in signals,
         is_synthetic |-> "identity_clone" \in signals]

\* The first test that holds, in the order of the code.
classify_threat(tx, sig) ==
    LET headless == "headless_device" \in sig.signals
    IN  IF tx.amount < 2 /\ "micro_amount_sequence" \in sig.signals
        THEN "card_testing_bot"
        ELSE IF headless /\ "timing_regularity" \in sig.signals /\ tx.amount < 500 /\ tx.ml > 55
        THEN "credential_stuffing"
        ELSE IF tx.pattern = "ATO" \/ (headless /\ tx.amount > 1000)
        THEN "ato_bot"
        ELSE IF tx.pattern = "Synthetic Identity" \/ (sig.is_synthetic /\ tx.ml > 65)
        THEN "synthetic_identity_farm"
        ELSE IF tx.pattern = "Deepfake" \/ (tx.amount > 5000 /\ ~headless /\ tx.ml > 70)
        THEN "deepfake_bypass"
        ELSE IF tx.ml > 80 /\ tx.pattern = "" /\ sig.confidence < 20
        THEN "adversarial_ml"
        ELSE "clean"

DefaultThresholds ==
    [card_testing_bot        |-> [block |-> 60, flag |-> 40],
     credential_stuffing     |-> [block |-> 65, flag |-> 45],
     ato_bot                 |-> [block |-> 70, flag |-> 50],
     synthetic_identity_farm |-> [block |-> 70, flag |-> 50],
     deepfake_bypass         |-> [block |-> 80, flag |-> 60],
     adversarial_ml          |-> [block |-> 75, flag |-> 55]]

Toggle == {<<"toggles", t>> : t \in {"self_learning", "high_alert_mode", "zero_tolerance_bot",
                                      "human_review_required"}}
BufferSizeKey == <<"agent", "novel_buffer_size">>

\* DEFAULT_CONFIG, by the path of each value the agent reads.
DEFAULT_CONFIG ==
    [k \in Toggle \cup {BufferSizeKey} \cup (Threat \X {"block", "flag", "enabled"}) |->
        CASE k = BufferSizeKey    -> 10
          [] k \in Toggle         -> k[2] = "self_learning"
          [] k[2] = "enabled"     -> TRUE
          [] OTHER                -> DefaultThresholds[k[1]][k[2]]]

Clamped(k, v) ==
    CASE k = BufferSizeKey                   -> IF v < 1 THEN 1 ELSE IF v > 100 THEN 100 ELSE v
      [] k[2] \in {"block", "flag"}          -> IF v < 1 THEN 1 ELSE IF v > 99 THEN 99 ELSE v
      [] k \in Toggle \/ k[2] = "enabled"    -> v

\* Merged with the DEFAULTS, whatever the current configuration says.
validate_config(body) ==
    [k \in DOMAIN DEFAULT_CONFIG |->
        Clamped(k, IF k \in DOMAIN body THEN body[k] ELSE DEFAULT_CONFIG[k])]

\* A threat without thresholds of its own ("clean") has these.
ThresholdsOf(config, threat) ==
    IF threat \in Threat
    THEN [f \in {"block", "flag", "enabled"} |-> config[<<threat, f>>]]
    ELSE [f \in {"block", "flag", "enabled"} |->
            CASE f = "block" -> 65 [] f = "flag" -> 45 [] f = "enabled" -> TRUE]

autonomous_decision(threat, tx, sig, config) ==
    LET own == ThresholdsOf(config, threat)
        lowered(x) == IF ~config[<<"toggles", "high_alert_mode">>] THEN x
                      ELSE IF x - 10 < 1 THEN 1 ELSE x - 10
        block == IF config[<<"toggles", "zero_tolerance_bot">>] /\ threat = "card_testing_bot"
                 THEN 30 ELSE lowered(own.block)
        effective == tx.combined * 60 + sig.confidence * 25 + tx.graph * 15
    IN  IF ~own.enabled THEN [action |-> "allow", escalate |-> FALSE]
        ELSE IF effective >= block * 100
        THEN [action |-> "block",
              escalate |-> effective >= 9000 \/ threat \in {"deepfake_bypass", "adversarial_ml"}]
        ELSE IF effective >= lowered(own.flag) * 100
        THEN [action |-> "flag", escalate |-> FALSE]
        ELSE [action |-> "allow", escalate |-> FALSE]

is_novel(tx) == tx.combined >= 65 /\ tx.ml >= 70 /\ tx.pattern = ""
=============================================================================
