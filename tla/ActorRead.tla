------------------------------ MODULE ActorRead -----------------------------
(***************************************************************************)
(* The actor layer: core/telemetry.py turns what a client SDK reports of a *)
(* session into tells, core/motive.py reads the offender from them,        *)
(* core/scam_arc.py the victim, and build_event keeps the motive as a      *)
(* heuristic label.                                                        *)
(*                                                                         *)
(* Reported values and tells are in thousandths, weights in hundredths.    *)
(* Only the tells telemetry can produce are tabulated, and only the two    *)
(* motives besides the victim's they can reach: the others need tells no   *)
(* client reports.                                                         *)
(***************************************************************************)
EXTENDS Integers, FiniteSets, FiniteSetsExt, Functions

CONSTANTS
    Session,        \* subjects that report telemetry
    Raw,            \* what a client may report: [RawField -> 0..1000]
    NoIntent

VARIABLES
    reported,       \* per session, its newest telemetry row
    intent          \* per session, the standing motive label, or NoIntent

actorVars == <<reported, intent>>

\* "tooling" stands for emulator, rooted, proxy and a tor, vpn or hosting ip;
\* "automation" for the framework and headless flags; "fast" for an action
\* within two seconds; "crypto_payee" for a new payee that is one.
Flag == {"call_active", "dictation", "remote_access", "automation", "tooling", "fast",
         "crypto_payee", "online_only", "never_met", "safe_account", "fee_to_release"}
Level == {"long_reads", "duress", "cadence", "directness", "hesitation"}
RawField == Flag \cup Level

ASSUME ActorAssumption ==
    \A raw \in Raw : /\ raw \in [RawField -> 0..1000]
                     /\ \A f \in Flag : raw[f] \in {0, 1000}

Larger(a, b) == IF a < b THEN b ELSE a
Smaller(a, b) == IF a < b THEN a ELSE b

Speedrun(raw) ==
    LET s == Smaller(1000, (raw["fast"] + raw["directness"] + raw["cadence"]) \div 2)
    IN  IF s >= 500 THEN s ELSE 0

\* Mutant: the open call is thought a little weaker.
CallStrength_Weaker(raw) == (raw["call_active"] * 80) \div 100

CallStrength(raw) == (raw["call_active"] * 85) \div 100

\* What was not reported fires no tell.
derive_signals(raw) ==
    [coaching_copresence      |-> CallStrength(raw),
     script_reading           |-> Larger(raw["long_reads"], (raw["dictation"] * 80) \div 100),
     coached_answers          |-> (raw["dictation"] * 70) \div 100,
     remote_access_active     |-> (raw["remote_access"] * 90) \div 100,
     duress                   |-> raw["duress"],
     automation_scalable      |-> (raw["automation"] * 80) \div 100,
     sophisticated_tooling    |-> (raw["tooling"] * 70) \div 100,
     professional_execution   |-> Speedrun(raw),
     hesitation_entropy       |-> (raw["hesitation"] * 80) \div 100,
     reverse_familiarity      |-> (raw["hesitation"] * 60) \div 100,
     first_payee_new_crypto   |-> (raw["crypto_payee"] * 80) \div 100,
     online_only_relationship |-> (raw["online_only"] * 80) \div 100,
     never_met_in_person      |-> (raw["never_met"] * 70) \div 100,
     safe_account_move        |-> (raw["safe_account"] * 90) \div 100,
     authority_urgency        |-> (raw["safe_account"] * 70) \div 100,
     fee_to_release           |-> (raw["fee_to_release"] * 80) \div 100]

-----------------------------------------------------------------------------
(* core/motive.py.                                                         *)

\* _CONTRIB by motive, and the sum of what a session's tells contribute to
\* each; in hundred-thousandths.
MotiveScore(signals) ==
    [coerced_victim |->
        100 * signals.duress + 85 * signals.coaching_copresence + 70 * signals.script_reading,
     loophole |-> 40 * signals.automation_scalable,
     income_source |->
        30 * signals.reverse_familiarity + 20 * signals.hesitation_entropy
          + 40 * signals.automation_scalable + 80 * signals.professional_execution
          + 60 * signals.sophisticated_tooling,
     organized_malicious |->
        30 * signals.reverse_familiarity + 45 * signals.sophisticated_tooling]

TopScore(score) == Max({score[motive] : motive \in DOMAIN score})

\* Ties go to the motive listed first; loophole never reaches the floor.
infer_motive(signals) ==
    LET score == MotiveScore(signals)
    IN  IF score.coerced_victim >= 70000 THEN "coerced_victim"
        ELSE IF TopScore(score) < 35000 THEN "inconclusive"
        ELSE IF score.coerced_victim = TopScore(score) THEN "coerced_victim"
        ELSE IF score.income_source = TopScore(score) THEN "income_source"
        ELSE "organized_malicious"

\* The posture, and whether it is reported to the authorities.
recommend_intervention(motive) ==
    [posture    |-> IF motive = "inconclusive" THEN "MONITOR"
                    ELSE IF motive = "coerced_victim" THEN "VICTIM-PROTECT" ELSE "BLOCK + SAR",
     reportable |-> motive \in {"income_source", "organized_malicious"}]

-----------------------------------------------------------------------------
(* core/scam_arc.py.                                                       *)

\* Per stage of the arc, the tells that evidence it: contact, grooming, hook,
\* escalation, extraction, re-victimization.
StageWeight ==
    [s \in 0..5 |->
        IF s = 1 THEN [online_only_relationship |-> 60, never_met_in_person |-> 50,
                       authority_urgency |-> 60]
        ELSE IF s = 2 THEN [first_payee_new_crypto |-> 70]
        ELSE IF s = 4 THEN [fee_to_release |-> 80, safe_account_move |-> 80,
                            remote_access_active |-> 80, coaching_copresence |-> 80,
                            script_reading |-> 70, duress |-> 90, coached_answers |-> 70]
        ELSE <<>>]

LiveTells ==
    {"remote_access_active", "coaching_copresence", "script_reading", "duress", "coached_answers"}

Evidences(signals, s, threshold) ==
    \E tell \in DOMAIN StageWeight[s] : signals[tell] * StageWeight[s][tell] >= threshold

reached(signals) == {s \in 0..5 : Evidences(signals, s, 30000)}

\* Mutant: the walk along the arc ends at the first stage with evidence.
arc_stage_First(signals) == IF reached(signals) = {} THEN 0 ELSE Min(reached(signals))

arc_stage(signals) == Max({0} \cup reached(signals))

coercion_in_flight(signals) ==
    [coached |-> \E tell \in LiveTells : signals[tell] * StageWeight[4][tell] >= 50000,
     duress  |-> signals.duress >= 500]

\* protect, without the second-loss guard: no client reports a prior victim.
protect(signals) ==
    LET live == coercion_in_flight(signals)
        stage == arc_stage(signals)
    IN  IF live.coached \/ live.duress THEN "break-glass"
        ELSE IF stage = 4 THEN "hard-friction"
        ELSE IF stage = 2 THEN "light-friction"
        ELSE IF stage = 1 THEN "educate" ELSE "monitor"

-----------------------------------------------------------------------------

Silent == [f \in RawField |-> 0]

ActorInit ==
    /\ reported = [s \in Session |-> Silent]
    /\ intent = [s \in Session |-> NoIntent]

\* POST /telemetry: the newest row is the one that is read.
ReportTelemetry(s) ==
    /\ \E raw \in Raw : reported' = [reported EXCEPT ![s] = raw]
    /\ UNCHANGED intent

\* The end of build_event: an inconclusive read teaches nothing, and a
\* newer heuristic read replaces the one that stands.
KeepMotive(s) ==
    /\ reported[s] # Silent
    /\ LET motive == infer_motive(derive_signals(reported[s]))
       IN  intent' = IF motive = "inconclusive" THEN intent ELSE [intent EXCEPT ![s] = motive]
    /\ UNCHANGED reported

ActorNext == \E s \in Session : ReportTelemetry(s) \/ KeepMotive(s)

ActorSpec == ActorInit /\ [][ActorNext]_actorVars

-----------------------------------------------------------------------------

\* "Coercion dominates when present - a victim is never scored as an offender
\* just because the transaction looks bad": a session with a call open during
\* the payment, or reported duress, is never labelled or reported as an
\* offender's, whatever automation and tooling was reported with it.
VictimIsNotAccused ==
    [][\A s \in Session :
          reported[s]["call_active"] = 1000 \/ reported[s]["duress"] >= 700 =>
              /\ ~recommend_intervention(infer_motive(derive_signals(reported[s]))).reportable
              /\ intent'[s] # intent[s] => intent'[s] = "coerced_victim"]_actorVars

\* "The stage is the furthest-progressed stage with real evidence, because a
\* scam only goes forward": a row that reports everything the last one did, and
\* more, never puts the person earlier on the arc, nor softens the response
\* from a hard stop.
ArcGoesForward ==
    [][\A s \in Session :
          LET before == derive_signals(reported[s])
              after == derive_signals(reported'[s])
          IN  reported[s] # reported'[s]
                 /\ (\A f \in RawField : reported[s][f] <= reported'[s][f]) =>
                 /\ arc_stage(before) <= arc_stage(after)
                 /\ protect(before) = "break-glass" => protect(after) = "break-glass"]_actorVars

\* The two reads of one call agree that somebody is being coached: what
\* coercion_in_flight stops to protect a person, motive does not report.
ReadsAgreeOnCoercion ==
    \A s \in Session :
        protect(derive_signals(reported[s])) = "break-glass" =>
            ~recommend_intervention(infer_motive(derive_signals(reported[s]))).reportable
=============================================================================
