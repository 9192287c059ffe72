--------------------------- MODULE DecisionPolicy ---------------------------
(***************************************************************************)
(* The pure part of a decision: the screening verdict (core/screening.py), *)
(* the price (core/liability.py), the policy table that bounds it          *)
(* (core/decision_policy.py), the holdout (core/holdout.py) and the order  *)
(* in which an authorization applies them (core/authorization.py).         *)
(*                                                                         *)
(* What a payment looks like to the scorer is an assessment, a record of   *)
(* the facts the code branches on: the score's band, whether blocking pays *)
(* for itself, whether the liability is over the holdout ceiling, ...      *)
(***************************************************************************)
EXTENDS Integers, Sequences, FiniteSets

-----------------------------------------------------------------------------
(* The ladder and the policy table.                                        *)

LADDER == <<"ALLOW", "MONITOR", "STEP_UP", "HOLD", "BLOCK", "DECLINE">>

Action == {LADDER[i] : i \in DOMAIN LADDER}

Rank(action) == CHOOSE i \in DOMAIN LADDER : LADDER[i] = action

\* Actions that let the money go.
LetsGo == {"ALLOW", "MONITOR"}

PushRail == {"zelle", "fednow", "rtp", "wire", "crypto"}

\* The canonical rails of the ingestion contract and their synonyms.
RAILS ==
    [card |-> {"card", "credit_card", "debit_card", "cards", "card_present", "card_not_present"},
     ach |-> {"ach", "ach_debit", "ach_credit"},
     wire |-> {"wire", "swift", "fedwire"},
     zelle |-> {"zelle"},
     rtp |-> {"rtp", "realtime", "real_time", "real-time"},
     fps |-> {"fps", "faster_payments", "faster-payments"},
     sepa |-> {"sepa", "sepa_ct", "sepa_inst"},
     crypto |-> {"crypto", "cryptocurrency", "btc", "eth", "usdt", "onchain", "on_chain"},
     paypal |-> {"paypal"},
     check |-> {"check", "cheque"}]

\* A rail the contract does not list passes as it is.
normalize_rail(rail) ==
    IF \E canon \in DOMAIN RAILS : rail \in RAILS[canon]
    THEN CHOOSE canon \in DOMAIN RAILS : rail \in RAILS[canon]
    ELSE rail

\* "when" holds the dimensions a rule names, each with its options.
DEFAULT_POLICY ==
    <<[when |-> [rail |-> PushRail, direction |-> {"outbound"}, band |-> {"severe"}],
       floor |-> "HOLD", ceiling |-> "BLOCK"],
      [when |-> [rail |-> PushRail, direction |-> {"outbound"}, band |-> {"high"}],
       floor |-> "STEP_UP", ceiling |-> "HOLD"],
      [when |-> [rail |-> PushRail, direction |-> {"outbound"}, band |-> {"elevated"},
                 tier |-> {"new_account"}],
       floor |-> "STEP_UP", ceiling |-> "HOLD"],
      [when |-> [rail |-> {"ach"}, direction |-> {"outbound"}, band |-> {"severe"}],
       floor |-> "HOLD", ceiling |-> "BLOCK"],
      [when |-> [rail |-> {"card"}, band |-> {"severe"}],
       floor |-> "STEP_UP", ceiling |-> "BLOCK"],
      [when |-> [rail |-> {"card"}, band |-> {"high"}],
       floor |-> "ALLOW", ceiling |-> "STEP_UP"]>>

DefaultRule == [when |-> [rail |-> {}], floor |-> "ALLOW", ceiling |-> "BLOCK"]

\* _matches compares the rail as it is given, and no synonym of it.
Applies(rule, payment) ==
    \A dimension \in DOMAIN rule.when : payment[dimension] \in rule.when[dimension]

Specificity(rule) == Cardinality(DOMAIN rule.when)

\* The most specific rule that applies, the first of several.
BestRule(payment) ==
    LET rules == {i \in DOMAIN DEFAULT_POLICY : Applies(DEFAULT_POLICY[i], payment)}
        Beats(i, j) == \/ Specificity(DEFAULT_POLICY[i]) > Specificity(DEFAULT_POLICY[j])
                       \/ /\ Specificity(DEFAULT_POLICY[i]) = Specificity(DEFAULT_POLICY[j])
                          /\ i <= j
    IN  IF rules = {} THEN DefaultRule
        ELSE DEFAULT_POLICY[CHOOSE i \in rules : \A j \in rules : Beats(i, j)]

\* Mutant: the ceiling bounds first, and the priced action is then returned
\* when it is softer than the floor.
Bounded_NoFloor(rank, floor, ceiling) == IF rank > ceiling THEN ceiling ELSE rank

\* min(max(rank, floor), ceiling); an inverted rule honours its floor.
Bounded(rank, floor, ceiling) ==
    LET top == IF ceiling < floor THEN floor ELSE ceiling
    IN  IF rank < floor THEN floor ELSE IF rank > top THEN top ELSE rank

\* What price_decision recommends.  The price of a reconnaissance probe is
\* withdrawn, and a recommendation that is no action counts as ALLOW.
priced(a, action) ==
    IF a.recon THEN "DEFER_TO_DETECTION" ELSE IF a.pays THEN action ELSE "ALLOW"

decide(recommended, rail, a) ==
    LET rule == BestRule([rail |-> rail, direction |-> "outbound", band |-> a.band,
                          tier |-> a.tier])
        proposed == IF recommended \in Action THEN recommended ELSE "ALLOW"
    IN  LADDER[Bounded(Rank(proposed), Rank(rule.floor), Rank(rule.ceiling))]

\* is_alert(score): the alert line is the lower edge of the high band.
ModelCall(a) == a.band \in {"high", "severe"}

-----------------------------------------------------------------------------
(* Screening and the holdout.                                              *)

\* Mutant: a list that failed to load is an empty list.
screen_FailsOpen(list, match) == IF list = "unavailable" THEN "clear" ELSE match

\* Screening fails closed.  "match" is what a list that loaded says of the
\* counterparty, or, if that is clear, of the member.
screen(list, match) == IF list = "unavailable" THEN "unavailable" ELSE match

HOLDOUTABLE == {"BLOCK", "DECLINE", "HOLD", "STEP_UP"}

\* holdout_decision releases a would-be block: eligible action, liability
\* under the ceiling, and the hash of the subject in the sampled slice.
Release(action, over, sampled) == action \in HOLDOUTABLE /\ ~over /\ sampled

-----------------------------------------------------------------------------
(* The three doors: what each decides before anything is written.          *)

\* What a door decided: the proposed action, the network's code, and whether
\* the holdout turned it into a monitored ALLOW.
Verdict(proposed, code, released) ==
    [proposed |-> proposed, code |-> code, released |-> released,
     enforced |-> IF released THEN "ALLOW" ELSE proposed]

NoCode == "none"

Call(alert) == IF alert THEN "HOLD" ELSE "ALLOW"

\* build_event()'s alert: the model's call, or a row that carries the answer.
Alerts(a) == ModelCall(a) \/ a.known

\* build_event() past the screening gate: price, policy, holdout.
EventVerdict(rail, a, sampled) ==
    LET action == decide(priced(a, Call(Alerts(a))), rail, a)
    IN  Verdict(action, NoCode, Release(action, a.over, sampled))

\* /score prices and applies the policy; a what-if is never held out.
ScoreVerdict(rail, a) ==
    Verdict(decide(priced(a, Call(ModelCall(a))), rail, a), NoCode, FALSE)

ActionToCode ==
    [ALLOW |-> "00", MONITOR |-> "00", STEP_UP |-> "65",
     HOLD |-> "05", BLOCK |-> "05", DECLINE |-> "05"]

stand_in(a) == IF a.small THEN "00" ELSE "05"

\* authorize(): screening, then the member's funds and limits, then the score;
\* past the threshold the stand-in rule answers, else price and policy do.
\* durable_record applies the holdout to whatever action that gave, and an
\* answer given before pricing carries no liability.
AuthorizeVerdict(scr, a, sampled) ==
    LET action == decide(IF a.pays THEN "DECLINE" ELSE "ALLOW", "card", a)
        Held(proposed, code, over) == Verdict(proposed, code, Release(proposed, over, sampled))
    IN  IF scr # "clear" THEN Held("BLOCK", "57", FALSE)
        ELSE IF a.funds # "ok" THEN Held("DECLINE", a.funds, FALSE)
        ELSE IF a.slow THEN Held("STAND_IN", stand_in(a), FALSE)
        ELSE Held(action, ActionToCode[action], a.over)
=============================================================================
