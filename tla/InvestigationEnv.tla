-------------------------- MODULE InvestigationEnv --------------------------
(***************************************************************************)
(* fraud_env.py, core/investigator_agent.py and the case_file.py they      *)
(* stand on: a transaction row is assembled into a case whose evidence is  *)
(* hidden behind inspections, reference policies and a language model work *)
(* it in turn, and two verifiers score what each of them did.              *)
(* Scores of the row are in hundredths; a reward is in units of 1/3000,    *)
(* which the verifiers' weights and the thirds and quarters of a coverage  *)
(* divide, so the rounding to three decimals orders nothing differently.   *)
(***************************************************************************)
EXTENDS Integers, Sequences, FiniteSets

CONSTANTS
    DataRow,        \* rows: [fraud, card, avs, cvv, authenticated, ring, playbook,
                    \*        points, disputed, prior, score]
    Panel           \* the agents a request runs on its case, in order

VARIABLE bench      \* the request being served, its answer, or NoTrial

benchVars == <<bench>>

NoTrial == [pc |-> "idle"]

INSPECT_ACTIONS ==
    {"inspect_customer", "inspect_instrument", "inspect_card_signals", "inspect_dispute",
     "inspect_device_network", "inspect_timeline"}
TERMINAL_ACTIONS ==
    {"confirm_fraud", "clear_false_positive", "deny_dispute_first_party", "escalate_stepup",
     "block_instrument", "place_hold"}
POLICIES == {"investigator", "trigger_happy", "cautious"}
NoDecision == "none"

ASSUME EnvAssumption == Panel \subseteq Seq(POLICIES \cup {"llm_agent"})

-----------------------------------------------------------------------------
(* The case file: what is derived from the row and shown to an analyst.    *)

\* points stands for the drivers on the customer's own record; a flagged
\* counterparty adds two, and two make the rating Medium.
build_customer(row) == row.points + (IF row.ring THEN 2 ELSE 0) >= 2

\* playbook stands for the patterns of high severity a row can match: card
\* testing, a risky merchant without the card, a takeover's signature.
card_fraud_signals(row) == row.card /\ (row.playbook \/ row.ring)

\* "Match" is looked for inside the result, and "No Match (N)" contains it.
Matches(result) == result \in {"match", "no_match"}

\* What ties the cardholder to the payment, of seven facts. Off a card the
\* last three are unknown; on a legitimate row they are taken as matching.
pro_cardholder(row) ==
    IF row.fraud
    THEN Cardinality({f \in {"avs", "cvv", "three_ds"} :
                          /\ row.card
                          /\ CASE f = "avs" -> Matches(row.avs)
                               [] f = "cvv" -> Matches(row.cvv)
                               [] f = "three_ds" -> row.authenticated})
    ELSE 3 + (IF row.card THEN 3 ELSE 0) + (IF row.prior THEN 1 ELSE 0)

\* Mutant: mixed evidence is enough.
first_party_fraud_risk_Mixed(row) == 10 * pro_cardholder(row) >= 4 * 7

\* The likelihood reaches 0.6.
first_party_fraud_risk(row) == 10 * pro_cardholder(row) >= 6 * 7

dispute_analysis(row) ==
    LET active == row.fraud \/ row.disputed
    IN  [active |-> active, first_party |-> active /\ first_party_fraud_risk(row)]

recommend(score, high, dispute) ==
    IF dispute.first_party THEN "deny_dispute_first_party"
    ELSE IF score >= 85 /\ high THEN "confirm_fraud"
    ELSE IF score >= 50 \/ high THEN "escalate_stepup"
    ELSE "clear_false_positive"

assemble(row) ==
    [fraud       |-> row.fraud,
     score       |-> row.score,
     elevated    |-> build_customer(row),
     high        |-> card_fraud_signals(row),
     dispute     |-> dispute_analysis(row),
     ring        |-> row.ring,
     recommended |-> recommend(row.score, card_fraud_signals(row), dispute_analysis(row))]

-----------------------------------------------------------------------------
(* The verifiers.                                                          *)

gold_disposition(case) ==
    IF case.dispute.first_party THEN "deny_dispute_first_party"
    ELSE IF case.fraud THEN "confirm_fraud" ELSE "clear_false_positive"

\* In tenths.
outcome_reward(action, case) ==
    CASE action = gold_disposition(case) -> 10
      [] action # gold_disposition(case) /\ case.fraud ->
            (CASE action \in {"confirm_fraud", "block_instrument"} -> 10
               [] action \in {"escalate_stepup", "place_hold"} -> 4
               [] action = "deny_dispute_first_party" -> -5
               [] OTHER -> -10)
      [] OTHER ->
            (CASE action \in {"escalate_stepup", "place_hold"} -> -2
               [] action = "clear_false_positive" -> -3
               [] OTHER -> -6)

\* Mutant: a dispute is not looked at before a decision.
decisive_evidence_NoDispute(case) ==
    LET keys == (IF case.high THEN {"inspect_card_signals"} ELSE {})
                \cup (IF case.ring THEN {"inspect_device_network"} ELSE {})
                \cup (IF case.elevated THEN {"inspect_customer"} ELSE {})
    IN  IF keys = {} THEN {"inspect_card_signals"} ELSE keys

decisive_evidence(case) ==
    LET keys == (IF case.high THEN {"inspect_card_signals"} ELSE {})
                \cup (IF case.dispute.active THEN {"inspect_dispute"} ELSE {})
                \cup (IF case.ring THEN {"inspect_device_network"} ELSE {})
                \cup (IF case.elevated THEN {"inspect_customer"} ELSE {})
    IN  IF keys = {} THEN {"inspect_card_signals"} ELSE keys

\* In units of 1/600; inspections counts repeats, inspected does not.
process_reward(inspected, inspections, case) ==
    LET decisive  == decisive_evidence(case)
        over      == Cardinality(inspected) - Cardinality(decisive) - 1
        score     == (600 * Cardinality(decisive \cap inspected)) \div Cardinality(decisive)
                     - 60 * (inspections - Cardinality(inspected))
                     - 30 * (IF over > 0 THEN over ELSE 0)
                     - (IF inspections = 0 THEN 300 ELSE 0)
    IN  IF score < -600 THEN -600 ELSE IF score > 600 THEN 600 ELSE score

total_reward(action, inspected, inspections, case) ==
    180 * outcome_reward(action, case) + 2 * process_reward(inspected, inspections, case)
    - 60 * inspections

-----------------------------------------------------------------------------
(* The agents.                                                             *)

\* The order of sorted(): the least of the names left.
FirstOf(actions) ==
    LET order == <<"inspect_card_signals", "inspect_customer", "inspect_device_network",
                   "inspect_dispute">>
    IN  order[CHOOSE i \in DOMAIN order :
                  order[i] \in actions /\ \A j \in 1..(i - 1) : order[j] \notin actions]

_policy_investigator(case, inspected) ==
    LET todo == decisive_evidence(case) \ inspected
    IN  IF todo # {} THEN FirstOf(todo)
        ELSE IF case.dispute.first_party THEN "deny_dispute_first_party"
        ELSE IF case.high \/ case.score >= 60 THEN "confirm_fraud"
        ELSE IF case.score < 35 THEN "clear_false_positive"
        ELSE "escalate_stepup"

policy(agent, case, inspected) ==
    CASE agent = "trigger_happy" -> "block_instrument"
      [] agent = "cautious"      -> "escalate_stepup"
      [] OTHER                   -> _policy_investigator(case, inspected)

\* Mutant: the model is given one turn more.
MAX_STEPS_Nine == 9

\* investigator_agent's; run_episode of fraud_env has ten, which its policies never use up.
MAX_STEPS == 8

Agent == Head(bench.panel)

\* The agent's run is over and goes on the table; the next one starts afresh.
Close(action, total) ==
    bench' = [bench EXCEPT !.panel = Tail(@), !.inspected = {}, !.taken = 0,
                           !.runs = Append(@, [agent |-> Agent, action |-> action,
                                               total |-> total])]

\* step(): an inspection reveals a section; a terminal action is scored.
Step(action) ==
    \/ /\ action \in INSPECT_ACTIONS
       /\ bench' = [bench EXCEPT !.inspected = @ \cup {action}, !.taken = @ + 1]
    \/ /\ action \in TERMINAL_ACTIONS
       /\ Close(action, total_reward(action, bench.inspected, bench.taken, bench.case))

Running == bench.pc = "running" /\ bench.panel # <<>>

\* A request keeps nothing for the next one, so a behaviour serves one.
BenchInit == bench = NoTrial

Begin(row, panel) ==
    /\ bench = NoTrial
    /\ bench' = [pc |-> "running", case |-> assemble(row), panel |-> panel,
                 inspected |-> {}, taken |-> 0, runs |-> <<>>]

PolicyMove ==
    /\ Running
    /\ Agent \in POLICIES
    /\ Step(policy(Agent, bench.case, bench.inspected))

\* The model answers with any valid action.
ModelMove(action) ==
    /\ Running
    /\ Agent = "llm_agent"
    /\ bench.taken < MAX_STEPS
    /\ Step(action)

\* No action can be read from its reply, or it has had its turns.
ModelDithers ==
    /\ Running
    /\ Agent = "llm_agent"
    /\ Close(NoDecision, -3000)

\* No key, or the call failed: there is no trajectory and nothing to rank.
ModelUnavailable ==
    /\ Running
    /\ Agent = "llm_agent"
    /\ bench' = [bench EXCEPT !.panel = <<>>, !.inspected = {}, !.taken = 0]

\* ranked[0]: the sort is stable, so the first run of the highest total.
Leader(runs) ==
    runs[CHOOSE i \in DOMAIN runs :
             /\ \A j \in DOMAIN runs : runs[j].total <= runs[i].total
             /\ \A j \in 1..(i - 1) : runs[j].total < runs[i].total]

\* The answer: the table and, in a comparison, who leads it.
Rank ==
    /\ bench.pc = "running"
    /\ bench.panel = <<>>
    /\ bench' = [pc   |-> "answered",
                 case |-> bench.case,
                 runs |-> bench.runs,
                 beats_best_reference |->
                     /\ bench.runs # <<>>
                     /\ Leader(bench.runs).agent = "llm_agent"]

BenchNext ==
    \/ \E row \in DataRow, panel \in Panel : Begin(row, panel)
    \/ PolicyMove
    \/ \E action \in INSPECT_ACTIONS \cup TERMINAL_ACTIONS : ModelMove(action)
    \/ ModelDithers \/ ModelUnavailable
    \/ Rank

BenchSpec == BenchInit /\ [][BenchNext]_benchVars

-----------------------------------------------------------------------------
\* An agent that commits to a disposition, however wrong and however late,
\* scores more than one that never decides: the worst run the model's eight
\* turns allow stays above what fraud_env gives for no decision.
DecidingBeatsDithering ==
    bench.pc # "idle" =>
        \A i \in DOMAIN bench.runs :
            bench.runs[i].action # NoDecision => bench.runs[i].total > -3000

\* What an inspection shows of a case.
Section(case, action) ==
    CASE action = "inspect_customer"       -> case.elevated
      [] action = "inspect_card_signals"   -> case.high
      [] action = "inspect_device_network" -> case.ring
      [] OTHER                             -> TRUE

LooksLike(case, other, inspected) ==
    /\ other.score = case.score
    /\ \A action \in inspected : Section(other, action) = Section(case, action)
    /\ "inspect_dispute" \in inspected => other.dispute = case.dispute

\* The baseline "decides from what it sees" (fraud_env.py:196): when it
\* commits, no other case that shows the same alert and the same sections
\* would have had it commit to something else.
DecidesFromWhatItSees ==
    bench.pc = "running" =>
        LET decision == _policy_investigator(bench.case, bench.inspected)
        IN  decision \in TERMINAL_ACTIONS =>
                \A row \in DataRow :
                    LET other == assemble(row)
                        answer == _policy_investigator(other, bench.inspected)
                    IN  LooksLike(bench.case, other, bench.inspected)
                            => answer \in INSPECT_ACTIONS \cup {decision}

\* A real victim's dispute is denied by nobody the code stands for: neither
\* the gold label, nor the case file's recommendation, nor the baseline,
\* whatever the card's verification results were. ("Match" is found in "No
\* Match", so up to three of the seven facts speak against a victim.)
VictimIsNotDenied ==
    bench.pc # "idle" /\ bench.case.fraud =>
        /\ gold_disposition(bench.case) # "deny_dispute_first_party"
        /\ bench.case.recommended # "deny_dispute_first_party"
        /\ \A i \in DOMAIN bench.runs :
              bench.runs[i].agent = "investigator"
              => bench.runs[i].action # "deny_dispute_first_party"

=============================================================================
