------------------------- MODULE DecisionPathProofs -------------------------
(***************************************************************************)
(* Proofs about DecisionPath, for any callers, payments, assessments and   *)
(* failures.  First what the policy table guarantees of the action it      *)
(* returns, whatever the price proposed; then what the three doors put on  *)
(* record and answer, from an invariant of every call and of the rows.     *)
(***************************************************************************)
EXTENDS DecisionPath, FiniteSetTheorems, TLAPS

USE PathAssumption

-----------------------------------------------------------------------------
(* The ladder.                                                             *)

LEMMA LadderIs ==
  /\ DOMAIN LADDER = 1..6
  /\ LADDER[1] = "ALLOW" /\ LADDER[2] = "MONITOR" /\ LADDER[3] = "STEP_UP"
  /\ LADDER[4] = "HOLD" /\ LADDER[5] = "BLOCK" /\ LADDER[6] = "DECLINE"
BY DEF LADDER

LEMMA ActionIs == Action = {"ALLOW", "MONITOR", "STEP_UP", "HOLD", "BLOCK", "DECLINE"}
<1>1. \A i \in 1..6 : i = 1 \/ i = 2 \/ i = 3 \/ i = 4 \/ i = 5 \/ i = 6
  BY SMT
<1>2. QED
  BY <1>1, LadderIs DEF Action

\* A rank is the place of the action in the ladder.
LEMMA RankIs ==
  /\ Rank("ALLOW") = 1 /\ Rank("MONITOR") = 2 /\ Rank("STEP_UP") = 3
  /\ Rank("HOLD") = 4 /\ Rank("BLOCK") = 5 /\ Rank("DECLINE") = 6
<1>1. ASSUME NEW k \in 1..6 PROVE Rank(LADDER[k]) = k
  <2>1. \A i \in DOMAIN LADDER : LADDER[i] = LADDER[k] => i = k
    BY LadderIs
  <2>2. \E i \in DOMAIN LADDER : LADDER[i] = LADDER[k]
    BY LadderIs
  <2>3. QED
    BY <2>1, <2>2, LadderIs DEF Rank
<1>2. QED
  BY <1>1, LadderIs

LEMMA RankInLadder == ASSUME NEW x \in Action PROVE Rank(x) \in 1..6
BY ActionIs, RankIs

LEMMA BoundedIs ==
  ASSUME NEW r \in 1..6, NEW floor \in 1..6, NEW ceiling \in 1..6
  PROVE  /\ Bounded(r, floor, ceiling) \in 1..6
         /\ Bounded(r, floor, ceiling) >= floor
         /\ floor <= ceiling => Bounded(r, floor, ceiling) <= ceiling
BY DEF Bounded

-----------------------------------------------------------------------------
(* The policy table.                                                       *)

LEMMA TableIs ==
  /\ DOMAIN DEFAULT_POLICY = 1..6
  /\ DEFAULT_POLICY[1] = [when |-> [rail |-> PushRail, direction |-> {"outbound"}, band |-> {"severe"}],
                          floor |-> "HOLD", ceiling |-> "BLOCK"]
  /\ DEFAULT_POLICY[2] = [when |-> [rail |-> PushRail, direction |-> {"outbound"}, band |-> {"high"}],
                          floor |-> "STEP_UP", ceiling |-> "HOLD"]
  /\ DEFAULT_POLICY[3] = [when |-> [rail |-> PushRail, direction |-> {"outbound"}, band |-> {"elevated"},
                                    tier |-> {"new_account"}],
                          floor |-> "STEP_UP", ceiling |-> "HOLD"]
  /\ DEFAULT_POLICY[4] = [when |-> [rail |-> {"ach"}, direction |-> {"outbound"}, band |-> {"severe"}],
                          floor |-> "HOLD", ceiling |-> "BLOCK"]
  /\ DEFAULT_POLICY[5] = [when |-> [rail |-> {"card"}, band |-> {"severe"}],
                          floor |-> "STEP_UP", ceiling |-> "BLOCK"]
  /\ DEFAULT_POLICY[6] = [when |-> [rail |-> {"card"}, band |-> {"high"}],
                          floor |-> "ALLOW", ceiling |-> "STEP_UP"]
BY DEF DEFAULT_POLICY

LEMMA Specificities ==
  /\ Specificity(DEFAULT_POLICY[1]) = 3 /\ Specificity(DEFAULT_POLICY[2]) = 3
  /\ Specificity(DEFAULT_POLICY[3]) = 4 /\ Specificity(DEFAULT_POLICY[4]) = 3
  /\ Specificity(DEFAULT_POLICY[5]) = 2 /\ Specificity(DEFAULT_POLICY[6]) = 2
<1>0. Cardinality({}) = 0 /\ IsFiniteSet({})
  BY FS_EmptySet
<1>1. Cardinality({"rail"}) = 1 /\ IsFiniteSet({"rail"})
  BY FS_Singleton
<1>2. Cardinality({"rail", "band"}) = 2 /\ IsFiniteSet({"rail", "band"})
  <2>1. {"rail", "band"} = {"rail"} \cup {"band"} /\ "band" \notin {"rail"}
    OBVIOUS
  <2>2. QED
    BY <1>1, <2>1, FS_AddElement
<1>3. Cardinality({"rail", "band", "direction"}) = 3 /\ IsFiniteSet({"rail", "band", "direction"})
  <2>1. /\ {"rail", "band", "direction"} = {"rail", "band"} \cup {"direction"}
        /\ "direction" \notin {"rail", "band"}
    OBVIOUS
  <2>2. QED
    BY <1>2, <2>1, FS_AddElement
<1>4. Cardinality({"rail", "band", "direction", "tier"}) = 4
  <2>1. /\ {"rail", "band", "direction", "tier"} = {"rail", "band", "direction"} \cup {"tier"}
        /\ "tier" \notin {"rail", "band", "direction"}
    OBVIOUS
  <2>2. QED
    BY <1>3, <2>1, FS_AddElement
<1>5. /\ DOMAIN DEFAULT_POLICY[1].when = {"rail", "band", "direction"}
      /\ DOMAIN DEFAULT_POLICY[2].when = {"rail", "band", "direction"}
      /\ DOMAIN DEFAULT_POLICY[3].when = {"rail", "band", "direction", "tier"}
      /\ DOMAIN DEFAULT_POLICY[4].when = {"rail", "band", "direction"}
      /\ DOMAIN DEFAULT_POLICY[5].when = {"rail", "band"}
      /\ DOMAIN DEFAULT_POLICY[6].when = {"rail", "band"}
  BY TableIs
<1>6. QED
  BY <1>2, <1>3, <1>4, <1>5 DEF Specificity

\* What decides between two rules that both apply.
Over(i, j) ==
    \/ Specificity(DEFAULT_POLICY[i]) > Specificity(DEFAULT_POLICY[j])
    \/ /\ Specificity(DEFAULT_POLICY[i]) = Specificity(DEFAULT_POLICY[j])
       /\ i <= j

Applying(payment) == {i \in DOMAIN DEFAULT_POLICY : Applies(DEFAULT_POLICY[i], payment)}

LEMMA BestRuleIs ==
  ASSUME NEW payment
  PROVE  BestRule(payment) =
           IF Applying(payment) = {} THEN DefaultRule
           ELSE DEFAULT_POLICY[CHOOSE i \in Applying(payment) :
                                 \A j \in Applying(payment) : Over(i, j)]
BY Zenon DEF BestRule, Applying, Over

\* Whatever applies, one rule comes out on top: the order is total.
LEMMA OneRuleWins ==
  ASSUME NEW rules \in SUBSET (1..6), rules # {}
  PROVE  \E i \in rules : \A j \in rules : Over(i, j)
<1>0. \A j \in rules : j = 1 \/ j = 2 \/ j = 3 \/ j = 4 \/ j = 5 \/ j = 6
  BY SMT
<1>1. CASE 3 \in rules
  BY <1>0, <1>1, Specificities DEF Over
<1>2. CASE 3 \notin rules /\ 1 \in rules
  BY <1>0, <1>2, Specificities DEF Over
<1>3. CASE rules \cap {1, 3} = {} /\ 2 \in rules
  BY <1>0, <1>3, Specificities DEF Over
<1>4. CASE rules \cap {1, 2, 3} = {} /\ 4 \in rules
  BY <1>0, <1>4, Specificities DEF Over
<1>5. CASE rules \cap {1, 2, 3, 4} = {} /\ 5 \in rules
  BY <1>0, <1>5, Specificities DEF Over
<1>6. CASE rules \subseteq {6}
  <2>1. rules = {6}
    BY <1>6, Zenon
  <2>2. Over(6, 6)
    BY SMT DEF Over
  <2>3. QED
    BY <2>1, <2>2
<1>7. QED
  BY <1>0, <1>1, <1>2, <1>3, <1>4, <1>5, <1>6

\* The winning rule is one that applies, or the default when none does.
LEMMA BestRuleApplies ==
  ASSUME NEW payment
  PROVE  \/ Applying(payment) = {} /\ BestRule(payment) = DefaultRule
         \/ \E i \in Applying(payment) : BestRule(payment) = DEFAULT_POLICY[i]
<1>1. CASE Applying(payment) = {}
  BY <1>1, BestRuleIs
<1>2. CASE Applying(payment) # {}
  <2>1. \E i \in Applying(payment) : \A j \in Applying(payment) : Over(i, j)
    BY <1>2, OneRuleWins, TableIs DEF Applying
  <2> DEFINE best == CHOOSE i \in Applying(payment) : \A j \in Applying(payment) : Over(i, j)
  <2>2. best \in Applying(payment)
    BY <2>1
  <2>3. BestRule(payment) = DEFAULT_POLICY[best]
    BY <1>2, BestRuleIs
  <2>4. QED
    BY <2>2, <2>3
<1>3. QED
  BY <1>1, <1>2

\* No rule of the table is inverted.
LEMMA BestRuleBounds ==
  ASSUME NEW payment
  PROVE  /\ Rank(BestRule(payment).floor) \in 1..6
         /\ Rank(BestRule(payment).ceiling) \in 1..6
         /\ Rank(BestRule(payment).floor) <= Rank(BestRule(payment).ceiling)
<1> DEFINE Sound(rule) == /\ Rank(rule.floor) \in 1..6 /\ Rank(rule.ceiling) \in 1..6
                          /\ Rank(rule.floor) <= Rank(rule.ceiling)
<1>1. Sound(DefaultRule)
  BY RankIs DEF DefaultRule
<1>2. ASSUME NEW i \in 1..6 PROVE Sound(DEFAULT_POLICY[i])
  <2>1. i = 1 \/ i = 2 \/ i = 3 \/ i = 4 \/ i = 5 \/ i = 6
    BY SMT
  <2>2. QED
    BY <2>1, TableIs, RankIs
<1>3. QED
  BY <1>1, <1>2, BestRuleApplies, TableIs DEF Applying

Paying(rail, a) == [rail |-> rail, direction |-> "outbound", band |-> a.band, tier |-> a.tier]

\* On a push rail at high risk rule 2 is the only one that applies, and at
\* severe risk rule 1.
LEMMA PushRule ==
  ASSUME NEW rail \in PushRail, NEW a
  PROVE  /\ a.band = "high" => BestRule(Paying(rail, a)) = DEFAULT_POLICY[2]
         /\ a.band = "severe" => BestRule(Paying(rail, a)) = DEFAULT_POLICY[1]
<1> DEFINE p == Paying(rail, a)
<1>0. /\ p.rail \in PushRail /\ p.rail \notin {"ach", "card"}
      /\ p.direction = "outbound" /\ p.band = a.band
  BY DEF Paying, PushRail
<1> HIDE DEF p
<1>1. \A j \in 1..6 : j = 1 \/ j = 2 \/ j = 3 \/ j = 4 \/ j = 5 \/ j = 6
  BY SMT
<1>2. ~Applies(DEFAULT_POLICY[4], p) /\ ~Applies(DEFAULT_POLICY[5], p) /\ ~Applies(DEFAULT_POLICY[6], p)
  BY <1>0, TableIs DEF Applies
<1>3. CASE a.band = "high"
  <2>1. Applies(DEFAULT_POLICY[2], p)
    BY <1>0, <1>3, TableIs DEF Applies
  <2>2. ~Applies(DEFAULT_POLICY[1], p) /\ ~Applies(DEFAULT_POLICY[3], p)
    BY <1>0, <1>3, TableIs DEF Applies
  <2>3. Applying(p) = {2}
    <3>1. \A j \in 1..6 : Applies(DEFAULT_POLICY[j], p) <=> j = 2
      BY <1>1, <1>2, <2>1, <2>2
    <3>2. \A j : j \in Applying(p) <=> j \in 1..6 /\ Applies(DEFAULT_POLICY[j], p)
      BY TableIs DEF Applying
    <3>3. QED
      BY <3>1, <3>2
  <2>4. QED
    BY <1>3, <2>3, BestRuleApplies DEF p
<1>4. CASE a.band = "severe"
  <2>1. Applies(DEFAULT_POLICY[1], p)
    BY <1>0, <1>4, TableIs DEF Applies
  <2>2. ~Applies(DEFAULT_POLICY[2], p) /\ ~Applies(DEFAULT_POLICY[3], p)
    BY <1>0, <1>4, TableIs DEF Applies
  <2>3. Applying(p) = {1}
    <3>1. \A j \in 1..6 : Applies(DEFAULT_POLICY[j], p) <=> j = 1
      BY <1>1, <1>2, <2>1, <2>2
    <3>2. \A j : j \in Applying(p) <=> j \in 1..6 /\ Applies(DEFAULT_POLICY[j], p)
      BY TableIs DEF Applying
    <3>3. QED
      BY <3>1, <3>2
  <2>4. QED
    BY <1>4, <2>3, BestRuleApplies DEF p
<1>5. QED
  BY <1>3, <1>4 DEF p

\* decide() returns an action of the ladder whatever it is asked, and on a push
\* rail one within the rule's bounds.
THEOREM DecideIsBounded ==
  ASSUME NEW recommended, NEW rail, NEW a
  PROVE  /\ decide(recommended, rail, a) \in Action
         /\ rail \in PushRail /\ a.band = "high" =>
              decide(recommended, rail, a) \in {"STEP_UP", "HOLD"}
         /\ rail \in PushRail /\ a.band = "severe" =>
              decide(recommended, rail, a) \in {"HOLD", "BLOCK"}
<1> DEFINE rule == BestRule(Paying(rail, a))
           proposed == IF recommended \in Action THEN recommended ELSE "ALLOW"
           place == Bounded(Rank(proposed), Rank(rule.floor), Rank(rule.ceiling))
<1>1. decide(recommended, rail, a) = LADDER[place]
  BY DEF decide, Paying
<1>2. Rank(proposed) \in 1..6
  BY RankInLadder, ActionIs
<1>3. /\ Rank(rule.floor) \in 1..6 /\ Rank(rule.ceiling) \in 1..6
      /\ Rank(rule.floor) <= Rank(rule.ceiling)
  BY BestRuleBounds
<1>4. place \in Rank(rule.floor)..Rank(rule.ceiling) /\ place \in 1..6
  <2> HIDE DEF rule, proposed
  <2>1. QED
    BY <1>2, <1>3, BoundedIs
<1>5. rail \in PushRail /\ a.band = "high" => Rank(rule.floor) = 3 /\ Rank(rule.ceiling) = 4
  BY PushRule, TableIs, RankIs
<1>6. rail \in PushRail /\ a.band = "severe" => Rank(rule.floor) = 4 /\ Rank(rule.ceiling) = 5
  BY PushRule, TableIs, RankIs
<1> HIDE DEF place, rule
<1>7. LADDER[place] \in Action
  BY <1>4, LadderIs DEF Action
<1>8. \A k \in 3..4 : LADDER[k] \in {"STEP_UP", "HOLD"}
  <2>1. \A k \in 3..4 : k = 3 \/ k = 4
    BY SMT
  <2>2. QED
    BY <2>1, LadderIs
<1>9. \A k \in 4..5 : LADDER[k] \in {"HOLD", "BLOCK"}
  <2>1. \A k \in 4..5 : k = 4 \/ k = 5
    BY SMT
  <2>2. QED
    BY <2>1, LadderIs
<1>10. QED
  BY <1>1, <1>4, <1>5, <1>6, <1>7, <1>8, <1>9

-----------------------------------------------------------------------------
(* What a door decides.                                                    *)

Door == {"dec", "auth", "score"}

Enforceable == Action \cup {"STAND_IN"}

LEMMA EventVerdictHolds ==
  ASSUME NEW rail, NEW a, NEW sampled
  PROVE  LET v == EventVerdict(rail, a, sampled)
         IN  /\ v.enforced \in Action
             /\ rail \in PushRail => PolicyBinds([rail |-> rail, band |-> a.band,
                                   action |-> v.enforced, released |-> v.released])
<1> DEFINE action == decide(priced(a, Call(Alerts(a))), rail, a)
           released == Release(action, a.over, sampled)
<1>1. /\ action \in Action
      /\ rail \in PushRail /\ a.band = "high" => action \in {"STEP_UP", "HOLD"}
      /\ rail \in PushRail /\ a.band = "severe" => action \in {"HOLD", "BLOCK"}
  BY DecideIsBounded
<1>2. EventVerdict(rail, a, sampled) = Verdict(action, NoCode, released)
  BY DEF EventVerdict
<1> HIDE DEF action, released
<1>3. CASE released
  <2>1. /\ EventVerdict(rail, a, sampled).enforced = "ALLOW"
        /\ EventVerdict(rail, a, sampled).released
    BY <1>2, <1>3 DEF Verdict
  <2>2. QED
    BY <2>1, ActionIs DEF PolicyBinds
<1>4. CASE ~released
  <2>1. EventVerdict(rail, a, sampled).enforced = action
    BY <1>2, <1>4 DEF Verdict
  <2>2. QED
    BY <1>1, <2>1 DEF PolicyBinds, LetsGo
<1>5. QED
  BY <1>3, <1>4

LEMMA ScoreVerdictHolds ==
  ASSUME NEW rail, NEW a
  PROVE  LET v == ScoreVerdict(rail, a)
         IN  /\ v.enforced \in Action
             /\ rail \in PushRail => PolicyBinds([rail |-> rail, band |-> a.band,
                                   action |-> v.enforced, released |-> v.released])
<1> DEFINE action == decide(priced(a, Call(ModelCall(a))), rail, a)
<1>1. /\ action \in Action
      /\ rail \in PushRail /\ a.band = "high" => action \in {"STEP_UP", "HOLD"}
      /\ rail \in PushRail /\ a.band = "severe" => action \in {"HOLD", "BLOCK"}
  BY DecideIsBounded
<1>2. ScoreVerdict(rail, a) = Verdict(action, NoCode, FALSE)
  BY DEF ScoreVerdict
<1> HIDE DEF action
<1>3. ScoreVerdict(rail, a).enforced = action
  BY <1>2 DEF Verdict
<1>4. QED
  BY <1>1, <1>3 DEF PolicyBinds, LetsGo

LEMMA AuthorizeVerdictHolds ==
  ASSUME NEW scr, NEW a, NEW sampled
  PROVE  /\ AuthorizeVerdict(scr, a, sampled).enforced \in Enforceable
         /\ scr # "clear" => AuthorizeVerdict(scr, a, sampled).code = "57"
<1> DEFINE action == decide(IF a.pays THEN "DECLINE" ELSE "ALLOW", "card", a)
           v == AuthorizeVerdict(scr, a, sampled)
<1>1. action \in Action
  BY DecideIsBounded
<1>2. CASE scr # "clear"
  <2>1. v = Verdict("BLOCK", "57", Release("BLOCK", FALSE, sampled))
    BY <1>2 DEF AuthorizeVerdict
  <2>2. v.enforced \in {"BLOCK", "ALLOW"} /\ v.code = "57"
    BY <2>1 DEF Verdict
  <2>3. QED
    BY <2>2, ActionIs DEF Enforceable
<1>3. CASE scr = "clear" /\ a.funds # "ok"
  <2>1. v = Verdict("DECLINE", a.funds, Release("DECLINE", FALSE, sampled))
    BY <1>3 DEF AuthorizeVerdict
  <2>2. v.enforced \in {"DECLINE", "ALLOW"}
    BY <2>1 DEF Verdict
  <2>3. QED
    BY <1>3, <2>2, ActionIs DEF Enforceable
<1>4. CASE scr = "clear" /\ a.funds = "ok" /\ a.slow
  <2>1. v = Verdict("STAND_IN", stand_in(a), Release("STAND_IN", FALSE, sampled))
    BY <1>4 DEF AuthorizeVerdict
  <2>2. v.enforced \in {"STAND_IN", "ALLOW"}
    BY <2>1 DEF Verdict
  <2>3. QED
    BY <1>4, <2>2, ActionIs DEF Enforceable
<1>5. CASE scr = "clear" /\ a.funds = "ok" /\ ~a.slow
  <2>1. v = Verdict(action, ActionToCode[action], Release(action, a.over, sampled))
    BY <1>5 DEF AuthorizeVerdict
  <2>2. v.enforced \in {action, "ALLOW"}
    BY <2>1 DEF Verdict
  <2>3. QED
    BY <1>1, <1>5, <2>2, ActionIs DEF Enforceable
<1>6. QED
  BY <1>2, <1>3, <1>4, <1>5

\* What every call carries from the moment it is decided.
LEMMA VerdictHolds ==
  ASSUME NEW door \in Door, NEW ref, NEW rail, NEW a, NEW scr
  PROVE  LET v == VerdictAt(door, ref, rail, a, scr)
         IN  /\ v.enforced \in Enforceable
             /\ scr # "clear" => IF door = "auth" THEN v.code # "00" ELSE v.enforced = "BLOCK"
             /\ door # "auth" /\ scr = "clear" =>
                  PolicyBinds([rail |-> rail, band |-> a.band,
                               action |-> v.enforced, released |-> v.released])
<1>1. CASE door = "auth"
  BY <1>1, AuthorizeVerdictHolds DEF VerdictAt
<1>2. CASE door # "auth" /\ scr # "clear"
  <2>1. VerdictAt(door, ref, rail, a, scr).enforced = "BLOCK"
    BY <1>2 DEF VerdictAt, Verdict
  <2>2. QED
    BY <1>2, <2>1, ActionIs DEF Enforceable
<1>3. CASE door = "dec" /\ scr = "clear"
  <2>1. VerdictAt(door, ref, rail, a, scr) = EventVerdict(rail, a, ref \in Sampled)
    BY <1>3 DEF VerdictAt
  <2>2. QED
    BY <1>3, <2>1, EventVerdictHolds DEF PolicyBinds, Enforceable
<1>4. CASE door = "score" /\ scr = "clear"
  <2>1. VerdictAt(door, ref, rail, a, scr) = ScoreVerdict(rail, a)
    BY <1>4 DEF VerdictAt
  <2>2. QED
    BY <1>4, <2>1, ScoreVerdictHolds DEF PolicyBinds, Enforceable
<1>5. QED
  BY <1>1, <1>2, <1>3, <1>4 DEF Door

-----------------------------------------------------------------------------
(* The inductive invariant.  Sound is what a call knows of itself; Filed   *)
(* ties it to the rows it has written; Rows is what the rows owe to the    *)
(* calls that decided them; Told is what an answer owes to the rows; Once  *)
(* follows a payment that is scored once while nothing fails.              *)

Loading == {"available", "unavailable"}
Recorded == {"txn", "alert", "decision", "label", "card"}
Stage == Recorded \cup {"whatif", "answer"}
Payment == Ref \cup {NoRef}
Rail == {"card"} \cup {Spelling[r] : r \in Ref} \cup {normalize_rail(Spelling[r]) : r \in Ref}
Decided == {VerdictAt(door, ref, rail, a, scr) :
              door \in Door, ref \in Payment, rail \in Rail, a \in Assess,
              scr \in {"unavailable"} \cup {Match[r] : r \in Payment}}

Serving == [pc: Stage, door: Door, ref: Payment, a: Assess,
            rail: Rail, list: Loading,
            verdict: Decided, recorded: BOOLEAN]

Rows == {Row(c) : c \in Serving}

Sound(c) ==
    /\ c.recorded => c.pc \in {"label", "card", "answer"} /\ c.door \in Enforced /\ c.ref \in Ref
    /\ c.pc \in {"txn", "alert", "label"} => c.door = "dec"
    /\ c.pc = "whatif" => c.door = "score"
    /\ c.pc = "card" => c.door = "auth"
    /\ c.pc = "decision" => c.door \in Enforced
    /\ c.pc \in Recorded \/ c.door # "auth" => c.ref \in Ref
    /\ Prohibited(c) => IF c.door = "auth" THEN c.verdict.code # "00"
                        ELSE c.verdict.enforced = "BLOCK"
    /\ c.door = "auth" => c.rail = "card"
    /\ c.door = "auth" \/ ~Prohibited(c) => PolicyBinds(Row(c))
    /\ c.door = "dec" /\ c.pc # "answer" => ~Prohibited(c)

Filed(c, decided, rows, events) ==
    /\ c.pc \in Recorded \/ c.recorded => Row(c) \in decided[<<c.door, c.ref>>]
    /\ c.pc = "label" \/ c.recorded => rows[<<c.door, c.ref>>] # NoRow
    /\ c.pc = "alert" => events[c.ref] # NoEvent /\ ~c.verdict.released

TypeInv ==
    /\ listFile \in Loading /\ list \in Loading \cup {"unread"}
    /\ call \in [Caller -> {Idle} \cup Serving]
    /\ decisions \in [DecisionId -> {NoRow} \cup Rows]
    /\ verdicts \in [DecisionId -> SUBSET Rows]
    /\ seen \in [DecisionId -> Nat]
    /\ txn \in [Ref -> {NoEvent, "alert", "quiet"}]
    /\ machine \in [Ref -> {NoLabel, "fraud", "legit"}]
    /\ alerts \subseteq Ref /\ whatifs \in Nat /\ stops \in Nat

CallsSound == \A w \in Caller : call[w] # Idle => Sound(call[w])

CallsFiled == \A w \in Caller : call[w] # Idle => Filed(call[w], verdicts, decisions, txn)

VerdictsSound ==
    \A id \in DecisionId :
        /\ seen[id] = 0 => verdicts[id] = {}
        /\ seen[id] = 1 => \A x, y \in verdicts[id] : x = y
        /\ \A x \in verdicts[id] :
              PolicyBinds(x) /\ (id[1] = "dec" => Match[id[2]] = "clear")

FraudBand(row) == row.band \in {"high", "severe"}

LabelsSound ==
    \A r \in Ref : machine[r] # NoLabel =>
        /\ decisions[<<"dec", r>>] # NoRow
        /\ \E x \in verdicts[<<"dec", r>>] : machine[r] = "fraud" <=> FraudBand(x)

AlertsSound ==
    \A r \in alerts :
        /\ txn[r] # NoEvent
        /\ \E x \in verdicts[<<"dec", r>>] : ~x.released

Told(x, decided, rows) ==
    /\ Prohibited(x) => IF x.door = "auth" THEN x.code # "00" ELSE x.action = "BLOCK"
    /\ x.list = "available" /\ Match[x.ref] = "clear" => PolicyBinds(x)
    /\ x.door = "auth" /\ x.recorded =>
          /\ x.ref \in Ref
          /\ rows[<<"auth", x.ref>>] # NoRow
          /\ \E y \in decided[<<"auth", x.ref>>] :
                y.action = x.action /\ y.released = x.released

AnswersSound == \A x \in answers : Told(x, verdicts, decisions)

Scoring(w, r) == call[w] # Idle /\ call[w].door = "dec" /\ call[w].ref = r

Once ==
    stops = 0 => \A r \in Ref :
        /\ seen[<<"dec", r>>] = 0 =>
              /\ \A w \in Caller : ~Scoring(w, r)
              /\ txn[r] = NoEvent /\ r \notin alerts /\ decisions[<<"dec", r>>] = NoRow
        /\ seen[<<"dec", r>>] = 1 =>
              /\ \A v, w \in Caller : Scoring(v, r) /\ Scoring(w, r) => v = w
              /\ \A w \in Caller : Scoring(w, r) =>
                    /\ call[w].pc = "txn" => txn[r] = NoEvent
                    /\ call[w].pc = "alert" => txn[r] = "alert"
                    /\ call[w].pc \in {"txn", "alert"} =>
                          r \notin alerts /\ decisions[<<"dec", r>>] = NoRow
                    /\ call[w].pc = "decision" => (txn[r] = "alert" <=> r \in alerts)
              /\ decisions[<<"dec", r>>] # NoRow => (txn[r] = "alert" <=> r \in alerts)

PathInv ==
    /\ TypeInv /\ CallsSound /\ CallsFiled
    /\ VerdictsSound /\ EnforcedRowIsDecided
    /\ LabelsSound /\ AlertsSound /\ AnswersSound /\ Once

-----------------------------------------------------------------------------

LEMMA DecidedEnforces == ASSUME NEW v \in Decided PROVE v.enforced \in Enforceable
<1>1. PICK door \in Door, ref \in Payment, rail \in Rail, a \in Assess,
           scr \in {"unavailable"} \cup {Match[r] : r \in Payment} :
        v = VerdictAt(door, ref, rail, a, scr)
  BY DEF Decided
<1>2. QED
  BY <1>1, VerdictHolds

\* A row of a call is a row, and no row is the row nobody wrote.
LEMMA RowIsRow ==
  ASSUME NEW c \in Serving PROVE Row(c) \in Rows /\ Row(c) # NoRow
<1>1. c.verdict.enforced \in Enforceable
  BY DecidedEnforces DEF Serving
<1>2. "none" \notin Enforceable
  BY ActionIs DEF Enforceable
<1>3. Row(c).action = c.verdict.enforced /\ NoRow.action = "none"
  BY DEF Row, NoRow
<1>4. QED
  BY <1>1, <1>2, <1>3, Zenon DEF Rows

\* What a call keeps when it only moves on.
LEMMA Moved ==
  ASSUME NEW c \in Serving, NEW p \in Stage
  PROVE  LET d == [c EXCEPT !.pc = p]
         IN  /\ d \in Serving /\ d.pc = p
             /\ d.door = c.door /\ d.ref = c.ref /\ d.a = c.a /\ d.rail = c.rail
             /\ d.list = c.list /\ d.verdict = c.verdict /\ d.recorded = c.recorded
BY DEF Serving

LEMMA MovedRecorded ==
  ASSUME NEW c \in Serving, NEW p \in Stage
  PROVE  LET d == [c EXCEPT !.pc = p, !.recorded = TRUE]
         IN  /\ d \in Serving /\ d.pc = p
             /\ d.door = c.door /\ d.ref = c.ref /\ d.a = c.a /\ d.rail = c.rail
             /\ d.list = c.list /\ d.verdict = c.verdict /\ d.recorded
BY DEF Serving

LEMMA ServingIsNotIdle == ASSUME NEW c \in Serving PROVE c # Idle /\ c.pc # "idle"
BY DEF Serving, Idle, Stage, Recorded

\* Rows and events that stay keep a call filed.
LEMMA FiledStays ==
  ASSUME NEW c \in Serving, Sound(c), NEW d0, NEW r0, NEW e0, NEW d1, NEW r1, NEW e1,
         Filed(c, d0, r0, e0),
         \A id \in DecisionId : d0[id] \subseteq d1[id] /\ (r0[id] # NoRow => r1[id] # NoRow),
         \A r \in Ref : e0[r] # NoEvent => e1[r] # NoEvent
  PROVE  Filed(c, d1, r1, e1)
<1>1. c.pc \in Recorded \/ c.recorded => <<c.door, c.ref>> \in DecisionId
  BY DEF Sound, Recorded, Enforced, DecisionId
<1>2. c.pc = "alert" => c.ref \in Ref
  BY DEF Sound, Recorded
<1>3. c.pc = "label" => c.pc \in Recorded
  BY DEF Recorded
<1>4. QED
  BY <1>1, <1>2, <1>3 DEF Filed

LEMMA ToldStays ==
  ASSUME NEW x, NEW d0, NEW r0, NEW d1, NEW r1, Told(x, d0, r0),
         \A id \in DecisionId : d0[id] \subseteq d1[id] /\ (r0[id] # NoRow => r1[id] # NoRow)
  PROVE  Told(x, d1, r1)
<1>1. x.ref \in Ref => <<"auth", x.ref>> \in DecisionId
  BY DEF DecisionId, Enforced
<1>2. QED
  BY <1>1 DEF Told

LEMMA InitPathInv == Init => PathInv
<1> SUFFICES ASSUME Init PROVE PathInv
  OBVIOUS
<1> USE DEF Init
<1>1. TypeInv
  BY DEF TypeInv, Loading
<1>2. CallsSound /\ CallsFiled
  BY DEF CallsSound, CallsFiled
<1>3. VerdictsSound /\ EnforcedRowIsDecided
  BY DEF VerdictsSound, EnforcedRowIsDecided
<1>4. LabelsSound /\ AlertsSound /\ AnswersSound
  BY DEF LabelsSound, AlertsSound, AnswersSound
<1>5. Once
  BY DEF Once, Scoring, DecisionId, Enforced
<1>6. QED
  BY <1>1, <1>2, <1>3, <1>4, <1>5 DEF PathInv

-----------------------------------------------------------------------------
(* A call comes in.                                                        *)

\* What Receive puts together is a sound call at the first stage of its door.
LEMMA NewCallSound ==
  ASSUME TypeInv, NEW door \in Door, NEW ref \in Payment, NEW rail \in Rail, NEW a \in Assess,
         IF door = "auth" THEN rail = "card" ELSE ref \in Ref,
         NEW c,
         c = [pc |-> FirstWrite(door, ref, screen(Loaded, Match[ref])), door |-> door,
              ref |-> ref, a |-> a,
              rail |-> rail, list |-> Loaded,
              verdict |-> VerdictAt(door, ref, rail, a, screen(Loaded, Match[ref])),
              recorded |-> FALSE]
  PROVE  /\ c \in Serving /\ Sound(c)
         /\ c.pc \in {"txn", "decision", "whatif", "answer"}
         /\ c.pc = "decision" => door = "auth"
         /\ door = "dec" /\ c.pc # "answer" => Match[ref] = "clear"
<1> DEFINE scr == screen(Loaded, Match[ref])
           v == VerdictAt(door, ref, rail, a, scr)
<1>1. Loaded \in Loading
  BY DEF TypeInv, Loaded, Loading
<1>2. /\ scr \in {"unavailable"} \cup {Match[r] : r \in Payment}
      /\ scr = "clear" <=> Loaded # "unavailable" /\ Match[ref] = "clear"
  BY DEF screen
<1>3. v \in Decided
  BY <1>2 DEF Decided
<1>4. /\ v.enforced \in Enforceable
      /\ scr # "clear" => IF door = "auth" THEN v.code # "00" ELSE v.enforced = "BLOCK"
      /\ door # "auth" /\ scr = "clear" =>
           PolicyBinds([rail |-> rail, band |-> a.band,
                        action |-> v.enforced, released |-> v.released])
  BY VerdictHolds
<1>5. /\ FirstWrite(door, ref, scr) \in {"txn", "decision", "whatif", "answer"}
      /\ FirstWrite(door, ref, scr) = "txn" => door = "dec" /\ scr = "clear"
      /\ FirstWrite(door, ref, scr) = "decision" => door = "auth" /\ ref # NoRef
      /\ FirstWrite(door, ref, scr) = "whatif" => door = "score"
      /\ door = "dec" /\ scr # "clear" => FirstWrite(door, ref, scr) = "answer"
  BY DEF FirstWrite, Door
<1> HIDE DEF scr, v
<1>6. /\ c = [pc |-> FirstWrite(door, ref, scr), door |-> door, ref |-> ref, a |-> a,
              rail |-> rail, list |-> Loaded,
              verdict |-> v, recorded |-> FALSE]
  BY DEF scr, v
<1>7. c \in Serving
  BY <1>1, <1>3, <1>5, <1>6 DEF Serving, Stage, Recorded, Payment
<1>8. Prohibited(c) <=> scr # "clear"
  BY <1>2, <1>6 DEF Prohibited
<1>9. PolicyBinds(Row(c)) <=>
        PolicyBinds([rail |-> c.rail, band |-> a.band,
                     action |-> v.enforced, released |-> v.released])
  BY <1>6 DEF PolicyBinds, Row
<1>10. door = "auth" \/ ~Prohibited(c) => PolicyBinds(Row(c))
  <2>1. CASE door = "auth"
    BY <1>6, <2>1 DEF PolicyBinds, Row, PushRail
  <2>2. CASE door # "auth" /\ ~Prohibited(c)
    BY <1>4, <1>6, <1>8, <1>9, <2>2
  <2>3. QED
    BY <2>1, <2>2
<1>11. Prohibited(c) => IF c.door = "auth" THEN c.verdict.code # "00"
                        ELSE c.verdict.enforced = "BLOCK"
  BY <1>4, <1>6, <1>8
<1>12. Sound(c)
  BY <1>5, <1>6, <1>8, <1>10, <1>11 DEF Sound, Recorded, Enforced, Payment
<1>13. QED
  BY <1>2, <1>5, <1>6, <1>7, <1>12

LEMMA ReceiveKeeps ==
  ASSUME PathInv, NEW w \in Caller, NEW door \in Door, NEW ref \in Payment, NEW rail \in Rail, NEW a \in Assess,
         IF door = "auth" THEN rail = "card" ELSE ref \in Ref,
         Receive(w, door, ref, rail, a)
  PROVE  PathInv'
<1> DEFINE scr == screen(Loaded, Match[ref])
           c == [pc |-> FirstWrite(door, ref, scr), door |-> door, ref |-> ref, a |-> a,
                 rail |-> rail, list |-> Loaded,
                 verdict |-> VerdictAt(door, ref, rail, a, scr), recorded |-> FALSE]
           id == <<door, ref>>
<1>1. /\ call[w] = Idle
      /\ list' = Loaded
      /\ call' = [call EXCEPT ![w] = c]
      /\ IF id \in DecisionId
         THEN /\ seen' = [seen EXCEPT ![id] = @ + 1]
              /\ verdicts' = IF c.pc = "answer" THEN verdicts
                             ELSE [verdicts EXCEPT ![id] = @ \cup {Row(c)}]
         ELSE UNCHANGED <<seen, verdicts>>
      /\ UNCHANGED <<listFile, decisions, whatifs, txn, alerts, cards, machine, answers, stops>>
  BY DEF Receive, store
<1>2. /\ c \in Serving /\ Sound(c)
      /\ c.pc \in {"txn", "decision", "whatif", "answer"}
      /\ c.pc = "decision" => door = "auth"
      /\ door = "dec" /\ c.pc # "answer" => Match[ref] = "clear"
  BY NewCallSound DEF PathInv
<1>3. /\ c.door = door /\ c.ref = ref /\ c.recorded = FALSE
      /\ id \in DecisionId <=> door \in Enforced /\ ref \in Ref
  BY DEF DecisionId
<1> HIDE DEF c
<1>4. /\ Row(c) \in Rows /\ Row(c) # NoRow
  BY <1>2, RowIsRow
<1>t. TypeInv
  BY DEF PathInv
<1>l. Loaded \in Loading
  BY <1>t DEF TypeInv, Loaded, Loading
<1>5. TypeInv'
  <2>1. seen' \in [DecisionId -> Nat]
    BY <1>1, <1>t DEF TypeInv
  <2>2. verdicts' \in [DecisionId -> SUBSET Rows]
    BY <1>1, <1>4, <1>t DEF TypeInv
  <2>3. call' \in [Caller -> {Idle} \cup Serving]
    BY <1>1, <1>2, <1>t DEF TypeInv
  <2>4. QED
    BY <1>1, <1>t, <1>l, <2>1, <2>2, <2>3 DEF TypeInv
<1>6. \A i \in DecisionId : verdicts[i] \subseteq verdicts'[i]
  BY <1>1, <1>t DEF TypeInv
<1>7. ASSUME NEW v \in Caller PROVE call'[v] = IF v = w THEN c ELSE call[v]
  BY <1>1, <1>t DEF TypeInv
<1>8. CallsSound'
  BY <1>2, <1>7 DEF PathInv, CallsSound
<1>9. CallsFiled'
  <2> SUFFICES ASSUME NEW v \in Caller, call'[v] # Idle
               PROVE  Filed(call'[v], verdicts', decisions', txn')
    BY DEF CallsFiled
  <2>1. CASE v = w
    <3>1. c.pc \in Recorded => id \in DecisionId /\ Row(c) \in verdicts'[id]
      <4> SUFFICES ASSUME c.pc \in Recorded
                   PROVE  id \in DecisionId /\ Row(c) \in verdicts'[id]
        OBVIOUS
      <4>1. c.pc \in {"txn", "decision"}
        BY <1>2 DEF Recorded
      <4>2. door \in Enforced /\ ref \in Ref
        BY <1>2, <1>3, <4>1 DEF Sound, Enforced, Recorded
      <4>3. QED
        BY <1>1, <1>3, <1>t, <4>1, <4>2 DEF TypeInv
    <3>2. call'[v] = c
      BY <1>7, <2>1
    <3>3. QED
      BY <1>2, <1>3, <3>1, <3>2 DEF Filed
  <2>2. CASE v # w
    <3>1. call'[v] = call[v] /\ call[v] # Idle
      BY <1>7, <2>2
    <3>2. call[v] \in Serving /\ Sound(call[v]) /\ Filed(call[v], verdicts, decisions, txn)
      BY <1>t, <3>1 DEF PathInv, CallsSound, CallsFiled, TypeInv
    <3>3. Filed(call[v], verdicts', decisions', txn')
      BY <1>1, <1>6, <3>2, FiledStays
    <3>4. QED
      BY <3>1, <3>3
  <2>3. QED
    BY <2>1, <2>2
<1>10. VerdictsSound'
  <2> SUFFICES ASSUME NEW i \in DecisionId
               PROVE  /\ seen'[i] = 0 => verdicts'[i] = {}
                      /\ seen'[i] = 1 => \A x, y \in verdicts'[i] : x = y
                      /\ \A x \in verdicts'[i] :
                            PolicyBinds(x) /\ (i[1] = "dec" => Match[i[2]] = "clear")
    BY DEF VerdictsSound
  <2>1. /\ seen[i] = 0 => verdicts[i] = {}
        /\ seen[i] = 1 => \A x, y \in verdicts[i] : x = y
        /\ \A x \in verdicts[i] : PolicyBinds(x) /\ (i[1] = "dec" => Match[i[2]] = "clear")
    BY DEF PathInv, VerdictsSound
  <2>2. CASE i # id
    BY <1>1, <1>t, <2>1, <2>2 DEF TypeInv
  <2>3. CASE i = id
    <3>1. seen'[i] = seen[i] + 1 /\ seen[i] \in Nat
      BY <1>1, <1>t, <2>3 DEF TypeInv
    <3>2. verdicts'[i] = IF c.pc = "answer" THEN verdicts[i] ELSE verdicts[i] \cup {Row(c)}
      BY <1>1, <1>t, <2>3 DEF TypeInv
    <3>3. i[1] = door /\ i[2] = ref /\ door \in Enforced
      BY <1>3, <2>3
    <3>4. c.pc # "answer" =>
            PolicyBinds(Row(c)) /\ (i[1] = "dec" => Match[i[2]] = "clear")
      BY <1>2, <1>3, <3>3 DEF Sound, Enforced
    <3>5. QED
      BY <2>1, <3>1, <3>2, <3>4
  <2>4. QED
    BY <2>2, <2>3
<1>11. EnforcedRowIsDecided'
  BY <1>1, <1>6 DEF PathInv, EnforcedRowIsDecided
<1>12. LabelsSound'
  <2>1. \A r \in Ref : <<"dec", r>> \in DecisionId
    BY DEF DecisionId, Enforced
  <2>2. QED
    BY <1>1, <1>6, <2>1 DEF PathInv, LabelsSound, FraudBand
<1>13. AlertsSound'
  <2>1. \A r \in alerts : <<"dec", r>> \in DecisionId
    BY <1>t DEF DecisionId, Enforced, TypeInv
  <2>2. QED
    BY <1>1, <1>6, <2>1 DEF PathInv, AlertsSound
<1>14. AnswersSound'
  BY <1>1, <1>6, ToldStays DEF PathInv, AnswersSound
<1>15. Once'
  <2> SUFFICES ASSUME stops' = 0, NEW r \in Ref
               PROVE
        /\ seen'[<<"dec", r>>] = 0 =>
              /\ \A v \in Caller : ~Scoring(v, r)'
              /\ txn'[r] = NoEvent /\ r \notin alerts' /\ decisions'[<<"dec", r>>] = NoRow
        /\ seen'[<<"dec", r>>] = 1 =>
              /\ \A u, v \in Caller : Scoring(u, r)' /\ Scoring(v, r)' => u = v
              /\ \A v \in Caller : Scoring(v, r)' =>
                    /\ call'[v].pc = "txn" => txn'[r] = NoEvent
                    /\ call'[v].pc = "alert" => txn'[r] = "alert"
                    /\ call'[v].pc \in {"txn", "alert"} =>
                          r \notin alerts' /\ decisions'[<<"dec", r>>] = NoRow
                    /\ call'[v].pc = "decision" => (txn'[r] = "alert" <=> r \in alerts')
              /\ decisions'[<<"dec", r>>] # NoRow => (txn'[r] = "alert" <=> r \in alerts')
    BY DEF Once
  <2>1. <<"dec", r>> \in DecisionId
    BY DEF DecisionId, Enforced
  <2>2. CASE id # <<"dec", r>>
    <3>1. ASSUME NEW v \in Caller PROVE Scoring(v, r)' <=> Scoring(v, r) /\ call'[v] = call[v]
      BY <1>1, <1>3, <1>7, <2>2 DEF Scoring
    <3>2. seen'[<<"dec", r>>] = seen[<<"dec", r>>]
      BY <1>1, <1>t, <2>1, <2>2 DEF TypeInv
    <3>3. QED
      BY <1>1, <3>1, <3>2 DEF PathInv, Once
  <2>3. CASE id = <<"dec", r>>
    <3>1. seen'[<<"dec", r>>] = seen[<<"dec", r>>] + 1 /\ seen[<<"dec", r>>] \in Nat
      BY <1>1, <1>t, <2>1, <2>3 DEF TypeInv
    <3>2. seen[<<"dec", r>>] = 0 =>
            /\ \A v \in Caller : ~Scoring(v, r)
            /\ txn[r] = NoEvent /\ r \notin alerts /\ decisions[<<"dec", r>>] = NoRow
      BY <1>1 DEF PathInv, Once
    <3>3. door = "dec"
      BY <2>3
    <3>4. c.pc \in {"txn", "whatif", "answer"}
      BY <1>2, <3>3
    <3>5. ASSUME NEW v \in Caller, v # w PROVE Scoring(v, r)' <=> Scoring(v, r)
      BY <1>7, <3>5 DEF Scoring
    <3>6. NoEvent # "alert"
      BY DEF NoEvent
    <3>7. CASE seen[<<"dec", r>>] = 0
      <4>1. \A v \in Caller : Scoring(v, r)' => v = w /\ call'[v] = c
        BY <1>7, <3>2, <3>5, <3>7
      <4>2. QED
        BY <1>1, <3>1, <3>2, <3>4, <3>6, <3>7, <4>1
    <3>8. CASE seen[<<"dec", r>>] # 0
      BY <3>1, <3>8
    <3>9. QED
      BY <3>7, <3>8
  <2>4. QED
    BY <2>2, <2>3
<1>16. QED
  BY <1>5, <1>8, <1>9, <1>10, <1>11, <1>12, <1>13, <1>14, <1>15 DEF PathInv

-----------------------------------------------------------------------------
(* One store call of one door.                                             *)

\* What every write has in common: one call moves on, rows and events stay.
LEMMA WriteMoves ==
  ASSUME PathInv, NEW w \in Caller, call[w] \in Serving, NEW d \in Serving, Sound(d),
         d.door = call[w].door, d.ref = call[w].ref,
         call' = [call EXCEPT ![w] = d],
         UNCHANGED <<listFile, list, verdicts, seen, answers>>, stops' \in Nat,
         decisions' \in [DecisionId -> {NoRow} \cup Rows],
         txn' \in [Ref -> {NoEvent, "alert", "quiet"}],
         machine' \in [Ref -> {NoLabel, "fraud", "legit"}],
         alerts' \subseteq Ref, whatifs' \in Nat,
         \A id \in DecisionId : decisions[id] # NoRow => decisions'[id] # NoRow,
         \A r \in Ref : txn[r] # NoEvent => txn'[r] # NoEvent,
         Filed(d, verdicts', decisions', txn')
  PROVE  /\ TypeInv' /\ CallsSound' /\ CallsFiled' /\ VerdictsSound' /\ AnswersSound'
         /\ \A v \in Caller : call'[v] = IF v = w THEN d ELSE call[v]
         /\ \A v \in Caller, r \in Ref : Scoring(v, r)' <=> Scoring(v, r)
<1>t. TypeInv
  BY DEF PathInv
<1>1. ASSUME NEW v \in Caller PROVE call'[v] = IF v = w THEN d ELSE call[v]
  BY <1>t DEF TypeInv
<1>2. TypeInv'
  BY <1>t DEF TypeInv
<1>3. CallsSound'
  BY <1>1 DEF PathInv, CallsSound
<1>4. CallsFiled'
  <2> SUFFICES ASSUME NEW v \in Caller, call'[v] # Idle
               PROVE  Filed(call'[v], verdicts', decisions', txn')
    BY DEF CallsFiled
  <2>1. CASE v = w
    BY <1>1, <2>1
  <2>2. CASE v # w
    <3>1. call'[v] = call[v] /\ call[v] # Idle
      BY <1>1, <2>2
    <3>2. call[v] \in Serving /\ Sound(call[v]) /\ Filed(call[v], verdicts, decisions, txn)
      BY <1>t, <3>1 DEF PathInv, CallsSound, CallsFiled, TypeInv
    <3>3. Filed(call[v], verdicts', decisions', txn')
      BY <3>2, FiledStays
    <3>4. QED
      BY <3>1, <3>3
  <2>3. QED
    BY <2>1, <2>2
<1>5. VerdictsSound'
  BY DEF PathInv, VerdictsSound
<1>6. AnswersSound'
  BY ToldStays DEF PathInv, AnswersSound
<1>7. \A v \in Caller, r \in Ref : Scoring(v, r)' <=> Scoring(v, r)
  BY <1>1, ServingIsNotIdle DEF Scoring
<1>8. QED
  BY <1>1, <1>2, <1>3, <1>4, <1>5, <1>6, <1>7

\* A call that is being served, and what it knows.
LEMMA Served ==
  ASSUME PathInv, NEW w \in Caller, call[w].pc # "idle"
  PROVE  /\ call[w] # Idle /\ call[w] \in Serving
         /\ Sound(call[w]) /\ Filed(call[w], verdicts, decisions, txn)
<1>1. call[w] # Idle
  BY DEF Idle
<1>2. QED
  BY <1>1 DEF PathInv, TypeInv, CallsSound, CallsFiled

\* A call on record has its payment's event id.
LEMMA ScoringRef ==
  ASSUME NEW c \in Serving, Sound(c), c.pc \in Recorded
  PROVE  /\ c.ref \in Ref /\ c.door \in Enforced
         /\ <<c.door, c.ref>> \in DecisionId
BY DEF Sound, Recorded, Enforced, DecisionId

Quiet == <<listFile, list, answers, verdicts, seen, calls, stops>>

\* What Once says is kept by a step that only lets calls end.
LEMMA OnceStays ==
  ASSUME Once, UNCHANGED <<txn, alerts, decisions, seen, stops>>,
         \A v \in Caller, r \in Ref :
            Scoring(v, r)' => /\ Scoring(v, r)
                              /\ call'[v].pc = call[v].pc \/ call'[v].pc = "answer"
  PROVE  Once'
<1> SUFFICES ASSUME stops = 0, NEW r \in Ref
             PROVE
      /\ seen[<<"dec", r>>] = 0 =>
            /\ \A v \in Caller : ~Scoring(v, r)'
            /\ txn[r] = NoEvent /\ r \notin alerts /\ decisions[<<"dec", r>>] = NoRow
      /\ seen[<<"dec", r>>] = 1 =>
            /\ \A u, v \in Caller : Scoring(u, r)' /\ Scoring(v, r)' => u = v
            /\ \A v \in Caller : Scoring(v, r)' =>
                  /\ call'[v].pc = "txn" => txn[r] = NoEvent
                  /\ call'[v].pc = "alert" => txn[r] = "alert"
                  /\ call'[v].pc \in {"txn", "alert"} =>
                        r \notin alerts /\ decisions[<<"dec", r>>] = NoRow
                  /\ call'[v].pc = "decision" => (txn[r] = "alert" <=> r \in alerts)
            /\ decisions[<<"dec", r>>] # NoRow => (txn[r] = "alert" <=> r \in alerts)
  BY DEF Once
<1>1. ASSUME NEW v \in Caller, Scoring(v, r)'
      PROVE  Scoring(v, r) /\ (call'[v].pc = call[v].pc \/ call'[v].pc = "answer")
  BY <1>1
<1>2. QED
  BY <1>1 DEF Once

LEMMA AppendTransactionKeeps ==
  ASSUME PathInv, NEW w \in Caller, AppendTransaction(w), UNCHANGED Quiet
  PROVE  PathInv'
<1> DEFINE c == call[w]
           alert == EventAlert(c)
           p == IF alert THEN "alert" ELSE "decision"
           d == [c EXCEPT !.pc = p]
<1>1. /\ c.pc = "txn"
      /\ txn' = [txn EXCEPT ![c.ref] = IF alert THEN "alert" ELSE "quiet"]
      /\ call' = [call EXCEPT ![w] = d]
      /\ UNCHANGED <<decisions, whatifs, alerts, cards, machine, listFile, list, answers,
                     verdicts, seen, stops>>
  <2>1. call' = [call EXCEPT ![w].pc = p]
    BY Zenon DEF AppendTransaction, Goto
  <2>2. QED
    BY <2>1 DEF AppendTransaction, Quiet
<1>t. TypeInv
  BY DEF PathInv
<1>2. c # Idle /\ c \in Serving /\ Sound(c) /\ Filed(c, verdicts, decisions, txn)
  BY <1>1, Served
<1>3. c.ref \in Ref /\ c.door = "dec" /\ <<c.door, c.ref>> \in DecisionId
  BY <1>1, <1>2, ScoringRef DEF Sound, Recorded
<1>4. alert => ~c.verdict.released
  BY DEF EventAlert
<1>5. p \in {"alert", "decision"} /\ p \in Stage
  BY DEF Stage, Recorded
<1>6. /\ d \in Serving /\ d.pc = p
      /\ d.door = c.door /\ d.ref = c.ref /\ d.a = c.a /\ d.rail = c.rail
      /\ d.list = c.list /\ d.verdict = c.verdict /\ d.recorded = c.recorded
  BY <1>2, <1>5, Moved
<1>7. p = "alert" <=> alert
  OBVIOUS
<1> HIDE DEF c, d, p, alert
<1>8. Sound(d)
  BY <1>1, <1>2, <1>3, <1>5, <1>6 DEF Sound, Prohibited, Row, Recorded, Enforced
<1>9. txn' \in [Ref -> {NoEvent, "alert", "quiet"}] /\ txn'[c.ref] = (IF alert THEN "alert" ELSE "quiet")
  BY <1>1, <1>3, <1>t DEF TypeInv
<1>10. Filed(d, verdicts', decisions', txn')
  BY <1>1, <1>2, <1>4, <1>5, <1>6, <1>7, <1>9 DEF Filed, Row, Recorded, NoEvent
<1>11. \A r \in Ref : txn[r] # NoEvent => txn'[r] # NoEvent
  BY <1>1, <1>t DEF TypeInv, NoEvent
<1>12. /\ TypeInv' /\ CallsSound' /\ CallsFiled' /\ VerdictsSound' /\ AnswersSound'
       /\ \A v \in Caller : call'[v] = IF v = w THEN d ELSE call[v]
       /\ \A v \in Caller, r \in Ref : Scoring(v, r)' <=> Scoring(v, r)
  BY <1>1, <1>2, <1>6, <1>8, <1>9, <1>10, <1>11, <1>t, WriteMoves DEF TypeInv, c
<1>13. EnforcedRowIsDecided' /\ LabelsSound'
  BY <1>1 DEF PathInv, EnforcedRowIsDecided, LabelsSound
<1>14. AlertsSound'
  BY <1>1, <1>11, <1>t DEF PathInv, AlertsSound, TypeInv
<1>15. Once'
  <2> SUFFICES ASSUME stops = 0, NEW r \in Ref
               PROVE
        /\ seen[<<"dec", r>>] = 0 =>
              /\ \A v \in Caller : ~Scoring(v, r)
              /\ txn'[r] = NoEvent /\ r \notin alerts /\ decisions[<<"dec", r>>] = NoRow
        /\ seen[<<"dec", r>>] = 1 =>
              /\ \A u, v \in Caller : Scoring(u, r) /\ Scoring(v, r) => u = v
              /\ \A v \in Caller : Scoring(v, r) =>
                    /\ call'[v].pc = "txn" => txn'[r] = NoEvent
                    /\ call'[v].pc = "alert" => txn'[r] = "alert"
                    /\ call'[v].pc \in {"txn", "alert"} =>
                          r \notin alerts /\ decisions[<<"dec", r>>] = NoRow
                    /\ call'[v].pc = "decision" => (txn'[r] = "alert" <=> r \in alerts)
              /\ decisions[<<"dec", r>>] # NoRow => (txn'[r] = "alert" <=> r \in alerts)
    BY <1>1, <1>12 DEF Once
  <2>1. CASE r # c.ref
    <3>1. txn'[r] = txn[r]
      BY <1>1, <1>t, <2>1 DEF TypeInv
    <3>2. ~Scoring(w, r)
      BY <2>1 DEF Scoring, c
    <3>3. QED
      BY <1>12, <3>1, <3>2 DEF PathInv, Once
  <2>2. CASE r = c.ref
    <3>1. Scoring(w, r)
      BY <1>2, <1>3, <2>2 DEF Scoring, c
    <3>2. seen[<<"dec", r>>] # 0
      BY <3>1 DEF PathInv, Once
    <3>3. seen[<<"dec", r>>] = 1 =>
            /\ \A u, v \in Caller : Scoring(u, r) /\ Scoring(v, r) => u = v
            /\ r \notin alerts /\ decisions[<<"dec", r>>] = NoRow
      BY <1>1, <3>1 DEF PathInv, Once, c
    <3>4. call'[w].pc = p
      BY <1>6, <1>12
    <3>5. QED
      BY <1>5, <1>7, <1>9, <2>2, <3>1, <3>2, <3>3, <3>4
  <2>3. QED
    BY <2>1, <2>2
<1>16. QED
  BY <1>12, <1>13, <1>14, <1>15 DEF PathInv

LEMMA AppendAlertKeeps ==
  ASSUME PathInv, NEW w \in Caller, AppendAlert(w), UNCHANGED Quiet
  PROVE  PathInv'
<1> DEFINE c == call[w]
           d == [c EXCEPT !.pc = "decision"]
<1>1. /\ c.pc = "alert"
      /\ alerts' = alerts \cup {c.ref}
      /\ call' = [call EXCEPT ![w] = d]
      /\ UNCHANGED <<decisions, whatifs, txn, cards, machine, listFile, list, answers,
                     verdicts, seen, stops>>
  <2>1. call' = [call EXCEPT ![w].pc = "decision"]
    BY Zenon DEF AppendAlert, Goto
  <2>2. QED
    BY <2>1 DEF AppendAlert, Quiet
<1>t. TypeInv
  BY DEF PathInv
<1>2. c # Idle /\ c \in Serving /\ Sound(c) /\ Filed(c, verdicts, decisions, txn)
  BY <1>1, Served
<1>3. c.ref \in Ref /\ c.door = "dec" /\ <<c.door, c.ref>> \in DecisionId
  BY <1>1, <1>2, ScoringRef DEF Sound, Recorded
<1>4. Row(c) \in verdicts[<<"dec", c.ref>>] /\ ~Row(c).released /\ txn[c.ref] # NoEvent
  BY <1>1, <1>2, <1>3 DEF Filed, Recorded, Row
<1>5. "decision" \in Stage
  BY DEF Stage, Recorded
<1>6. /\ d \in Serving /\ d.pc = "decision"
      /\ d.door = c.door /\ d.ref = c.ref /\ d.a = c.a /\ d.rail = c.rail
      /\ d.list = c.list /\ d.verdict = c.verdict /\ d.recorded = c.recorded
  BY <1>2, <1>5, Moved
<1> HIDE DEF c, d
<1>8. Sound(d)
  BY <1>1, <1>2, <1>3, <1>6 DEF Sound, Prohibited, Row, Recorded, Enforced
<1>10. Filed(d, verdicts', decisions', txn')
  BY <1>1, <1>2, <1>6 DEF Filed, Row, Recorded
<1>11. alerts' \subseteq Ref
  BY <1>1, <1>3, <1>t DEF TypeInv
<1>12. /\ TypeInv' /\ CallsSound' /\ CallsFiled' /\ VerdictsSound' /\ AnswersSound'
       /\ \A v \in Caller : call'[v] = IF v = w THEN d ELSE call[v]
       /\ \A v \in Caller, r \in Ref : Scoring(v, r)' <=> Scoring(v, r)
  BY <1>1, <1>2, <1>6, <1>8, <1>10, <1>11, <1>t, WriteMoves DEF TypeInv, c
<1>13. EnforcedRowIsDecided' /\ LabelsSound'
  BY <1>1 DEF PathInv, EnforcedRowIsDecided, LabelsSound
<1>14. AlertsSound'
  BY <1>1, <1>4 DEF PathInv, AlertsSound
<1>15. Once'
  <2> SUFFICES ASSUME stops = 0, NEW r \in Ref
               PROVE
        /\ seen[<<"dec", r>>] = 0 =>
              /\ \A v \in Caller : ~Scoring(v, r)
              /\ txn[r] = NoEvent /\ r \notin alerts' /\ decisions[<<"dec", r>>] = NoRow
        /\ seen[<<"dec", r>>] = 1 =>
              /\ \A u, v \in Caller : Scoring(u, r) /\ Scoring(v, r) => u = v
              /\ \A v \in Caller : Scoring(v, r) =>
                    /\ call'[v].pc = "txn" => txn[r] = NoEvent
                    /\ call'[v].pc = "alert" => txn[r] = "alert"
                    /\ call'[v].pc \in {"txn", "alert"} =>
                          r \notin alerts' /\ decisions[<<"dec", r>>] = NoRow
                    /\ call'[v].pc = "decision" => (txn[r] = "alert" <=> r \in alerts')
              /\ decisions[<<"dec", r>>] # NoRow => (txn[r] = "alert" <=> r \in alerts')
    BY <1>1, <1>12 DEF Once
  <2>1. CASE r # c.ref
    <3>1. r \in alerts' <=> r \in alerts
      BY <1>1, <2>1
    <3>2. ~Scoring(w, r)
      BY <2>1 DEF Scoring, c
    <3>3. QED
      BY <1>12, <3>1, <3>2 DEF PathInv, Once
  <2>2. CASE r = c.ref
    <3>1. Scoring(w, r)
      BY <1>2, <1>3, <2>2 DEF Scoring, c
    <3>2. seen[<<"dec", r>>] # 0
      BY <3>1 DEF PathInv, Once
    <3>3. seen[<<"dec", r>>] = 1 =>
            /\ \A u, v \in Caller : Scoring(u, r) /\ Scoring(v, r) => u = v
            /\ txn[r] = "alert"
      BY <1>1, <3>1 DEF PathInv, Once, c
    <3>4. call'[w].pc = "decision" /\ r \in alerts'
      BY <1>1, <1>6, <1>12, <2>2
    <3>5. QED
      BY <3>1, <3>2, <3>3, <3>4
  <2>3. QED
    BY <2>1, <2>2
<1>16. QED
  BY <1>12, <1>13, <1>14, <1>15 DEF PathInv

LEMMA LogDecisionKeeps ==
  ASSUME PathInv, NEW w \in Caller, LogDecision(w), UNCHANGED Quiet
  PROVE  PathInv'
<1> DEFINE c == call[w]
           p == IF c.door = "auth" THEN "card" ELSE "label"
           d == [c EXCEPT !.pc = p, !.recorded = TRUE]
           id == <<c.door, c.ref>>
<1>1. /\ c.pc = "decision"
      /\ decisions' = [decisions EXCEPT ![id] = Row(c)]
      /\ call' = [call EXCEPT ![w] = d]
      /\ UNCHANGED <<whatifs, txn, alerts, cards, machine, listFile, list, answers,
                     verdicts, seen, stops>>
  <2>1. call' = [call EXCEPT ![w].pc = p, ![w].recorded = TRUE]
    BY Zenon DEF LogDecision
  <2>2. QED
    BY <2>1, PathInv DEF LogDecision, Quiet, PathInv, TypeInv
<1>t. TypeInv
  BY DEF PathInv
<1>2. c # Idle /\ c \in Serving /\ Sound(c) /\ Filed(c, verdicts, decisions, txn)
  BY <1>1, Served
<1>3. c.ref \in Ref /\ c.door \in Enforced /\ id \in DecisionId
  BY <1>1, <1>2, ScoringRef DEF Recorded
<1>4. Row(c) \in verdicts[id] /\ Row(c) \in Rows /\ Row(c) # NoRow
  BY <1>1, <1>2, RowIsRow DEF Filed, Recorded
<1>5. p \in {"card", "label"} /\ p \in Stage /\ (p = "card" <=> c.door = "auth")
  BY DEF Stage, Recorded
<1>6. /\ d \in Serving /\ d.pc = p
      /\ d.door = c.door /\ d.ref = c.ref /\ d.a = c.a /\ d.rail = c.rail
      /\ d.list = c.list /\ d.verdict = c.verdict /\ d.recorded
  BY <1>2, <1>5, MovedRecorded
<1> HIDE DEF c, d, p
<1>8. Sound(d)
  BY <1>1, <1>2, <1>3, <1>5, <1>6 DEF Sound, Prohibited, Row, Recorded, Enforced
<1>9. /\ decisions' \in [DecisionId -> {NoRow} \cup Rows]
      /\ decisions'[id] = Row(c)
      /\ \A i \in DecisionId : i # id => decisions'[i] = decisions[i]
  BY <1>1, <1>3, <1>4, <1>t DEF TypeInv
<1>10. Filed(d, verdicts', decisions', txn')
  BY <1>1, <1>4, <1>5, <1>6, <1>9 DEF Filed, Row, Recorded
<1>11. \A i \in DecisionId : decisions[i] # NoRow => decisions'[i] # NoRow
  BY <1>4, <1>9
<1>12. /\ TypeInv' /\ CallsSound' /\ CallsFiled' /\ VerdictsSound' /\ AnswersSound'
       /\ \A v \in Caller : call'[v] = IF v = w THEN d ELSE call[v]
       /\ \A v \in Caller, r \in Ref : Scoring(v, r)' <=> Scoring(v, r)
  BY <1>1, <1>2, <1>6, <1>8, <1>9, <1>10, <1>11, <1>t, WriteMoves DEF TypeInv, c
<1>13. EnforcedRowIsDecided'
  BY <1>1, <1>4, <1>9 DEF PathInv, EnforcedRowIsDecided
<1>14. LabelsSound'
  <2>1. \A r \in Ref : <<"dec", r>> \in DecisionId
    BY DEF DecisionId, Enforced
  <2>2. QED
    BY <1>1, <1>11, <2>1 DEF PathInv, LabelsSound
<1>15. AlertsSound'
  BY <1>1 DEF PathInv, AlertsSound
<1>16. Once'
  <2> SUFFICES ASSUME stops = 0, NEW r \in Ref
               PROVE
        /\ seen[<<"dec", r>>] = 0 =>
              /\ \A v \in Caller : ~Scoring(v, r)
              /\ txn[r] = NoEvent /\ r \notin alerts /\ decisions'[<<"dec", r>>] = NoRow
        /\ seen[<<"dec", r>>] = 1 =>
              /\ \A u, v \in Caller : Scoring(u, r) /\ Scoring(v, r) => u = v
              /\ \A v \in Caller : Scoring(v, r) =>
                    /\ call'[v].pc = "txn" => txn[r] = NoEvent
                    /\ call'[v].pc = "alert" => txn[r] = "alert"
                    /\ call'[v].pc \in {"txn", "alert"} =>
                          r \notin alerts /\ decisions'[<<"dec", r>>] = NoRow
                    /\ call'[v].pc = "decision" => (txn[r] = "alert" <=> r \in alerts)
              /\ decisions'[<<"dec", r>>] # NoRow => (txn[r] = "alert" <=> r \in alerts)
    BY <1>1, <1>12 DEF Once
  <2>1. CASE <<"dec", r>> # id
    <3>0. <<"dec", r>> \in DecisionId
      BY DEF DecisionId, Enforced
    <3>1. decisions'[<<"dec", r>>] = decisions[<<"dec", r>>]
      BY <1>9, <2>1, <3>0
    <3>2. ~Scoring(w, r)
      BY <2>1 DEF Scoring, c
    <3>3. QED
      BY <1>12, <3>1, <3>2 DEF PathInv, Once
  <2>2. CASE <<"dec", r>> = id
    <3>1. c.door = "dec" /\ c.ref = r
      BY <2>2
    <3>2. Scoring(w, r)
      BY <1>2, <3>1 DEF Scoring, c
    <3>3. seen[<<"dec", r>>] # 0
      BY <3>2 DEF PathInv, Once
    <3>4. seen[<<"dec", r>>] = 1 =>
            /\ \A u, v \in Caller : Scoring(u, r) /\ Scoring(v, r) => u = v
            /\ txn[r] = "alert" <=> r \in alerts
      BY <1>1, <3>2 DEF PathInv, Once, c
    <3>5. call'[w].pc = "label"
      BY <1>5, <1>6, <1>12, <3>1
    <3>6. QED
      BY <3>2, <3>3, <3>4, <3>5
  <2>3. QED
    BY <2>1, <2>2
<1>17. QED
  BY <1>12, <1>13, <1>14, <1>15, <1>16 DEF PathInv

LEMMA AddModelCallKeeps ==
  ASSUME PathInv, NEW w \in Caller, AddModelCall(w), UNCHANGED Quiet
  PROVE  PathInv'
<1> DEFINE c == call[w]
           d == [c EXCEPT !.pc = "answer"]
<1>1. /\ c.pc = "label"
      /\ machine' = [machine EXCEPT ![c.ref] = IF ModelCall(c.a) THEN "fraud" ELSE "legit"]
      /\ call' = [call EXCEPT ![w] = d]
      /\ UNCHANGED <<decisions, whatifs, txn, alerts, cards, listFile, list, answers,
                     verdicts, seen, stops>>
  <2>1. call' = [call EXCEPT ![w].pc = "answer"]
    BY Zenon DEF AddModelCall, Goto
  <2>2. QED
    BY <2>1 DEF AddModelCall, Quiet
<1>t. TypeInv
  BY DEF PathInv
<1>2. c # Idle /\ c \in Serving /\ Sound(c) /\ Filed(c, verdicts, decisions, txn)
  BY <1>1, Served
<1>3. c.ref \in Ref /\ c.door = "dec"
  BY <1>1, <1>2, ScoringRef DEF Sound, Recorded
<1>4. /\ Row(c) \in verdicts[<<"dec", c.ref>>] /\ decisions[<<"dec", c.ref>>] # NoRow
      /\ Row(c).band = c.a.band
  BY <1>1, <1>2, <1>3 DEF Filed, Recorded, Row
<1>5. "answer" \in Stage
  BY DEF Stage
<1>6. /\ d \in Serving /\ d.pc = "answer"
      /\ d.door = c.door /\ d.ref = c.ref /\ d.a = c.a /\ d.rail = c.rail
      /\ d.list = c.list /\ d.verdict = c.verdict /\ d.recorded = c.recorded
  BY <1>2, <1>5, Moved
<1> HIDE DEF c, d
<1>8. Sound(d)
  BY <1>1, <1>2, <1>3, <1>6 DEF Sound, Prohibited, Row, Recorded, Enforced
<1>9. machine' \in [Ref -> {NoLabel, "fraud", "legit"}]
  BY <1>1, <1>3, <1>t DEF TypeInv
<1>10. Filed(d, verdicts', decisions', txn')
  BY <1>1, <1>2, <1>6 DEF Filed, Row, Recorded
<1>12. /\ TypeInv' /\ CallsSound' /\ CallsFiled' /\ VerdictsSound' /\ AnswersSound'
       /\ \A v \in Caller : call'[v] = IF v = w THEN d ELSE call[v]
       /\ \A v \in Caller, r \in Ref : Scoring(v, r)' <=> Scoring(v, r)
  BY <1>1, <1>2, <1>6, <1>8, <1>9, <1>10, <1>t, WriteMoves DEF TypeInv, c
<1>13. EnforcedRowIsDecided' /\ AlertsSound'
  BY <1>1 DEF PathInv, EnforcedRowIsDecided, AlertsSound
<1>14. LabelsSound'
  <2>1. machine'[c.ref] = "fraud" <=> FraudBand(Row(c))
    BY <1>1, <1>3, <1>4, <1>t DEF ModelCall, FraudBand, TypeInv
  <2>2. \A r \in Ref : r # c.ref => machine'[r] = machine[r]
    BY <1>1, <1>3, <1>t DEF TypeInv
  <2>3. QED
    BY <1>1, <1>4, <2>1, <2>2 DEF PathInv, LabelsSound
<1>15. Once'
  <2>1. call'[w].pc = "answer" /\ \A v \in Caller : v # w => call'[v] = call[v]
    BY <1>6, <1>12
  <2>2. QED
    BY <1>1, <1>12, <2>1, OnceStays DEF PathInv
<1>16. QED
  BY <1>12, <1>13, <1>14, <1>15 DEF PathInv

LEMMA LogWhatIfKeeps ==
  ASSUME PathInv, NEW w \in Caller, LogWhatIf(w), UNCHANGED Quiet
  PROVE  PathInv'
<1> DEFINE c == call[w]
           d == [c EXCEPT !.pc = "answer"]
<1>1. /\ c.pc = "whatif"
      /\ call' = [call EXCEPT ![w] = d]
      /\ UNCHANGED <<decisions, txn, alerts, machine, listFile, list, answers,
                     verdicts, seen, stops>>
      /\ whatifs' \in Nat
  <2>1. call' = [call EXCEPT ![w].pc = "answer"]
    BY Zenon DEF LogWhatIf, Goto
  <2>2. QED
    BY <2>1, PathInv DEF LogWhatIf, Quiet, PathInv, TypeInv
<1>t. TypeInv
  BY DEF PathInv
<1>2. c # Idle /\ c \in Serving /\ Sound(c) /\ Filed(c, verdicts, decisions, txn)
  BY <1>1, Served
<1>5. "answer" \in Stage
  BY DEF Stage
<1>6. /\ d \in Serving /\ d.pc = "answer"
      /\ d.door = c.door /\ d.ref = c.ref /\ d.a = c.a /\ d.rail = c.rail
      /\ d.list = c.list /\ d.verdict = c.verdict /\ d.recorded = c.recorded
  BY <1>2, <1>5, Moved
<1> HIDE DEF c, d
<1>8. Sound(d)
  BY <1>1, <1>2, <1>6 DEF Sound, Prohibited, Row, Recorded, Enforced
<1>10. Filed(d, verdicts', decisions', txn')
  BY <1>1, <1>2, <1>6 DEF Filed, Row, Recorded
<1>12. /\ TypeInv' /\ CallsSound' /\ CallsFiled' /\ VerdictsSound' /\ AnswersSound'
       /\ \A v \in Caller : call'[v] = IF v = w THEN d ELSE call[v]
       /\ \A v \in Caller, r \in Ref : Scoring(v, r)' <=> Scoring(v, r)
  BY <1>1, <1>2, <1>6, <1>8, <1>10, <1>t, WriteMoves DEF TypeInv, c
<1>13. EnforcedRowIsDecided' /\ AlertsSound' /\ LabelsSound'
  BY <1>1 DEF PathInv, EnforcedRowIsDecided, AlertsSound, LabelsSound
<1>15. Once'
  <2>1. call'[w].pc = "answer" /\ \A v \in Caller : v # w => call'[v] = call[v]
    BY <1>6, <1>12
  <2>2. QED
    BY <1>1, <1>12, <2>1, OnceStays DEF PathInv
<1>16. QED
  BY <1>12, <1>13, <1>15 DEF PathInv

LEMMA AppendCardEventKeeps ==
  ASSUME PathInv, NEW w \in Caller, AppendCardEvent(w), UNCHANGED Quiet
  PROVE  PathInv'
<1> DEFINE c == call[w]
           d == [c EXCEPT !.pc = "answer"]
<1>1. /\ c.pc = "card"
      /\ call' = [call EXCEPT ![w] = d]
      /\ UNCHANGED <<decisions, txn, alerts, machine, listFile, list, answers,
                     verdicts, seen, stops>>
      /\ whatifs' = whatifs
  <2>1. call' = [call EXCEPT ![w].pc = "answer"]
    BY Zenon DEF AppendCardEvent, Goto
  <2>2. QED
    BY <2>1, PathInv DEF AppendCardEvent, Quiet, PathInv, TypeInv
<1>t. TypeInv
  BY DEF PathInv
<1>2. c # Idle /\ c \in Serving /\ Sound(c) /\ Filed(c, verdicts, decisions, txn)
  BY <1>1, Served
<1>5. "answer" \in Stage
  BY DEF Stage
<1>6. /\ d \in Serving /\ d.pc = "answer"
      /\ d.door = c.door /\ d.ref = c.ref /\ d.a = c.a /\ d.rail = c.rail
      /\ d.list = c.list /\ d.verdict = c.verdict /\ d.recorded = c.recorded
  BY <1>2, <1>5, Moved
<1> HIDE DEF c, d
<1>8. Sound(d)
  BY <1>1, <1>2, <1>6 DEF Sound, Prohibited, Row, Recorded, Enforced
<1>10. Filed(d, verdicts', decisions', txn')
  BY <1>1, <1>2, <1>6 DEF Filed, Row, Recorded
<1>12. /\ TypeInv' /\ CallsSound' /\ CallsFiled' /\ VerdictsSound' /\ AnswersSound'
       /\ \A v \in Caller : call'[v] = IF v = w THEN d ELSE call[v]
       /\ \A v \in Caller, r \in Ref : Scoring(v, r)' <=> Scoring(v, r)
  BY <1>1, <1>2, <1>6, <1>8, <1>10, <1>t, WriteMoves DEF TypeInv, c
<1>13. EnforcedRowIsDecided' /\ AlertsSound' /\ LabelsSound'
  BY <1>1 DEF PathInv, EnforcedRowIsDecided, AlertsSound, LabelsSound
<1>15. Once'
  <2>1. call'[w].pc = "answer" /\ \A v \in Caller : v # w => call'[v] = call[v]
    BY <1>6, <1>12
  <2>2. QED
    BY <1>1, <1>12, <2>1, OnceStays DEF PathInv
<1>16. QED
  BY <1>12, <1>13, <1>15 DEF PathInv

\* Wherever a write raises, the door goes on to a later stage; past a decision
\* that was not recorded there is no label.
LEMMA StoreRaisesKeeps ==
  ASSUME PathInv, NEW w \in Caller, StoreRaises(w)
  PROVE  PathInv'
<1> DEFINE c == call[w]
           d == AfterFailure(c)
<1>1. /\ c.pc \notin {"idle", "answer"}
      /\ stops' = stops + 1
      /\ call' = [call EXCEPT ![w] = d]
      /\ UNCHANGED <<listFile, list, decisions, whatifs, txn, alerts, cards, machine,
                     answers, verdicts, seen>>
  BY DEF StoreRaises, store
<1>t. TypeInv
  BY DEF PathInv
<1>2. c # Idle /\ c \in Serving /\ Sound(c) /\ Filed(c, verdicts, decisions, txn)
  BY <1>1, Served
<1>3. PICK p \in {"decision", "card", "answer"} :
        /\ d = [c EXCEPT !.pc = p]
        /\ p = "decision" => c.pc \in {"txn", "alert"}
        /\ p = "card" => c.pc = "decision" /\ c.door = "auth"
  <2>1. c.pc \in Stage
    BY <1>2 DEF Serving
  <2>2. CASE c.pc \in {"txn", "alert"}
    BY <2>2 DEF AfterFailure
  <2>3. CASE c.pc = "decision"
    BY <2>3 DEF AfterFailure
  <2>4. CASE c.pc \in {"label", "whatif", "card"}
    BY <2>4 DEF AfterFailure
  <2>5. QED
    BY <1>1, <2>1, <2>2, <2>3, <2>4 DEF Stage, Recorded
<1>4. p \in Stage
  BY DEF Stage, Recorded
<1>6. /\ d \in Serving /\ d.pc = p
      /\ d.door = c.door /\ d.ref = c.ref /\ d.a = c.a /\ d.rail = c.rail
      /\ d.list = c.list /\ d.verdict = c.verdict /\ d.recorded = c.recorded
  BY <1>2, <1>3, <1>4, Moved
<1> HIDE DEF c, d
<1>7. c.pc \in {"txn", "alert", "decision"} => ~c.recorded
  BY <1>2 DEF Sound
<1>8. Sound(d)
  BY <1>1, <1>2, <1>3, <1>6, <1>7 DEF Sound, Prohibited, Row, Recorded, Enforced
<1>10. Filed(d, verdicts', decisions', txn')
  BY <1>1, <1>2, <1>3, <1>6, <1>7 DEF Filed, Row, Recorded
<1>11. stops' \in Nat /\ stops' # 0
  BY <1>1, <1>t DEF TypeInv
<1>12. /\ TypeInv' /\ CallsSound' /\ CallsFiled' /\ VerdictsSound' /\ AnswersSound'
  BY <1>1, <1>2, <1>6, <1>8, <1>10, <1>11, <1>t, WriteMoves DEF TypeInv, c
<1>13. EnforcedRowIsDecided' /\ AlertsSound' /\ LabelsSound'
  BY <1>1 DEF PathInv, EnforcedRowIsDecided, AlertsSound, LabelsSound
<1>14. Once'
  BY <1>11 DEF Once
<1>15. QED
  BY <1>12, <1>13, <1>14 DEF PathInv

-----------------------------------------------------------------------------
(* The answer, and what else happens.                                      *)

LEMMA AnswerKeeps ==
  ASSUME PathInv, NEW w \in Caller, Answer(w)
  PROVE  PathInv'
<1> DEFINE c == call[w]
           x == [door |-> c.door, ref |-> c.ref, list |-> c.list,
                 action |-> c.verdict.enforced, code |-> c.verdict.code,
                 released |-> c.verdict.released, recorded |-> c.recorded,
                 rail |-> c.rail, band |-> c.a.band]
<1>1. /\ c.pc = "answer"
      /\ answers' = answers \cup {x}
      /\ call' = [call EXCEPT ![w] = Idle]
      /\ UNCHANGED <<listFile, list, decisions, whatifs, txn, alerts, cards, machine,
                     verdicts, seen, stops>>
  BY DEF Answer, store
<1>t. TypeInv
  BY DEF PathInv
<1>2. c # Idle /\ c \in Serving /\ Sound(c) /\ Filed(c, verdicts, decisions, txn)
  BY <1>1, Served
<1>3. ASSUME NEW v \in Caller PROVE call'[v] = IF v = w THEN Idle ELSE call[v]
  BY <1>1, <1>t DEF TypeInv
<1>4. TypeInv'
  BY <1>1, <1>t DEF TypeInv
<1>5. CallsSound' /\ CallsFiled'
  BY <1>1, <1>3 DEF PathInv, CallsSound, CallsFiled
<1>6. Told(x, verdicts, decisions)
  <2>1. Prohibited(x) <=> Prohibited(c)
    BY DEF Prohibited
  <2>2. PolicyBinds(x) <=> PolicyBinds(Row(c))
    BY DEF PolicyBinds, Row
  <2>3. x.list = "available" /\ Match[x.ref] = "clear" => ~Prohibited(x)
    BY DEF Prohibited
  <2>4. x.door = c.door /\ x.code = c.verdict.code /\ x.action = c.verdict.enforced
    OBVIOUS
  <2>5. x.door = "auth" /\ x.recorded =>
          /\ x.ref \in Ref
          /\ decisions[<<"auth", x.ref>>] # NoRow
          /\ Row(c) \in verdicts[<<"auth", x.ref>>]
          /\ Row(c).action = x.action /\ Row(c).released = x.released
    BY <1>2 DEF Sound, Filed, Row
  <2> HIDE DEF x, c
  <2>6. Prohibited(c) => IF c.door = "auth" THEN c.verdict.code # "00"
                         ELSE c.verdict.enforced = "BLOCK"
    BY <1>2 DEF Sound
  <2>7. ~Prohibited(c) => PolicyBinds(Row(c))
    BY <1>2 DEF Sound
  <2>8. QED
    BY <2>1, <2>2, <2>3, <2>4, <2>5, <2>6, <2>7 DEF Told
<1>7. AnswersSound'
  <2> HIDE DEF x
  <2>1. QED
    BY <1>1, <1>6 DEF PathInv, AnswersSound
<1>8. VerdictsSound' /\ EnforcedRowIsDecided' /\ LabelsSound' /\ AlertsSound'
  BY <1>1 DEF PathInv, VerdictsSound, EnforcedRowIsDecided, LabelsSound, AlertsSound
<1>9. Once'
  <2>1. \A v \in Caller, r \in Ref : Scoring(v, r)' => Scoring(v, r) /\ call'[v] = call[v]
    BY <1>3 DEF Scoring
  <2>2. QED
    BY <1>1, <2>1, OnceStays DEF PathInv
<1>10. QED
  BY <1>4, <1>5, <1>7, <1>8, <1>9 DEF PathInv

LEMMA SwapListKeeps == ASSUME PathInv, SwapList PROVE PathInv'
<1>1. /\ listFile' \in Loading
      /\ UNCHANGED <<list, decisions, whatifs, txn, alerts, cards, machine, call,
                     answers, verdicts, seen, stops>>
  BY DEF SwapList, store, Loading
<1>2. TypeInv'
  BY <1>1 DEF PathInv, TypeInv
<1>3. CallsSound' /\ CallsFiled' /\ VerdictsSound' /\ EnforcedRowIsDecided'
  BY <1>1 DEF PathInv, CallsSound, CallsFiled, VerdictsSound, EnforcedRowIsDecided
<1>4. LabelsSound' /\ AlertsSound' /\ AnswersSound'
  BY <1>1 DEF PathInv, LabelsSound, AlertsSound, AnswersSound
<1>5. Once'
  <2>1. \A v \in Caller, r \in Ref : Scoring(v, r)' => Scoring(v, r) /\ call'[v].pc = call[v].pc
    BY <1>1 DEF Scoring
  <2>2. QED
    BY <1>1, <2>1, OnceStays DEF PathInv
<1>6. QED
  BY <1>2, <1>3, <1>4, <1>5 DEF PathInv

LEMMA RestartKeeps == ASSUME PathInv, Restart PROVE PathInv'
<1>1. /\ list' = "unread" /\ stops' = stops + 1
      /\ call' = [w \in Caller |-> Idle]
      /\ UNCHANGED <<listFile, decisions, whatifs, txn, alerts, cards, machine,
                     answers, verdicts, seen>>
  BY DEF Restart, store
<1>2. TypeInv' /\ stops' # 0
  BY <1>1 DEF PathInv, TypeInv
<1>3. CallsSound' /\ CallsFiled'
  BY <1>1 DEF CallsSound, CallsFiled
<1>4. VerdictsSound' /\ EnforcedRowIsDecided' /\ LabelsSound' /\ AlertsSound' /\ AnswersSound'
  BY <1>1 DEF PathInv, VerdictsSound, EnforcedRowIsDecided, LabelsSound, AlertsSound, AnswersSound
<1>5. Once'
  BY <1>2 DEF Once
<1>6. QED
  BY <1>2, <1>3, <1>4, <1>5 DEF PathInv

LEMMA StutterKeeps == ASSUME PathInv, UNCHANGED vars PROVE PathInv'
<1>1. UNCHANGED <<listFile, list, decisions, whatifs, txn, alerts, cards, machine, call,
                  answers, verdicts, seen, stops>>
  BY DEF vars, store
<1>2. TypeInv'
  BY <1>1 DEF PathInv, TypeInv
<1>3. CallsSound' /\ CallsFiled' /\ VerdictsSound' /\ EnforcedRowIsDecided'
  BY <1>1 DEF PathInv, CallsSound, CallsFiled, VerdictsSound, EnforcedRowIsDecided
<1>4. LabelsSound' /\ AlertsSound' /\ AnswersSound'
  BY <1>1 DEF PathInv, LabelsSound, AlertsSound, AnswersSound
<1>5. Once'
  <2>1. \A v \in Caller, r \in Ref : Scoring(v, r)' => Scoring(v, r) /\ call'[v].pc = call[v].pc
    BY <1>1 DEF Scoring
  <2>2. QED
    BY <1>1, <2>1, OnceStays DEF PathInv
<1>6. QED
  BY <1>2, <1>3, <1>4, <1>5 DEF PathInv

LEMMA WriteKeeps ==
  ASSUME PathInv, NEW w \in Caller, Write(w) PROVE PathInv'
<1>1. UNCHANGED Quiet
  BY DEF Write, Quiet
<1>2. \/ AppendTransaction(w) \/ AppendAlert(w) \/ LogDecision(w) \/ AddModelCall(w)
      \/ LogWhatIf(w) \/ AppendCardEvent(w)
  BY DEF Write
<1>3. QED
  BY <1>1, <1>2, AppendTransactionKeeps, AppendAlertKeeps, LogDecisionKeeps,
     AddModelCallKeeps, LogWhatIfKeeps, AppendCardEventKeeps

LEMMA NextKeeps == ASSUME PathInv, Next PROVE PathInv'
<1>1. ASSUME NEW w \in Caller, BuildEvent(w) PROVE PathInv'
  BY <1>1, ReceiveKeeps DEF BuildEvent, Payment, Door, Rail
<1>2. ASSUME NEW w \in Caller, Score(w) PROVE PathInv'
  BY <1>2, ReceiveKeeps DEF Score, Payment, Door, Rail
<1>3. ASSUME NEW w \in Caller, Authorize(w) PROVE PathInv'
  BY <1>3, ReceiveKeeps DEF Authorize, CardRef, Payment, Door, Rail
<1>4. QED
  BY <1>1, <1>2, <1>3, WriteKeeps, StoreRaisesKeeps, AnswerKeeps, SwapListKeeps,
     RestartKeeps DEF Next

\* The invariant holds in every reachable state.
THEOREM PathInductive == Spec => []PathInv
<1>1. PathInv /\ [Next]_vars => PathInv'
  BY NextKeeps, StutterKeeps
<1>2. QED
  BY InitPathInv, <1>1, PTL DEF Spec

-----------------------------------------------------------------------------
(* What follows.                                                           *)

LEMMA InvTypeOK == PathInv => PathTypeOK
<1> SUFFICES ASSUME PathInv PROVE PathTypeOK
  OBVIOUS
<1>t. TypeInv
  BY DEF PathInv
<1>1. \A x \in Rows : x.action \in Enforceable
  BY DecidedEnforces DEF Rows, Row, Serving
<1>2. \A id \in DecisionId : decisions[id].action \in Action \cup {"STAND_IN", "none"}
  BY <1>1, <1>t DEF TypeInv, NoRow, Enforceable
<1>3. \A w \in Caller : call[w] # Idle =>
        /\ call[w].ref \in Ref \cup {NoRef} /\ call[w].a \in Assess
        /\ call[w].recorded => call[w].pc \in {"label", "card", "answer"}
  BY <1>t DEF PathInv, TypeInv, CallsSound, Sound, Serving, Payment
<1>4. QED
  BY <1>t, <1>2, <1>3 DEF PathTypeOK, TypeInv, Loading

\* The doors keep their types: every enforced row carries an action of the
\* ladder or the stand-in's, and a call says "recorded" only once it is.
THEOREM PathTypeCorrect == Spec => []PathTypeOK
BY PathInductive, InvTypeOK, PTL

LEMMA InvProhibited == PathInv => ProhibitedNeverThrough
<1> SUFFICES ASSUME PathInv PROVE ProhibitedNeverThrough
  OBVIOUS
<1>1. ASSUME NEW x \in answers, Prohibited(x)
      PROVE  IF x.door = "auth" THEN x.code # "00" ELSE x.action = "BLOCK"
  BY <1>1 DEF PathInv, AnswersSound, Told
<1>2. ASSUME NEW r \in Ref, Match[r] # "clear" PROVE decisions[<<"dec", r>>] = NoRow
  <2>1. <<"dec", r>> \in DecisionId
    BY DEF DecisionId, Enforced
  <2>2. verdicts[<<"dec", r>>] = {}
    BY <1>2, <2>1 DEF PathInv, VerdictsSound
  <2>3. QED
    BY <2>1, <2>2 DEF PathInv, EnforcedRowIsDecided
<1>3. QED
  BY <1>1, <1>2 DEF ProhibitedNeverThrough

\* A payment to a listed party, or one that could not be screened, is approved
\* at no door, whatever its assessment, its retries and the list's life.
THEOREM ProhibitedStopped == Spec => []ProhibitedNeverThrough
BY PathInductive, InvProhibited, PTL

LEMMA InvIrrevocable == PathInv => IrrevocableNeverSilent
<1>1. PolicyBinds(NoRow)
  BY DEF PolicyBinds, NoRow, PushRail
<1>2. PathInv => \A id \in DecisionId : PolicyBinds(decisions[id])
  BY <1>1 DEF PathInv, VerdictsSound, EnforcedRowIsDecided
<1>3. QED
  BY <1>2 DEF IrrevocableNeverSilent, PathInv, AnswersSound, Told

\* On a rail that reaches the policy table under the table's own name for an
\* irrevocable one, no price lets a risky payment go and none blocks it below
\* severe, on record and in every answer to a screened payment.
THEOREM PolicyBindsEveryDoor == Spec => []IrrevocableNeverSilent
BY PathInductive, InvIrrevocable, PTL

LEMMA InvRecorded == PathInv => RecordedIsOnRecord
<1> SUFFICES ASSUME PathInv, NEW x \in answers, x.door = "auth", x.recorded
             PROVE  /\ decisions[<<"auth", x.ref>>] # NoRow
                    /\ seen[<<"auth", x.ref>>] = 1 =>
                          /\ decisions[<<"auth", x.ref>>].action = x.action
                          /\ decisions[<<"auth", x.ref>>].released = x.released
  BY DEF RecordedIsOnRecord
<1>1. /\ x.ref \in Ref
      /\ decisions[<<"auth", x.ref>>] # NoRow
      /\ \E y \in verdicts[<<"auth", x.ref>>] : y.action = x.action /\ y.released = x.released
  BY DEF PathInv, AnswersSound, Told
<1>2. <<"auth", x.ref>> \in DecisionId
  BY <1>1 DEF DecisionId, Enforced
<1>3. decisions[<<"auth", x.ref>>] \in verdicts[<<"auth", x.ref>>]
  BY <1>1, <1>2 DEF PathInv, EnforcedRowIsDecided
<1>4. seen[<<"auth", x.ref>>] = 1 =>
        \A y \in verdicts[<<"auth", x.ref>>] : y = decisions[<<"auth", x.ref>>]
  BY <1>2, <1>3 DEF PathInv, VerdictsSound
<1>5. QED
  BY <1>1, <1>4

\* An authorization that says it is recorded is, and as it was answered.
THEOREM RecordedMeansOnRecord == Spec => []RecordedIsOnRecord
BY PathInductive, InvRecorded, PTL

\* No what-if and no other door replaces an enforced row.
THEOREM OnlyDecidedRows == Spec => []EnforcedRowIsDecided
<1>1. PathInv => EnforcedRowIsDecided
  BY DEF PathInv
<1>2. QED
  BY PathInductive, <1>1, PTL

LEMMA InvAlerts == PathInv => AlertsFollowTrail
<1> SUFFICES ASSUME PathInv, NEW r \in Ref
             PROVE  /\ r \in alerts => txn[r] # NoEvent
                    /\ seen[<<"dec", r>>] = 1 =>
                         /\ decisions[<<"dec", r>>].released => r \notin alerts
                         /\ stops = 0 /\ decisions[<<"dec", r>>] # NoRow =>
                              (txn[r] = "alert" <=> r \in alerts)
  BY Zenon DEF AlertsFollowTrail
<1>1. r \in alerts => txn[r] # NoEvent
  BY DEF PathInv, AlertsSound
<1>2. ASSUME seen[<<"dec", r>>] = 1, decisions[<<"dec", r>>].released PROVE r \notin alerts
  <2> DEFINE id == <<"dec", r>>
  <2>1. id \in DecisionId
    BY DEF DecisionId, Enforced
  <2>2. decisions[id] # NoRow
    BY <1>2 DEF NoRow
  <2>3. \A y \in verdicts[id] : y = decisions[id]
    BY <1>2, <2>1, <2>2 DEF PathInv, VerdictsSound, EnforcedRowIsDecided
  <2>4. r \in alerts => \E y \in verdicts[id] : ~y.released
    BY DEF PathInv, AlertsSound
  <2>5. QED
    BY <1>2, <2>3, <2>4
<1>3. ASSUME seen[<<"dec", r>>] = 1, stops = 0, decisions[<<"dec", r>>] # NoRow
      PROVE  txn[r] = "alert" <=> r \in alerts
  BY <1>3 DEF PathInv, Once
<1>4. QED
  BY <1>1, <1>2, <1>3

\* The alert events and the transaction events tell the same story.
THEOREM AlertsTellTheTrail == Spec => []AlertsFollowTrail
BY PathInductive, InvAlerts, PTL

LEMMA InvLabels == PathInv => LabelHasItsDecision
<1> SUFFICES ASSUME PathInv, NEW r \in Ref, machine[r] # NoLabel
             PROVE  /\ decisions[<<"dec", r>>] # NoRow
                    /\ seen[<<"dec", r>>] = 1 =>
                         (machine[r] = "fraud" <=>
                            decisions[<<"dec", r>>].band \in {"high", "severe"})
  BY Zenon DEF LabelHasItsDecision
<1> DEFINE id == <<"dec", r>>
<1>1. id \in DecisionId
  BY DEF DecisionId, Enforced
<1>2. /\ decisions[id] # NoRow
      /\ \E x \in verdicts[id] : machine[r] = "fraud" <=> FraudBand(x)
  BY DEF PathInv, LabelsSound
<1>3. seen[id] = 1 => \A x \in verdicts[id] : x = decisions[id]
  BY <1>1, <1>2 DEF PathInv, VerdictsSound, EnforcedRowIsDecided
<1>4. QED
  BY <1>2, <1>3 DEF FraudBand

\* The machine's label stands with its decision, and for a payment scored once
\* it is the call of that decision's own score.
THEOREM LabelKeepsItsDecision == Spec => []LabelHasItsDecision
BY PathInductive, InvLabels, PTL
=============================================================================
