---------------------------- MODULE ModelEvidence ----------------------------
(***************************************************************************)
(* What the labelling substrate is asked to prove.  core/label_maturity.py *)
(* derives from it the date up to which labels are complete,               *)
(* core/graduation.py whether a rule may be replaced by a trained model,   *)
(* core/model_performance.py whether the model got worse, and              *)
(* core/active_learning.py which case a human should answer next; they     *)
(* only read.  The writers run beside them, a lock acquisition at a time:  *)
(* scoring, the machine's own call, core/backfill_outcome_labels.py, the   *)
(* analysts and the outcome feed.                                          *)
(*                                                                         *)
(* One target, outcome.is_fraud.  Time is counted in days; two things of   *)
(* one day carry one timestamp.  Every ratio the code rounds is compared   *)
(* exactly.                                                                *)
(***************************************************************************)
EXTENDS LabelStore, FiniteSetsExt

CONSTANTS
    Profile,                \* what a decision snapshots: [alert, feature]
    NoFeature, NoDay,
    Answer,                 \* the verdicts analysts give
    LastDay,                \* bound on the clock
    Horizon, Coverage,      \* days until a cohort is settled; tenths of its labels
    WindowDays, Windows,    \* cohorts of diagnose()
    MIN_LABELS_FOR_CURVE, MIN_LABELLED, MIN_PER_SIDE,
    MIN_GOLD, MIN_PAIRED, MIN_GOLD_TO_MODEL,
    KAPPA_FLOOR, KAPPA_CEILING,     \* in tenths
    ExploreBucket           \* subjects the stable hash sends to the explore slice

\* A label asserts a verdict and, where one is known, the day it became true.
ASSUME EvidenceAssumption ==
    /\ Fact = [says: BOOLEAN, effective: 0..LastDay \cup {NoDay}]
    /\ {"heuristic", "analyst", "chargeback"} \subseteq Source
    /\ \A p \in Profile : p.alert \in BOOLEAN
    /\ Answer \subseteq BOOLEAN
    /\ LastDay \in Nat /\ Coverage \in 0..10
    /\ MIN_LABELS_FOR_CURVE \in Nat \ {0} /\ MIN_GOLD \in Nat

VARIABLES
    today,
    snapshot,       \* decision -> the day it was taken and its profile
    arrived,        \* the day each label row was written
    to_write        \* what a backfill has planned and not written yet

evidenceVars == <<decided, latest, labels, today, snapshot, arrived, to_write>>

GOLD_SOURCES == {"analyst", "confirmed_loss", "chargeback", "victim_report", "law_enforcement"}

LabelRowsFrom(sources) ==
    {i \in DOMAIN labels : IsCurrent(labels[i]) /\ labels[i].source \in sources}

\* training_rows: the label joined to the decision it sits on.
training_rows(sources) == {i \in LabelRowsFrom(sources) : labels[i].decision \in decided}

DecidedOn(i) == snapshot[labels[i].decision].day

-----------------------------------------------------------------------------
(* core/label_maturity.py                                                  *)

lag_days(i) ==
    LET known == IF labels[i].fact.effective = NoDay
                 THEN arrived[i] ELSE labels[i].fact.effective
    IN  Max({0, known - DecidedOn(i)})

\* Mutant: a machine's own call is counted as a report from the world.
SettledRows_AllSources ==
    {i \in training_rows(GOLD_SOURCES \cup {"heuristic"}) : DecidedOn(i) <= today - Horizon}

SettledRows == {i \in training_rows(GOLD_SOURCES) : DecidedOn(i) <= today - Horizon}

derivable == Cardinality(SettledRows) >= MIN_LABELS_FOR_CURVE

\* The smallest observed lag by which the covered share of labels was in.
days_to_coverage ==
    Min({d \in {lag_days(i) : i \in SettledRows} :
            10 * Cardinality({i \in SettledRows : lag_days(i) <= d})
                >= Coverage * Cardinality(SettledRows)})

floor == IF derivable THEN today - days_to_coverage ELSE NoDay

\* Mutant: a label in hand is taken for a mature one.
Mature_InHand(i) == arrived[i] <= today

\* partition: maturity is a property of the cohort, never of the label.
Mature(i) == DecidedOn(i) <= floor

-----------------------------------------------------------------------------
(* core/graduation.py                                                      *)

gold_rows == {i \in LabelRowsFrom(GOLD_SOURCES) : labels[i].subject # NoSubject}

subjects_with_gold == {labels[i].subject : i \in gold_rows}

\* Newest first into a dict: what stays is the oldest standing gold row.
gold_label(s) == labels[Min({i \in gold_rows : labels[i].subject = s})].fact.says

\* Mutant: the rule's call looked for among the standing labels only.
heuristic_calls_Standing(s) ==
    {i \in LabelRowsFrom({"heuristic"}) : labels[i].subject = s}

\* From the history: a gold label has superseded the call it is paired with.
heuristic_calls(s) == {i \in DOMAIN labels : labels[i].subject = s /\ labels[i].source = "heuristic"}

heuristic_label(s) == labels[Min(heuristic_calls(s))].fact.says

paired == {s \in subjects_with_gold : heuristic_calls(s) # {}}

\* Cohen's kappa at or above some tenths: (n*agree - S) / (n^2 - S), where S
\* is the agreement expected by chance, n^2 in the one-class case.
kappa_at_least(tenths) ==
    LET n == Cardinality(paired)
        agree == Cardinality({s \in paired : heuristic_label(s) = gold_label(s)})
        said(v) == Cardinality({s \in paired : heuristic_label(s) = v})
        was(v) == Cardinality({s \in paired : gold_label(s) = v})
        S == said(TRUE) * was(TRUE) + said(FALSE) * was(FALSE)
    IN  n > 0 /\ (S = n * n \/ 10 * (n * agree - S) >= tenths * (n * n - S))

evaluate_target ==
    LET n_gold == Cardinality(subjects_with_gold)
        gold_mature == {i \in training_rows(GOLD_SOURCES) : Mature(i)}
    IN  IF derivable /\ n_gold >= MIN_GOLD /\ Cardinality(gold_mature) < MIN_GOLD
        THEN "immature_evidence"
        ELSE IF n_gold < MIN_GOLD \/ Cardinality(paired) < MIN_PAIRED
        THEN "not_enough_gold"
        ELSE IF ~kappa_at_least(KAPPA_FLOOR) THEN "low_agreement"
        ELSE IF kappa_at_least(KAPPA_CEILING) THEN "rule_already_strong"
        ELSE "ready_to_train"

-----------------------------------------------------------------------------
(* core/model_performance.py                                               *)

\* Decisions taken k windows ago, and those of them the metrics keep.
Window(k) ==
    {d \in decided : /\ today - WindowDays * k <= snapshot[d].day
                     /\ snapshot[d].day < today - WindowDays * (k - 1)}

Kept(k) == IF derivable THEN {d \in Window(k) : snapshot[d].day <= floor} ELSE Window(k)

OutcomeRows(d) == {i \in training_rows(GOLD_SOURCES) : labels[i].decision = d}

Labelled(k) == {d \in Kept(k) : OutcomeRows(d) # {}}

measurable(k) == Cardinality(Labelled(k)) >= MIN_LABELLED

Fraud(d) == \E i \in OutcomeRows(d) : labels[i].fact.says

\* precision_on_allowed and recall_on_allowed: hits over calls, over frauds.
Hits(k) == Cardinality({d \in Labelled(k) : Fraud(d) /\ snapshot[d].profile.alert})
Calls(k) == Cardinality({d \in Labelled(k) : snapshot[d].profile.alert})
Frauds(k) == Cardinality({d \in Labelled(k) : Fraud(d)})

\* One of them fell by the MATERIAL_DROP of a twentieth; absent either side,
\* no drop.
Fell(k, j) ==
    \/ /\ Calls(k) > 0 /\ Calls(j) > 0
       /\ 20 * (Hits(j) * Calls(k) - Hits(k) * Calls(j)) >= Calls(k) * Calls(j)
    \/ /\ Frauds(k) > 0 /\ Frauds(j) > 0
       /\ 20 * (Hits(j) * Frauds(k) - Hits(k) * Frauds(j)) >= Frauds(k) * Frauds(j)

\* The input of the two windows, one two-valued feature.  Its PSI is taken
\* to reach 0.20 when its frequencies are a quarter apart or more.
WithFeature(k) == {d \in Window(k) : snapshot[d].profile.feature # NoFeature}
Highs(k) == Cardinality({d \in Window(k) : snapshot[d].profile.feature = "high"})

psi_computable(k, j) ==
    \A w \in {k, j} : Cardinality(WithFeature(w)) >= MIN_PER_SIDE

shifted(k, j) ==
    LET n == Cardinality(WithFeature(k))
        m == Cardinality(WithFeature(j))
        gap == Highs(k) * m - Highs(j) * n
    IN  4 * Max({gap, -gap}) >= n * m

\* Mutant: a PSI that never ran counts as an input that held still.
Unconfirmed_Untested(k, j) == ~derivable

Unconfirmed(k, j) == ~psi_computable(k, j) \/ ~derivable

Priors == {j \in 2..Windows : measurable(j)}

diagnose ==
    IF ~measurable(1) THEN "unmeasurable"
    ELSE IF Priors = {} THEN "no_baseline"
    ELSE LET prev == Min(Priors)
         IN  IF ~Fell(1, prev) THEN "stable"
             ELSE IF psi_computable(1, prev) /\ shifted(1, prev) THEN "population_shift"
             ELSE IF Unconfirmed(1, prev) THEN "degraded_unconfirmed" ELSE "degraded"

-----------------------------------------------------------------------------
(* core/active_learning.py                                                 *)

HasFeatures(i) == snapshot[labels[i].decision].profile.feature # NoFeature

candidates ==
    {labels[i].subject : i \in {j \in training_rows({"heuristic"}) : HasFeatures(j)}}
        \ (subjects_with_gold \cup {NoSubject})

phase ==
    IF Cardinality(subjects_with_gold) >= MIN_GOLD /\ Cardinality(paired) >= MIN_PAIRED
    THEN "satisfied"
    ELSE IF Cardinality(subjects_with_gold) < MIN_GOLD_TO_MODEL
    THEN "cold_start" ELSE "uncertainty"

\* The rows rank() and train_target fit a model on.
model_rows == {i \in training_rows(GOLD_SOURCES) : HasFeatures(i)}

exploit == candidates \ ExploreBucket

-----------------------------------------------------------------------------
(* The writers.                                                            *)

EvidenceInit ==
    /\ Init
    /\ today = 0
    /\ snapshot = [d \in {} |-> 0]
    /\ arrived = <<>>
    /\ to_write = {}

Says(v, day) == [says |-> v, effective |-> day]

Written == arrived' = Append(arrived, today) /\ UNCHANGED <<today, snapshot>>

\* log_decision with its point-in-time snapshot; each decision once here.
Score ==
    \E d \in Decision \ decided, p \in Profile :
        /\ log_decision(d, d)
        /\ snapshot' = [e \in decided \cup {d} |->
                            IF e = d THEN [day |-> today, profile |-> p] ELSE snapshot[e]]
        /\ UNCHANGED <<today, arrived, to_write>>

\* The self-label, which the live path and the backfill both write.
CallOn(d) ==
    \E t \in Target :
        /\ add_label(SubjectOf[d], d, t, "heuristic",
                     Says(snapshot[d].profile.alert, NoDay), FALSE)
        /\ Written

\* record_decision, after its log_decision.
MachineCall ==
    \E d \in decided :
        /\ \A i \in DOMAIN labels : labels[i].decision = d => labels[i].source # "heuristic"
        /\ CallOn(d) /\ UNCHANGED to_write

\* plan: one decision of every subject that carries no label at all.
PlanBackfill ==
    LET have == {labels[i].subject : i \in DOMAIN labels}
        bare == {d \in decided : SubjectOf[d] \notin have}
    IN  /\ to_write = {} /\ bare # {}
        /\ \E plan \in SUBSET bare :
              /\ {SubjectOf[d] : d \in plan} = {SubjectOf[d] : d \in bare}
              /\ \A d, e \in plan : SubjectOf[d] = SubjectOf[e] => d = e
              /\ to_write' = plan
        /\ UNCHANGED <<storeVars, today, snapshot, arrived>>

\* apply: the plan is not checked again, row by row.  The script is taken to
\* run in the server's process: in one of its own it would share SQLite's
\* write lock with it, but not the lock that spans add_label's reads.
ApplyBackfill ==
    \E d \in to_write : CallOn(d) /\ to_write' = to_write \ {d}

\* close_loop: an analyst's answer about a subject.
Adjudicate(s) ==
    \E t \in Target, v \in Answer :
        add_label(s, NoDecision, t, "analyst", Says(v, NoDay), FALSE) /\ Written
            /\ UNCHANGED to_write

\* record_outcome: a loss, with the day it became true.
ReportLoss ==
    \E s \in Subject, t \in Target, day \in 0..today :
        add_label(s, NoDecision, t, "chargeback", Says(TRUE, day), FALSE) /\ Written
            /\ UNCHANGED to_write

Tick ==
    /\ today < LastDay
    /\ today' = today + 1
    /\ UNCHANGED <<storeVars, snapshot, arrived, to_write>>

EvidenceNext ==
    \/ Score \/ MachineCall \/ PlanBackfill \/ ApplyBackfill
    \/ (\E s \in Subject : Adjudicate(s)) \/ ReportLoss \/ Tick

EvidenceSpec == EvidenceInit /\ [][EvidenceNext]_evidenceVars

-----------------------------------------------------------------------------
(* Properties.                                                             *)

\* "It will not put a machine's own call in the denominator": no self-label,
\* live or backfilled from a plan that has gone stale, moves the maturity
\* floor, the gold evidence or the performance verdict, whatever was written
\* between the decision and the call.
MachineCallsAreNotEvidence ==
    [][Len(labels') > Len(labels) /\ labels'[Len(labels')].source = "heuristic"
         => /\ floor' = floor /\ diagnose' = diagnose
            /\ subjects_with_gold' = subjects_with_gold
            /\ \A s \in subjects_with_gold : gold_label(s)' = gold_label(s)]_evidenceVars

\* The verdict that authorises a retrain has excluded the two other
\* explanations: no labelled decision it counts is younger than the lag the
\* settled losses themselves show, and both windows carried enough input to
\* be compared.
RetrainIsEarned ==
    diagnose = "degraded" =>
        /\ \A d \in Labelled(1) : 10 * Cardinality({i \in SettledRows :
                lag_days(i) <= today - snapshot[d].day}) >= Coverage * Cardinality(SettledRows)
        /\ \E j \in 2..Windows : \A w \in {1, j} : Cardinality(WithFeature(w)) >= MIN_PER_SIDE

Certificates == {"low_agreement", "rule_already_strong", "ready_to_train"}

\* Once the lag curve is derivable, the gate certifies nothing unless MIN_GOLD
\* of the gold labels sit on decisions old enough to have been reported on.
\* It does not say that the certificate is computed over those labels, and
\* without a curve the gate certifies whatever their age.
CertificateNeedsMatureGold ==
    derivable /\ evaluate_target \in Certificates
    => Cardinality({i \in training_rows(GOLD_SOURCES) :
            10 * Cardinality({j \in SettledRows : lag_days(j) <= today - DecidedOn(i)})
                >= Coverage * Cardinality(SettledRows)}) >= MIN_GOLD

\* "a kappa computed over labels whose cohort is still receiving reports is a
\* measurement of the calendar": of the pairs a certified kappa is computed
\* over, one at least is mature.
KappaIsOfMaturePairs ==
    derivable /\ evaluate_target \in Certificates
    => \E s \in paired :
           LET i == Min({j \in gold_rows : labels[j].subject = s})
           IN  i \in training_rows(GOLD_SOURCES) /\ Mature(i)

\* "Labelling one of those moves both counters at once": an analyst's answer
\* about a case of the queue makes one more gold subject and one more pair.
AnAnswerMakesAPair ==
    [][\A s \in candidates : Adjudicate(s) =>
            /\ Cardinality(subjects_with_gold') = Cardinality(subjects_with_gold) + 1
            /\ Cardinality(paired') = Cardinality(paired) + 1]_evidenceVars

\* "uncertainty  A model can be trained": what rank() needs in that phase.
UncertaintyHasAModel == phase = "uncertainty" /\ exploit # {} => model_rows # {}

\* "the most recent CURRENT gold label per subject".
GoldIsMostRecent ==
    \A s \in subjects_with_gold :
        gold_label(s) = labels[Max({i \in gold_rows : labels[i].subject = s})].fact.says
=============================================================================
