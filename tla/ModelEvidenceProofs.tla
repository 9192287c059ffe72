------------------------- MODULE ModelEvidenceProofs -------------------------
(***************************************************************************)
(* Proofs about ModelEvidence, for any subjects, decisions, number of      *)
(* labels, clock, floors and windows: its writers only take steps of the   *)
(* labelling substrate, so what LabelStoreProofs shows of the tables holds *)
(* under the readers.  Folds of the metrics are never opened: either the   *)
(* sets they are taken over did not change, or one element was added.      *)
(***************************************************************************)
EXTENDS ModelEvidence, LabelStoreProofs, FiniteSetTheorems, WellFoundedInduction

-----------------------------------------------------------------------------
(* Least and greatest of a set of days.                                    *)

LEMMA LeastDay ==
  ASSUME NEW T, T \subseteq Nat, T # {}
  PROVE  Min(T) \in T /\ \A y \in T : Min(T) <= y
<1>1. PICK x \in T : \A y \in T : ~ (<<y, x>> \in OpToRel(<, Nat))
  BY NatLessThanWellFounded, WFMin
<1>2. OpToRel(<, Nat) = {ss \in Nat \X Nat : ss[1] < ss[2]}
  BY Zenon DEF OpToRel
<1>3. ASSUME NEW y \in T PROVE x <= y
  <2>1. x \in Nat /\ y \in Nat /\ <<y, x>> \in Nat \X Nat
    OBVIOUS
  <2>2. ~(y < x)
    BY <1>1, <1>2, <2>1
  <2>3. QED
    BY <2>1, <2>2
<1>4. QED
  BY <1>3 DEF Min

LEMMA GreatestDay ==
  ASSUME NEW n \in Nat, NEW T, T \subseteq 0..n, T # {}
  PROVE  \E x \in T : \A y \in T : y <= x
<1> DEFINE Mirror == {n - x : x \in T}
<1>1. \A x \in T : x \in Int /\ n - x \in Nat
  OBVIOUS
<1>2. Mirror \subseteq Nat /\ Mirror # {}
  <2>1. PICK x : x \in T
    OBVIOUS
  <2>2. n - x \in Mirror
    BY <2>1
  <2>3. QED
    BY <1>1, <2>2
<1>3. Min(Mirror) \in Mirror /\ \A y \in Mirror : Min(Mirror) <= y
  BY <1>2, LeastDay
<1>4. PICK x \in T : Min(Mirror) = n - x
  BY <1>3
<1>5. \A y \in T : n - x <= n - y
  BY <1>3, <1>4
<1>6. QED
  BY <1>1, <1>5

LEMMA NotBeforeZero ==
  ASSUME NEW n \in Nat, NEW x \in Int, x <= n
  PROVE  Max({0, x}) \in 0..n
<1>1. \E y \in {0, x} : \A z \in {0, x} : y >= z
  <2>1. CASE x <= 0
    BY <2>1
  <2>2. CASE x > 0
    BY <2>2
  <2>3. QED
    BY <2>1, <2>2
<1>2. Max({0, x}) \in {0, x} /\ \A z \in {0, x} : Max({0, x}) >= z
  BY <1>1 DEF Max
<1>3. QED
  BY <1>2

USE IdAssumption, EvidenceAssumption

-----------------------------------------------------------------------------
(* The inductive invariant: the store's, and every decision and label      *)
(* dated within the clock.                                                 *)

Day == 0..LastDay

DaysOK ==
    /\ today \in Day
    /\ \A d \in decided : snapshot[d].day \in Day /\ snapshot[d].profile \in Profile
    /\ arrived \in Seq(Day) /\ Len(arrived) = Len(labels)
    /\ to_write \subseteq decided

EvidenceInv == IInv /\ DaysOK

LEMMA VerdictIsFact ==
  ASSUME NEW v \in BOOLEAN, NEW day \in Day \cup {NoDay}
  PROVE  Says(v, day) \in Fact
BY DEF Says, Day

\* Every step of the writers is a step of the store beneath them, or none.
LEMMA CallIsALabel ==
  ASSUME EvidenceInv, NEW d \in decided, CallOn(d)
  PROVE  AddLabel
<1>1. PICK t \in Target : add_label(SubjectOf[d], d, t, "heuristic",
                                   Says(snapshot[d].profile.alert, NoDay), FALSE)
  BY DEF CallOn
<1>2. d \in Decision /\ SubjectOf[d] \in Subject /\ d \in DecisionsAbout(SubjectOf[d])
  BY DEF EvidenceInv, IInv, TypeOK, DecisionsAbout
<1>3. snapshot[d].profile.alert \in BOOLEAN
  BY DEF EvidenceInv, DaysOK
<1>4. Says(snapshot[d].profile.alert, NoDay) \in Fact
  BY <1>3, VerdictIsFact
<1>5. "heuristic" \in Source /\ FALSE \in BOOLEAN
  OBVIOUS
<1>6. QED
  BY <1>1, <1>2, <1>4, <1>5, IsAddLabel, Zenon

LEMMA AnswerIsALabel ==
  ASSUME EvidenceInv, NEW s \in Subject, Adjudicate(s)
  PROVE  AddLabel
<1>1. PICK t \in Target, v \in Answer :
        add_label(s, NoDecision, t, "analyst", Says(v, NoDay), FALSE)
  BY DEF Adjudicate
<1>2. Says(v, NoDay) \in Fact
  BY <1>1, VerdictIsFact
<1>3. "analyst" \in Source /\ FALSE \in BOOLEAN
  OBVIOUS
<1>4. QED
  BY <1>1, <1>2, <1>3, IsAddLabel, Zenon

LEMMA LossIsALabel ==
  ASSUME EvidenceInv, ReportLoss
  PROVE  AddLabel
<1>1. PICK s \in Subject, t \in Target, day \in 0..today :
        add_label(s, NoDecision, t, "chargeback", Says(TRUE, day), FALSE)
  BY DEF ReportLoss
<1>2. day \in Day
  BY <1>1 DEF EvidenceInv, DaysOK, Day
<1>3. Says(TRUE, day) \in Fact
  BY <1>2, VerdictIsFact
<1>4. "chargeback" \in Source /\ FALSE \in BOOLEAN
  OBVIOUS
<1>5. QED
  BY <1>1, <1>3, <1>4, IsAddLabel, Zenon

LEMMA EvidenceStepsTheStore ==
  ASSUME EvidenceInv, [EvidenceNext]_evidenceVars
  PROVE  [Next]_storeVars
<1>1. ASSUME Score PROVE LogDecision
  <2>1. PICK d \in Decision \ decided : log_decision(d, d)
    BY <1>1 DEF Score
  <2>2. QED
    BY <2>1 DEF LogDecision
<1>2. ASSUME MachineCall PROVE AddLabel
  BY <1>2, CallIsALabel DEF MachineCall
<1>3. ASSUME ApplyBackfill PROVE AddLabel
  BY <1>3, CallIsALabel DEF ApplyBackfill, EvidenceInv, DaysOK
<1>4. ASSUME NEW s \in Subject, Adjudicate(s) PROVE AddLabel
  BY <1>4, AnswerIsALabel
<1>5. ASSUME ReportLoss PROVE AddLabel
  BY <1>5, LossIsALabel
<1>6. PlanBackfill \/ Tick \/ UNCHANGED evidenceVars => UNCHANGED storeVars
  BY DEF PlanBackfill, Tick, evidenceVars, storeVars
<1>7. QED
  BY <1>1, <1>2, <1>3, <1>4, <1>5, <1>6 DEF EvidenceNext, Next

LEMMA WrittenDays ==
  ASSUME EvidenceInv, Written, decided' = decided, to_write' \subseteq to_write,
         Len(labels') = Len(labels) + 1
  PROVE  DaysOK'
<1>1. arrived' = Append(arrived, today) /\ today' = today /\ snapshot' = snapshot
  BY DEF Written
<1>2. arrived' \in Seq(Day) /\ Len(arrived') = Len(arrived) + 1
  BY <1>1, AppendProperties DEF EvidenceInv, DaysOK
<1>3. QED
  BY <1>1, <1>2 DEF EvidenceInv, DaysOK

LEMMA AddLabelGrows ==
  ASSUME IInv, NEW s, NEW d, NEW t, NEW source, NEW fact, NEW o,
         add_label(s, d, t, source, fact, o)
  PROVE  /\ Len(labels') = Len(labels) + 1 /\ decided' = decided
         /\ DOMAIN labels' = 1..(Len(labels) + 1)
<1>1. /\ DOMAIN labels' = 1..(Len(labels) + 1)
      /\ decided' = decided
  BY DEF add_label
<1>2. \E e : labels' = [i \in 1..(Len(labels) + 1) |-> e[i]]
  <2>1. labels' = [i \in 1..(Len(labels) + 1) |-> labels'[i]]
    BY DEF add_label
  <2>2. QED
    BY <2>1
<1>3. Len(labels) \in Nat
  BY LabelRows DEF IInv
<1>4. QED
  BY <1>1, <1>2, <1>3

LEMMA EvidenceStep == EvidenceInv /\ [EvidenceNext]_evidenceVars => EvidenceInv'
<1> SUFFICES ASSUME EvidenceInv, [EvidenceNext]_evidenceVars PROVE EvidenceInv'
  OBVIOUS
<1>1. IInv'
  BY EvidenceStepsTheStore, NextIInv DEF EvidenceInv
<1>2. CASE Score
  <2>1. PICK d \in Decision \ decided, p \in Profile :
           /\ log_decision(d, d)
           /\ snapshot' = [e \in decided \cup {d} |->
                            IF e = d THEN [day |-> today, profile |-> p] ELSE snapshot[e]]
           /\ UNCHANGED <<today, arrived, to_write>>
    BY <1>2 DEF Score
  <2>2. decided' = decided \cup {d} /\ labels' = labels
    BY <2>1 DEF log_decision
  <2>3. ASSUME NEW e \in decided'
        PROVE  snapshot'[e].day \in Day /\ snapshot'[e].profile \in Profile
    BY <2>1, <2>2, <2>3 DEF EvidenceInv, DaysOK
  <2>4. QED
    BY <1>1, <2>1, <2>2, <2>3 DEF EvidenceInv, DaysOK
<1>3. ASSUME NEW d \in decided, CallOn(d), to_write' \subseteq to_write PROVE EvidenceInv'
  <2>1. PICK t \in Target : add_label(SubjectOf[d], d, t, "heuristic",
                                   Says(snapshot[d].profile.alert, NoDay), FALSE)
    BY <1>3 DEF CallOn
  <2>2. Written
    BY <1>3 DEF CallOn
  <2>3. QED
    BY <1>1, <1>3, <2>1, <2>2, AddLabelGrows, WrittenDays DEF EvidenceInv
<1>4. CASE MachineCall
  BY <1>3, <1>4 DEF MachineCall
<1>5. CASE ApplyBackfill
  <2>1. PICK d \in to_write : CallOn(d) /\ to_write' = to_write \ {d}
    BY <1>5 DEF ApplyBackfill
  <2>2. QED
    BY <1>3, <2>1 DEF EvidenceInv, DaysOK
<1>6. ASSUME NEW s \in Subject, Adjudicate(s) PROVE EvidenceInv'
  <2>1. PICK t \in Target, v \in Answer :
          add_label(s, NoDecision, t, "analyst", Says(v, NoDay), FALSE)
    BY <1>6 DEF Adjudicate
  <2>2. Written /\ to_write' = to_write
    BY <1>6 DEF Adjudicate
  <2>3. QED
    BY <1>1, <2>1, <2>2, AddLabelGrows, WrittenDays DEF EvidenceInv
<1>7. CASE ReportLoss
  <2>1. PICK s \in Subject, t \in Target, day \in 0..today :
          add_label(s, NoDecision, t, "chargeback", Says(TRUE, day), FALSE)
    BY <1>7 DEF ReportLoss
  <2>2. Written /\ to_write' = to_write
    BY <1>7 DEF ReportLoss
  <2>3. QED
    BY <1>1, <2>1, <2>2, AddLabelGrows, WrittenDays DEF EvidenceInv
<1>8. CASE PlanBackfill
  <2>1. to_write' \subseteq decided /\ UNCHANGED <<storeVars, today, snapshot, arrived>>
    BY <1>8 DEF PlanBackfill
  <2>2. QED
    BY <1>1, <2>1 DEF EvidenceInv, DaysOK, storeVars
<1>9. CASE Tick
  <2>1. today' \in Day
    BY <1>9 DEF Tick, EvidenceInv, DaysOK, Day
  <2>2. UNCHANGED <<storeVars, snapshot, arrived, to_write>>
    BY <1>9 DEF Tick
  <2>3. QED
    BY <1>1, <2>1, <2>2 DEF EvidenceInv, DaysOK, storeVars
<1>10. CASE UNCHANGED evidenceVars
  BY <1>1, <1>10 DEF EvidenceInv, DaysOK, evidenceVars
<1>11. QED
  BY <1>2, <1>4, <1>5, <1>6, <1>7, <1>8, <1>9, <1>10 DEF EvidenceNext

LEMMA EvidenceInitInv == EvidenceInit => EvidenceInv
<1> SUFFICES ASSUME EvidenceInit PROVE EvidenceInv
  OBVIOUS
<1>1. IInv
  BY InitIInv DEF EvidenceInit
<1>2. decided = {} /\ labels = <<>>
  BY DEF EvidenceInit, Init
<1>3. arrived \in Seq(Day) /\ Len(arrived) = Len(labels)
  BY <1>2, EmptySeq DEF EvidenceInit
<1>4. today \in Day /\ to_write \subseteq decided
  BY DEF EvidenceInit, Day
<1>5. QED
  BY <1>1, <1>2, <1>3, <1>4 DEF EvidenceInv, DaysOK

LEMMA EvidenceInductive == EvidenceSpec => []EvidenceInv
BY EvidenceInitInv, EvidenceStep, PTL DEF EvidenceSpec

\* The gate, the maturity floor and the queue read a store for which all that
\* LabelStoreProofs shows still holds: no writer of ModelEvidence, the
\* backfill with its stale plan included, goes round add_label.
THEOREM EvidenceUsesTheStore == EvidenceSpec => Spec
<1>1. EvidenceInit => Init
  BY DEF EvidenceInit
<1>2. EvidenceInv /\ [EvidenceNext]_evidenceVars => [Next]_storeVars
  BY EvidenceStepsTheStore
<1>3. QED
  BY <1>1, <1>2, EvidenceInductive, PTL DEF EvidenceSpec, Spec

-----------------------------------------------------------------------------
(* The maturity floor.                                                     *)

LEMMA TrainingRowDays ==
  ASSUME EvidenceInv, NEW S, NEW i \in training_rows(S)
  PROVE  /\ i \in DOMAIN labels /\ labels[i].decision \in decided
         /\ DecidedOn(i) \in Day /\ lag_days(i) \in Day
<1>1. i \in DOMAIN labels /\ labels[i].decision \in decided
  BY DEF training_rows, LabelRowsFrom
<1>2. DecidedOn(i) \in Day
  BY <1>1 DEF EvidenceInv, DaysOK, DecidedOn
<1>3. labels[i].fact.effective \in Day \cup {NoDay}
  <2>1. labels[i].fact \in Fact
    BY <1>1, LabelRows DEF EvidenceInv, IInv, LabelRow
  <2>2. QED
    BY <2>1 DEF Day
<1>4. arrived[i] \in Day
  <2>1. DOMAIN labels = 1..Len(labels)
    BY LabelRows DEF EvidenceInv, IInv
  <2>2. QED
    BY <1>1, <2>1, ElementOfSeq DEF EvidenceInv, DaysOK
<1> DEFINE known == IF labels[i].fact.effective = NoDay
                    THEN arrived[i] ELSE labels[i].fact.effective
<1>5. known \in Day
  BY <1>3, <1>4
<1>6. lag_days(i) = Max({0, known - DecidedOn(i)})
  BY DEF lag_days
<1> HIDE DEF known
<1>7. known - DecidedOn(i) \in Int /\ known - DecidedOn(i) <= LastDay
  BY <1>2, <1>5 DEF Day
<1>8. lag_days(i) \in Day
  BY <1>6, <1>7, NotBeforeZero DEF Day
<1>9. QED
  BY <1>1, <1>2, <1>8

LEMMA RowSetsFinite ==
  ASSUME IInv, NEW T, T \subseteq DOMAIN labels
  PROVE  /\ IsFiniteSet(T) /\ Cardinality(T) \in Nat
         /\ \A U \in SUBSET T : IsFiniteSet(U) /\ Cardinality(U) \in Nat
                                /\ Cardinality(U) <= Cardinality(T)
<1>1. DOMAIN labels = 1..Len(labels) /\ 1 \in Int /\ Len(labels) \in Int
  BY LabelRows DEF IInv
<1>2. IsFiniteSet(T)
  BY <1>1, FS_Interval, FS_Subset
<1>3. QED
  BY <1>2, FS_Subset, FS_CardinalityType

\* The share of the settled labels that was in after some number of days.
InWithin(days) == {j \in SettledRows : lag_days(j) <= days}

Covered(days) == 10 * Cardinality(InWithin(days)) >= Coverage * Cardinality(SettledRows)

LEMMA CoverageGrows ==
  ASSUME EvidenceInv, NEW few \in Int, NEW many \in Int, few <= many, Covered(few)
  PROVE  Covered(many)
<1>1. InWithin(few) \subseteq InWithin(many)
  <2>1. ASSUME NEW j \in SettledRows PROVE lag_days(j) \in Int
    BY TrainingRowDays DEF SettledRows, Day
  <2>2. QED
    BY <2>1 DEF InWithin
<1>2. SettledRows \subseteq DOMAIN labels
  BY TrainingRowDays DEF SettledRows
<1>3. InWithin(few) \subseteq SettledRows /\ InWithin(many) \subseteq SettledRows
  BY DEF InWithin
<1>4. IInv /\ InWithin(many) \subseteq DOMAIN labels
  BY <1>2, <1>3 DEF EvidenceInv
<1>5. /\ Cardinality(InWithin(few)) \in Nat /\ Cardinality(InWithin(many)) \in Nat
      /\ Cardinality(InWithin(few)) <= Cardinality(InWithin(many))
  BY <1>1, <1>4, RowSetsFinite
<1>6. Cardinality(SettledRows) \in Nat
  BY <1>2, <1>4, RowSetsFinite
<1>7. Coverage * Cardinality(SettledRows) \in Int
  BY <1>6
<1>8. QED
  BY <1>5, <1>7 DEF Covered

\* days_to_coverage is well defined whenever a floor is derived, and is one
\* of the lags that cover.
LEMMA DaysToCoverage ==
  ASSUME EvidenceInv, derivable
  PROVE  days_to_coverage \in Day /\ Covered(days_to_coverage)
<1> DEFINE Lags == {lag_days(i) : i \in SettledRows}
<1>1. SettledRows \subseteq DOMAIN labels
  BY TrainingRowDays DEF SettledRows
<1>2. Cardinality(SettledRows) \in Nat /\ IsFiniteSet(SettledRows)
  BY <1>1, RowSetsFinite DEF EvidenceInv
<1>3. SettledRows # {}
  <2>1. Cardinality(SettledRows) >= 1
    BY <1>2 DEF derivable
  <2>2. QED
    BY <2>1, FS_EmptySet
<1>4. Lags \subseteq 0..LastDay /\ Lags # {}
  <2>1. Lags \subseteq Day
    BY TrainingRowDays DEF SettledRows
  <2>2. QED
    BY <1>3, <2>1 DEF Day
<1>5. PICK m \in Lags : \A y \in Lags : y <= m
  BY <1>4, GreatestDay
<1>6. InWithin(m) = SettledRows
  BY <1>5 DEF InWithin
<1>7. Covered(m)
  <2>1. \A n \in Nat : 10 * n >= Coverage * n
    <3>1. ASSUME NEW n \in Nat PROVE 10 * n >= Coverage * n
      <4>1. 10 - Coverage \in Nat
        OBVIOUS
      <4>2. (10 - Coverage) * n \in Nat
        BY <4>1
      <4>3. QED
        BY <4>2
    <3>2. QED
      BY <3>1
  <2>2. QED
    BY <1>2, <1>6, <2>1 DEF Covered
<1>8. days_to_coverage = Min({d \in Lags : Covered(d)})
  BY DEF days_to_coverage, Covered, InWithin
<1> DEFINE Enough == {d \in Lags : Covered(d)}
<1>9. Enough \subseteq Nat /\ Enough # {}
  <2>1. m \in Enough
    BY <1>5, <1>7
  <2>2. QED
    BY <1>4, <2>1
<1>10. days_to_coverage \in Enough
  BY <1>8, <1>9, LeastDay
<1>11. QED
  BY <1>4, <1>10 DEF Day

\* What the floor is for: a cohort on or before it has had the days in which
\* the covered share of the settled labels arrived.
LEMMA FloorCovers ==
  ASSUME EvidenceInv, derivable, NEW day \in Day, day <= floor
  PROVE  Covered(today - day)
<1>1. days_to_coverage \in Day /\ Covered(days_to_coverage)
  BY DaysToCoverage
<1>2. today \in Day
  BY DEF EvidenceInv, DaysOK
<1>3. floor = today - days_to_coverage
  BY DEF floor
<1>4. days_to_coverage <= today - day
  BY <1>1, <1>2, <1>3 DEF Day
<1>5. days_to_coverage \in Int /\ today - day \in Int
  BY <1>1, <1>2 DEF Day
<1>6. QED
  BY <1>1, <1>4, <1>5, CoverageGrows

-----------------------------------------------------------------------------
(* The verdicts.                                                           *)

LEMMA CertificateHasMatureGold == EvidenceInv => CertificateNeedsMatureGold
<1> DEFINE mature == {i \in training_rows(GOLD_SOURCES) : Mature(i)}
           reported == {i \in training_rows(GOLD_SOURCES) : Covered(today - DecidedOn(i))}
<1>1. ASSUME EvidenceInv, derivable,
             evaluate_target \in {"low_agreement", "rule_already_strong", "ready_to_train"}
      PROVE  Cardinality(reported) >= MIN_GOLD
  <2>1. ~(Cardinality(subjects_with_gold) < MIN_GOLD)
    BY <1>1 DEF evaluate_target
  <2>2. training_rows(GOLD_SOURCES) \subseteq DOMAIN labels
    BY DEF training_rows, LabelRowsFrom
  <2>3. mature \subseteq reported /\ reported \subseteq DOMAIN labels
    <3>1. ASSUME NEW i \in mature PROVE i \in reported
      BY <1>1, FloorCovers, TrainingRowDays DEF Mature
    <3>2. QED
      BY <2>2, <3>1
  <2>4. /\ Cardinality(mature) \in Nat /\ Cardinality(reported) \in Nat
        /\ Cardinality(mature) <= Cardinality(reported)
    BY <1>1, <2>3, RowSetsFinite DEF EvidenceInv
  <2>5. IsFiniteSet(gold_rows)
    BY <1>1, RowSetsFinite DEF EvidenceInv, gold_rows, LabelRowsFrom
  <2>6. Cardinality(subjects_with_gold) \in Nat
    <3> DEFINE f == [i \in gold_rows |-> labels[i].subject]
    <3>1. f \in Surjection(gold_rows, subjects_with_gold)
      BY DEF Surjection, subjects_with_gold
    <3>2. QED
      BY <2>5, <3>1, FS_Surjection, FS_CardinalityType
  <2>7. ~(Cardinality(mature) < MIN_GOLD)
    <3>1. Cardinality(subjects_with_gold) >= MIN_GOLD
      BY <2>1, <2>6
    <3>2. evaluate_target # "immature_evidence"
      BY <1>1
    <3>3. QED
      BY <1>1, <3>1, <3>2 DEF evaluate_target
  <2>8. QED
    BY <2>4, <2>7
<1>2. QED
  BY <1>1 DEF CertificateNeedsMatureGold, Certificates, Covered, InWithin

\* With a lag curve the graduation gate certifies nothing until MIN_GOLD gold
\* labels sit on decisions old enough to have been reported on
\* (core/graduation.py evaluate_target, core/label_maturity.py partition).  It
\* says nothing of a certificate given without a curve, nor of the age of the
\* pairs its kappa is computed over.
THEOREM CertificatesNeedMatureGold == EvidenceSpec => []CertificateNeedsMatureGold
BY EvidenceInductive, CertificateHasMatureGold, PTL

LEMMA RetrainExcludesTheRest == EvidenceInv => RetrainIsEarned
<1>1. ASSUME EvidenceInv, diagnose = "degraded"
      PROVE  /\ \A d \in Labelled(1) : Covered(today - snapshot[d].day)
             /\ \E j \in 2..Windows : \A w \in {1, j} : Cardinality(WithFeature(w)) >= MIN_PER_SIDE
  <2>1. Priors # {} /\ ~Unconfirmed(1, Min(Priors))
    BY <1>1 DEF diagnose
  <2>2. derivable /\ psi_computable(1, Min(Priors))
    BY <2>1 DEF Unconfirmed
  <2>3. Min(Priors) \in 2..Windows
    BY <2>1, LeastDay DEF Priors
  <2>4. ASSUME NEW d \in Labelled(1) PROVE Covered(today - snapshot[d].day)
    <3>1. d \in decided /\ snapshot[d].day <= floor
      BY <2>2, <2>4 DEF Labelled, Kept, Window
    <3>2. snapshot[d].day \in Day
      BY <1>1, <3>1 DEF EvidenceInv, DaysOK
    <3>3. QED
      BY <1>1, <2>2, <3>1, <3>2, FloorCovers
  <2>5. QED
    BY <2>2, <2>3, <2>4 DEF psi_computable
<1>2. QED
  BY <1>1 DEF RetrainIsEarned, Covered, InWithin

\* The verdict that authorises a retrain has excluded immature labels and an
\* input nobody could compare (core/model_performance.py diagnose).
THEOREM RetrainsAreEarned == EvidenceSpec => []RetrainIsEarned
BY EvidenceInductive, RetrainExcludesTheRest, PTL

-----------------------------------------------------------------------------
(* What one label does to the evidence.                                    *)

LEMMA GoldOutranks ==
  /\ precedence_of("heuristic") = 0 /\ precedence_of("analyst") = 30
  /\ \A source \in GOLD_SOURCES : precedence_of(source) > 0
  /\ \A source : precedence_of(source) > 30 => source \in GOLD_SOURCES
<1>1. DOMAIN SOURCE_PRECEDENCE = {"law_enforcement", "confirmed_loss", "chargeback",
                                  "analyst", "victim_report", "consortium", "heuristic"}
  BY DEF SOURCE_PRECEDENCE
<1>2. /\ SOURCE_PRECEDENCE["heuristic"] = 0 /\ SOURCE_PRECEDENCE["analyst"] = 30
      /\ SOURCE_PRECEDENCE["consortium"] = 10 /\ SOURCE_PRECEDENCE["victim_report"] = 20
      /\ SOURCE_PRECEDENCE["chargeback"] = 40 /\ SOURCE_PRECEDENCE["confirmed_loss"] = 50
      /\ SOURCE_PRECEDENCE["law_enforcement"] = 60
  BY DEF SOURCE_PRECEDENCE
<1>3. precedence_of("heuristic") = 0 /\ precedence_of("analyst") = 30
  BY <1>1, <1>2 DEF precedence_of
<1>4. ASSUME NEW source \in GOLD_SOURCES PROVE precedence_of(source) > 0
  BY <1>1, <1>2 DEF precedence_of, GOLD_SOURCES
<1>5. ASSUME NEW source, precedence_of(source) > 30 PROVE source \in GOLD_SOURCES
  <2>1. CASE source \in DOMAIN SOURCE_PRECEDENCE
    <3>1. source \notin {"heuristic", "consortium"}
      BY <1>1, <1>2, <1>5 DEF precedence_of
    <3>2. QED
      BY <1>1, <2>1, <3>1 DEF GOLD_SOURCES
  <2>2. CASE source \notin DOMAIN SOURCE_PRECEDENCE
    BY <1>5, <2>2 DEF precedence_of
  <2>3. QED
    BY <2>1, <2>2
<1>6. QED
  BY <1>3, <1>4, <1>5

\* A row still says what it said, of the same decision.
SaysTheSame(i) ==
    /\ labels'[i].subject = labels[i].subject /\ labels'[i].decision = labels[i].decision
    /\ labels'[i].source = labels[i].source /\ labels'[i].fact = labels[i].fact

LEMMA BuriedSaysTheSame ==
  ASSUME NEW row \in LabelRow, NEW id \in Nat
  PROVE  /\ Buried(row, id).subject = row.subject /\ Buried(row, id).decision = row.decision
         /\ Buried(row, id).source = row.source /\ Buried(row, id).fact = row.fact
         /\ Buried(row, id).superseded_by = id
BY DEF Buried, LabelRow

LEMMA AddLabelRows ==
  ASSUME IInv, NEW s, NEW d, NEW t, NEW source, NEW fact, NEW o,
         add_label(s, d, t, source, fact, o)
  PROVE  LET id == Len(labels) + 1
             st == Standing(s, Resolve(s, d), t)
         IN  /\ id \in Nat \ DOMAIN labels /\ DOMAIN labels' = DOMAIN labels \cup {id}
             /\ labels'[id].subject = s /\ labels'[id].source = source
             /\ labels'[id].override = (o /\ st # {})
             /\ ~Outranked(st, source, o) => labels'[id].superseded_by = Current
             /\ \A i \in DOMAIN labels :
                   /\ SaysTheSame(i)
                   /\ \/ labels'[i].superseded_by = labels[i].superseded_by
                      \/ i \in st /\ labels'[i].superseded_by = id
<1> DEFINE id == Len(labels) + 1
           st == Standing(s, Resolve(s, d), t)
           lost == Outranked(st, source, o)
           row == [subject |-> s, decision |-> Resolve(s, d), target |-> t,
                   source |-> source, fact |-> fact, override |-> o /\ st # {},
                   superseded_by |-> IF lost THEN Incumbent(st) ELSE Current]
           e(i) == IF i = id THEN row
                   ELSE IF i \in st /\ ~lost THEN Buried(labels[i], id) ELSE labels[i]
<1>1. labels' = [i \in 1..id |-> e(i)]
  BY DEF add_label, Buried
<1>2. /\ row.subject = s /\ row.source = source /\ row.override = (o /\ st # {})
      /\ ~lost => row.superseded_by = Current
  OBVIOUS
<1>3. DOMAIN labels = 1..Len(labels) /\ Len(labels) \in Nat
  BY LabelRows DEF IInv
<1>4. id \in Nat \ DOMAIN labels /\ 1..id = DOMAIN labels \cup {id}
  BY <1>3
<1>5. e(id) = row
  OBVIOUS
<1>6. ASSUME NEW i \in DOMAIN labels
      PROVE  /\ e(i).subject = labels[i].subject /\ e(i).decision = labels[i].decision
             /\ e(i).source = labels[i].source /\ e(i).fact = labels[i].fact
             /\ \/ e(i).superseded_by = labels[i].superseded_by
                \/ i \in st /\ e(i).superseded_by = id
  <2>1. i # id /\ labels[i] \in LabelRow
    BY <1>4, LabelRows DEF IInv
  <2>2. (i \in st /\ e(i) = Buried(labels[i], id)) \/ e(i) = labels[i]
    BY <2>1
  <2> HIDE DEF e, id, st
  <2>3. QED
    BY <1>4, <2>1, <2>2, BuriedSaysTheSame
<1> HIDE DEF e, row, lost, id, st
<1>7. ASSUME NEW i \in DOMAIN labels PROVE labels'[i] = e(i)
  BY <1>1, <1>4
<1>8. labels'[id] = row /\ DOMAIN labels' = DOMAIN labels \cup {id}
  BY <1>1, <1>4, <1>5
<1>9. \A i \in DOMAIN labels :
         /\ SaysTheSame(i)
         /\ \/ labels'[i].superseded_by = labels[i].superseded_by
            \/ i \in st /\ labels'[i].superseded_by = id
  BY <1>6, <1>7 DEF SaysTheSame
<1>10. QED
  BY <1>2, <1>4, <1>8, <1>9 DEF id, st, lost

-----------------------------------------------------------------------------
(* An analyst's answer about a case of the queue.                          *)

\* Nothing that stands where the answer goes is gold, so it wins its cell.
LEMMA AnswerStands ==
  ASSUME IInv, NEW s \in Subject, s \notin subjects_with_gold, NEW t,
         NEW st, st = Standing(s, Resolve(s, NoDecision), t)
  PROVE  /\ \A i \in st : labels[i].source \notin GOLD_SOURCES
         /\ ~Outranked(st, "analyst", FALSE)
<1>1. s # NoSubject
  OBVIOUS
<1>2. ASSUME NEW i \in st PROVE i \in DOMAIN labels /\ IsCurrent(labels[i]) /\ labels[i].subject = s
  <2>1. /\ i \in DOMAIN labels /\ IsCurrent(labels[i])
        /\ Matches(labels[i], s, Resolve(s, NoDecision))
    BY <1>2 DEF Standing, IsCurrent
  <2>2. Resolve(s, NoDecision) = latest[s]
    BY <1>1 DEF Resolve
  <2>3. CASE latest[s] = NoDecision
    BY <2>1, <2>2, <2>3 DEF Matches
  <2>4. CASE latest[s] # NoDecision
    <3>1. labels[i].decision = latest[s]
      BY <2>1, <2>2, <2>4 DEF Matches
    <3>2. labels[i].subject = SubjectOf[labels[i].decision]
      BY <2>1, <2>4, <3>1 DEF IInv, LabelsJoinTheirDecision, Joined
    <3>3. SubjectOf[latest[s]] = s
      BY <2>4 DEF IInv, LabelsJoinTheirDecision
    <3>4. QED
      BY <2>1, <3>1, <3>2, <3>3
  <2>5. QED
    BY <2>3, <2>4
<1>3. ASSUME NEW i \in st PROVE labels[i].source \notin GOLD_SOURCES
  BY <1>1, <1>2, <1>3 DEF subjects_with_gold, gold_rows, LabelRowsFrom
<1>4. ~Outranked(st, "analyst", FALSE)
  <2>1. ASSUME st # {} PROVE ~(precedence_of("analyst") < precedence_of(labels[Incumbent(st)].source))
    <3>1. Incumbent(st) \in st
      BY <2>1 DEF Incumbent
    <3>2. ~(precedence_of(labels[Incumbent(st)].source) > 30)
      BY <1>3, <3>1, GoldOutranks
    <3>3. precedence_of(labels[Incumbent(st)].source) \in Nat
      BY PrecedenceIsNat
    <3>4. QED
      BY <3>2, <3>3, GoldOutranks
  <2>2. QED
    BY <2>1 DEF Outranked
<1>5. QED
  BY <1>3, <1>4

LEMMA AnswerAddsOne ==
  ASSUME EvidenceInv, NEW s \in candidates, Adjudicate(s)
  PROVE  /\ subjects_with_gold' = subjects_with_gold \cup {s} /\ s \notin subjects_with_gold
         /\ paired' = paired \cup {s}
<1>1. PICK j \in training_rows({"heuristic"}) : labels[j].subject = s
  BY DEF candidates
<1>2. j \in DOMAIN labels /\ labels[j].source = "heuristic"
  BY <1>1 DEF training_rows, LabelRowsFrom
<1>3. s \in Subject /\ s \notin subjects_with_gold /\ s # NoSubject
  <2>1. labels[j].subject \in Subject \cup {NoSubject}
    BY <1>2, LabelRows DEF EvidenceInv, IInv, LabelRow
  <2>2. QED
    BY <1>1, <2>1 DEF candidates
<1>4. PICK t \in Target, v \in Answer :
        add_label(s, NoDecision, t, "analyst", Says(v, NoDay), FALSE)
  BY DEF Adjudicate
<1> DEFINE id == Len(labels) + 1
           st == Standing(s, Resolve(s, NoDecision), t)
<1>5. IInv
  BY DEF EvidenceInv
<1>6. /\ \A i \in st : labels[i].source \notin GOLD_SOURCES
      /\ ~Outranked(st, "analyst", FALSE)
  BY <1>3, <1>5, AnswerStands
<1>7. /\ id \in Nat \ DOMAIN labels /\ DOMAIN labels' = DOMAIN labels \cup {id}
      /\ labels'[id].subject = s /\ labels'[id].source = "analyst"
      /\ labels'[id].superseded_by = Current
      /\ \A i \in DOMAIN labels :
            /\ SaysTheSame(i)
            /\ \/ labels'[i].superseded_by = labels[i].superseded_by
               \/ i \in st /\ labels'[i].superseded_by = id
  BY <1>4, <1>5, <1>6, AddLabelRows
<1>8. id # Current
  BY <1>5, LabelRows DEF Current, IInv
<1> HIDE DEF id, st
<1>9. gold_rows' = gold_rows \cup {id}
  <2>1. \A i \in DOMAIN labels' : i \in gold_rows' <=>
           /\ labels'[i].superseded_by = Current /\ labels'[i].source \in GOLD_SOURCES
           /\ labels'[i].subject # NoSubject
    BY DEF gold_rows, LabelRowsFrom, IsCurrent
  <2>2. \A i \in DOMAIN labels : i \in gold_rows <=>
           /\ labels[i].superseded_by = Current /\ labels[i].source \in GOLD_SOURCES
           /\ labels[i].subject # NoSubject
    BY DEF gold_rows, LabelRowsFrom, IsCurrent
  <2>3. id \in gold_rows'
    BY <1>3, <1>7, <2>1 DEF GOLD_SOURCES
  <2>4. ASSUME NEW i \in DOMAIN labels PROVE i \in gold_rows' <=> i \in gold_rows
    <3>1. labels'[i].source = labels[i].source /\ labels'[i].subject = labels[i].subject
      BY <1>7 DEF SaysTheSame
    <3>2. i \in st => i \notin gold_rows /\ i \notin gold_rows'
      BY <1>6, <1>7, <2>1, <2>2, <3>1
    <3>3. i \notin st => labels'[i].superseded_by = labels[i].superseded_by
      BY <1>7
    <3>4. QED
      BY <1>7, <2>1, <2>2, <3>1, <3>2, <3>3
  <2>5. gold_rows \subseteq DOMAIN labels /\ gold_rows' \subseteq DOMAIN labels'
    BY DEF gold_rows, LabelRowsFrom
  <2>6. QED
    BY <1>7, <2>3, <2>4, <2>5
<1>10. \A i \in gold_rows : labels'[i].subject = labels[i].subject
  BY <1>7 DEF gold_rows, LabelRowsFrom, SaysTheSame
<1>11. subjects_with_gold' = subjects_with_gold \cup {s}
  <2>1. subjects_with_gold' = {labels'[i].subject : i \in gold_rows'}
    BY DEF subjects_with_gold
  <2>2. subjects_with_gold = {labels[i].subject : i \in gold_rows}
    BY DEF subjects_with_gold
  <2>3. QED
    BY <1>7, <1>9, <1>10, <2>1, <2>2
<1>12. ASSUME NEW r PROVE heuristic_calls(r)' = heuristic_calls(r)
  <2>1. id \notin heuristic_calls(r)'
    BY <1>7 DEF heuristic_calls
  <2>2. ASSUME NEW i \in DOMAIN labels PROVE i \in heuristic_calls(r)' <=> i \in heuristic_calls(r)
    BY <1>7 DEF heuristic_calls, SaysTheSame
  <2>3. heuristic_calls(r) \subseteq DOMAIN labels /\ heuristic_calls(r)' \subseteq DOMAIN labels'
    BY DEF heuristic_calls
  <2>4. QED
    BY <1>7, <2>1, <2>2, <2>3
<1>13. heuristic_calls(s) # {}
  BY <1>1, <1>2 DEF heuristic_calls
<1>14. paired' = paired \cup {s}
  <2>1. paired' = {r \in subjects_with_gold' : heuristic_calls(r)' # {}}
    BY DEF paired
  <2>2. QED
    BY <1>11, <1>12, <1>13, <2>1 DEF paired
<1>15. QED
  BY <1>3, <1>11, <1>14

LEMMA GoldSubjectsFinite == IInv => IsFiniteSet(subjects_with_gold) /\ IsFiniteSet(paired)
<1> SUFFICES ASSUME IInv PROVE IsFiniteSet(subjects_with_gold) /\ IsFiniteSet(paired)
  OBVIOUS
<1> DEFINE f == [i \in gold_rows |-> labels[i].subject]
<1>1. f \in Surjection(gold_rows, subjects_with_gold)
  BY DEF Surjection, subjects_with_gold
<1>2. gold_rows \subseteq DOMAIN labels
  BY DEF gold_rows, LabelRowsFrom
<1>3. IsFiniteSet(subjects_with_gold)
  BY <1>1, <1>2, RowSetsFinite, FS_Surjection
<1>4. paired \in SUBSET subjects_with_gold
  BY DEF paired
<1>5. QED
  BY <1>3, <1>4, FS_Subset

\* An answer about a case of the queue makes one more gold subject and one
\* more pair (core/active_learning.py rank, core/graduation.py _pair).
THEOREM AnswersMakePairs == EvidenceSpec => AnAnswerMakesAPair
<1>1. ASSUME EvidenceInv, NEW s \in candidates, Adjudicate(s)
      PROVE  /\ Cardinality(subjects_with_gold') = Cardinality(subjects_with_gold) + 1
             /\ Cardinality(paired') = Cardinality(paired) + 1
  <2>1. s \notin paired
    BY <1>1, AnswerAddsOne DEF paired
  <2>2. QED
    BY <1>1, <2>1, AnswerAddsOne, GoldSubjectsFinite, FS_AddElement DEF EvidenceInv
<1>2. EvidenceInv
      => [\A s \in candidates : Adjudicate(s) =>
            /\ Cardinality(subjects_with_gold') = Cardinality(subjects_with_gold) + 1
            /\ Cardinality(paired') = Cardinality(paired) + 1]_evidenceVars
  BY <1>1
<1>3. QED
  BY <1>2, EvidenceInductive, PTL DEF AnAnswerMakesAPair

-----------------------------------------------------------------------------
(* A machine's own call.                                                   *)

\* What the readers see of the world's reports is left as it was.
Unmoved ==
    /\ today' = today /\ snapshot' = snapshot /\ decided' = decided
    /\ LabelRowsFrom(GOLD_SOURCES)' = LabelRowsFrom(GOLD_SOURCES)
    /\ \A i \in LabelRowsFrom(GOLD_SOURCES) : SaysTheSame(i) /\ arrived'[i] = arrived[i]

LEMMA CallIsNoGold ==
  ASSUME EvidenceInv, NEW d \in decided, CallOn(d)
  PROVE  Unmoved
<1>0. PICK s, fact : s = SubjectOf[d] /\ fact = Says(snapshot[d].profile.alert, NoDay)
  OBVIOUS
<1>1. PICK t \in Target : add_label(SubjectOf[d], d, t, "heuristic",
                                   Says(snapshot[d].profile.alert, NoDay), FALSE)
  BY DEF CallOn
<1>2. arrived' = Append(arrived, today) /\ today' = today /\ snapshot' = snapshot
  BY DEF CallOn, Written
<1>3. IInv /\ TypeOK /\ LabelsJoinTheirDecision /\ OneStandingPerCell
  BY DEF EvidenceInv, IInv
<1>4. d \in Decision /\ SubjectOf[d] \in Subject /\ d \in DecisionsAbout(SubjectOf[d])
  BY <1>3 DEF TypeOK, DecisionsAbout
<1>5. snapshot[d].profile.alert \in BOOLEAN
  BY DEF EvidenceInv, DaysOK
<1>6. Says(snapshot[d].profile.alert, NoDay) \in Fact
  BY <1>5, VerdictIsFact
<1>7. "heuristic" \in Source /\ FALSE \in BOOLEAN
  OBVIOUS
<1>8. \E row \in LabelRow : \E hit \in SUBSET DOMAIN labels : Adds(row, hit)
  BY <1>1, <1>3, <1>4, <1>6, <1>7, AddLabelAdds, Zenon
<1>9. PICK row \in LabelRow : \E hit \in SUBSET DOMAIN labels : Adds(row, hit)
  BY <1>8
<1>10. PICK hit \in SUBSET DOMAIN labels : Adds(row, hit)
  BY <1>9
<1> DEFINE id == Len(labels) + 1
           st == Standing(s, Resolve(s, d), t)
<1>11. /\ id \in Nat \ DOMAIN labels /\ DOMAIN labels' = DOMAIN labels \cup {id}
       /\ labels'[id].source = "heuristic"
       /\ \A i \in DOMAIN labels :
             /\ SaysTheSame(i)
             /\ \/ labels'[i].superseded_by = labels[i].superseded_by
                \/ i \in st /\ labels'[i].superseded_by = id
  <2>1. add_label(s, d, t, "heuristic", fact, FALSE)
    BY <1>0, <1>1
  <2>2. QED
    BY <1>3, <2>1, AddLabelRows
<1>12. /\ labels'[id] = row
       /\ \A i \in DOMAIN labels \ hit : labels'[i] = labels[i]
  BY <1>3, <1>10, AddsRows, AddsKeeps DEF Adds, Appended
<1>13. row.source = "heuristic" /\ ~row.override
  <2>1. labels'[id].override = (FALSE /\ st # {})
    BY <1>0, <1>1, <1>3, AddLabelRows
  <2>2. QED
    BY <1>11, <1>12, <2>1
<1>14. ASSUME NEW j \in hit PROVE labels[j].source \notin GOLD_SOURCES
  <2>1. Wins(row, hit)
    BY <1>10, <1>14 DEF Adds, Loses
  <2>2. precedence_of(labels[j].source) <= 0
    BY <1>13, <1>14, <2>1, GoldOutranks DEF Wins
  <2>3. precedence_of(labels[j].source) \in Nat
    BY PrecedenceIsNat
  <2>4. QED
    BY <2>2, <2>3, GoldOutranks
<1> HIDE DEF id, st
<1>15. LabelRowsFrom(GOLD_SOURCES)' = LabelRowsFrom(GOLD_SOURCES)
  <2>1. \A i \in DOMAIN labels' : i \in LabelRowsFrom(GOLD_SOURCES)' <=>
           labels'[i].superseded_by = Current /\ labels'[i].source \in GOLD_SOURCES
    BY DEF LabelRowsFrom, IsCurrent
  <2>2. \A i \in DOMAIN labels : i \in LabelRowsFrom(GOLD_SOURCES) <=>
           labels[i].superseded_by = Current /\ labels[i].source \in GOLD_SOURCES
    BY DEF LabelRowsFrom, IsCurrent
  <2>3. id \notin LabelRowsFrom(GOLD_SOURCES)'
    BY <1>11, <2>1 DEF GOLD_SOURCES
  <2>4. ASSUME NEW i \in DOMAIN labels
        PROVE  i \in LabelRowsFrom(GOLD_SOURCES)' <=> i \in LabelRowsFrom(GOLD_SOURCES)
    <3>1. labels'[i].source = labels[i].source
      BY <1>11 DEF SaysTheSame
    <3>2. CASE i \in hit
      BY <1>11, <1>14, <2>1, <2>2, <3>1, <3>2
    <3>3. CASE i \notin hit
      BY <1>11, <1>12, <2>1, <2>2, <3>3
    <3>4. QED
      BY <3>2, <3>3
  <2>5. /\ LabelRowsFrom(GOLD_SOURCES) \subseteq DOMAIN labels
        /\ LabelRowsFrom(GOLD_SOURCES)' \subseteq DOMAIN labels'
    BY DEF LabelRowsFrom
  <2>6. QED
    BY <1>11, <2>3, <2>4, <2>5
<1>16. ASSUME NEW i \in DOMAIN labels PROVE arrived'[i] = arrived[i]
  <2>1. i \in 1..Len(arrived) /\ arrived \in Seq(Day) /\ today \in Day
    BY <1>3, LabelRows DEF EvidenceInv, DaysOK
  <2>2. QED
    BY <1>2, <2>1, AppendProperties
<1>17. LabelRowsFrom(GOLD_SOURCES) \subseteq DOMAIN labels
  BY DEF LabelRowsFrom
<1>18. decided' = decided
  BY <1>1 DEF add_label
<1>19. QED
  BY <1>2, <1>11, <1>15, <1>16, <1>17, <1>18 DEF Unmoved

LEMMA TrainingUnmoved ==
  ASSUME Unmoved
  PROVE  /\ training_rows(GOLD_SOURCES)' = training_rows(GOLD_SOURCES)
         /\ \A i \in training_rows(GOLD_SOURCES) :
               /\ SaysTheSame(i)
               /\ DecidedOn(i)' = DecidedOn(i) /\ lag_days(i)' = lag_days(i)
<1> DEFINE gold == LabelRowsFrom(GOLD_SOURCES)
<1>1. training_rows(GOLD_SOURCES) = {i \in gold : labels[i].decision \in decided}
  BY DEF training_rows
<1>2. training_rows(GOLD_SOURCES)' = {i \in gold' : labels'[i].decision \in decided'}
  BY DEF training_rows
<1>3. training_rows(GOLD_SOURCES)' = training_rows(GOLD_SOURCES)
  BY <1>1, <1>2 DEF Unmoved, SaysTheSame
<1>4. ASSUME NEW i \in training_rows(GOLD_SOURCES)
      PROVE  SaysTheSame(i) /\ DecidedOn(i)' = DecidedOn(i) /\ lag_days(i)' = lag_days(i)
  <2>1. SaysTheSame(i) /\ arrived'[i] = arrived[i] /\ snapshot' = snapshot
    BY <1>1, <1>4 DEF Unmoved
  <2>2. DecidedOn(i)' = DecidedOn(i)
    BY <2>1 DEF DecidedOn, SaysTheSame
  <2>3. lag_days(i)' = lag_days(i)
    BY <2>1, <2>2 DEF lag_days, SaysTheSame
  <2>4. QED
    BY <2>1, <2>2, <2>3
<1>5. QED
  BY <1>3, <1>4

LEMMA FloorUnmoved ==
  ASSUME Unmoved
  PROVE  derivable' = derivable /\ floor' = floor
<1>1. SettledRows' = SettledRows /\ \A i \in SettledRows : lag_days(i)' = lag_days(i)
  <2>1. SettledRows' = {i \in training_rows(GOLD_SOURCES)' : DecidedOn(i)' <= today' - Horizon}
    BY DEF SettledRows
  <2>2. today' = today
    BY DEF Unmoved
  <2>3. QED
    BY <2>1, <2>2, TrainingUnmoved DEF SettledRows
<1>2. derivable' = derivable
  BY <1>1 DEF derivable
<1>3. days_to_coverage' = days_to_coverage
  <2> DEFINE Lags == {lag_days(i) : i \in SettledRows}
             Within(d) == {i \in SettledRows : lag_days(i) <= d}
  <2>1. Lags' = {lag_days(i)' : i \in SettledRows'}
    OBVIOUS
  <2>2. Lags' = Lags
    BY <1>1, <2>1
  <2>3. \A d : {i \in SettledRows' : lag_days(i)' <= d} = Within(d)
    BY <1>1
  <2>4. days_to_coverage' = Min({d \in Lags' :
            10 * Cardinality({i \in SettledRows' : lag_days(i)' <= d})
                >= Coverage * Cardinality(SettledRows')})
    BY DEF days_to_coverage
  <2>5. days_to_coverage = Min({d \in Lags :
            10 * Cardinality(Within(d)) >= Coverage * Cardinality(SettledRows)})
    BY DEF days_to_coverage
  <2> HIDE DEF Lags, Within
  <2>6. QED
    BY <1>1, <2>2, <2>3, <2>4, <2>5
<1>4. QED
  BY <1>2, <1>3 DEF floor, Unmoved

LEMMA WindowsUnmoved ==
  ASSUME Unmoved
  PROVE  \A k : /\ Window(k)' = Window(k) /\ Labelled(k)' = Labelled(k)
                /\ Hits(k)' = Hits(k) /\ Calls(k)' = Calls(k) /\ Frauds(k)' = Frauds(k)
                /\ WithFeature(k)' = WithFeature(k) /\ Highs(k)' = Highs(k)
<1>1. today' = today /\ snapshot' = snapshot /\ decided' = decided
  BY DEF Unmoved
<1>2. ASSUME NEW d PROVE OutcomeRows(d)' = OutcomeRows(d) /\ Fraud(d)' = Fraud(d)
  <2>1. OutcomeRows(d)' = {i \in training_rows(GOLD_SOURCES)' : labels'[i].decision = d}
    BY DEF OutcomeRows
  <2>2. OutcomeRows(d)' = OutcomeRows(d)
    BY <2>1, TrainingUnmoved DEF OutcomeRows, SaysTheSame
  <2>3. \A i \in OutcomeRows(d) : labels'[i].fact = labels[i].fact
    BY TrainingUnmoved DEF OutcomeRows, SaysTheSame
  <2>4. Fraud(d)' = (\E i \in OutcomeRows(d)' : labels'[i].fact.says)
    BY DEF Fraud
  <2>5. Fraud(d) = (\E i \in OutcomeRows(d) : labels[i].fact.says)
    BY DEF Fraud
  <2>6. QED
    BY <2>2, <2>3, <2>4, <2>5
<1>3. ASSUME NEW k
      PROVE  /\ Window(k)' = Window(k) /\ Labelled(k)' = Labelled(k)
             /\ Hits(k)' = Hits(k) /\ Calls(k)' = Calls(k) /\ Frauds(k)' = Frauds(k)
             /\ WithFeature(k)' = WithFeature(k) /\ Highs(k)' = Highs(k)
  <2>1. Window(k)' = Window(k)
    BY <1>1 DEF Window
  <2>2. Kept(k)' = Kept(k)
    BY <1>1, <2>1, FloorUnmoved DEF Kept
  <2>3. Labelled(k)' = Labelled(k)
    <3>1. Labelled(k)' = {d \in Kept(k)' : OutcomeRows(d)' # {}}
      BY DEF Labelled
    <3>2. QED
      BY <1>2, <2>2, <3>1 DEF Labelled
  <2>4. Calls(k)' = Calls(k)
    BY <1>1, <2>3 DEF Calls
  <2>5. Frauds(k)' = Frauds(k)
    <3>1. Frauds(k)' = Cardinality({d \in Labelled(k)' : Fraud(d)'})
      BY DEF Frauds
    <3>2. {d \in Labelled(k)' : Fraud(d)'} = {d \in Labelled(k) : Fraud(d)}
      BY <1>2, <2>3
    <3>3. QED
      BY <3>1, <3>2 DEF Frauds
  <2>6. Hits(k)' = Hits(k)
    <3>1. Hits(k)' = Cardinality({d \in Labelled(k)' : Fraud(d)' /\ snapshot'[d].profile.alert})
      BY DEF Hits
    <3>2. {d \in Labelled(k)' : Fraud(d)' /\ snapshot'[d].profile.alert}
            = {d \in Labelled(k) : Fraud(d) /\ snapshot[d].profile.alert}
      BY <1>1, <1>2, <2>3
    <3>3. QED
      BY <3>1, <3>2 DEF Hits
  <2>7. WithFeature(k)' = WithFeature(k)
    BY <1>1, <2>1 DEF WithFeature
  <2>8. Highs(k)' = Highs(k)
    BY <1>1, <2>1 DEF Highs
  <2>9. QED
    BY <2>1, <2>3, <2>4, <2>5, <2>6, <2>7, <2>8
<1>4. QED
  BY <1>3

LEMMA VerdictUnmoved ==
  ASSUME Unmoved
  PROVE  diagnose' = diagnose
<1>1. ASSUME NEW k PROVE measurable(k)' = measurable(k)
  BY WindowsUnmoved DEF measurable
<1>2. ASSUME NEW k, NEW j PROVE Fell(k, j)' = Fell(k, j)
  BY WindowsUnmoved DEF Fell
<1>3. ASSUME NEW k, NEW j PROVE psi_computable(k, j)' = psi_computable(k, j)
  <2>1. psi_computable(k, j)' = (\A w \in {k, j} : Cardinality(WithFeature(w)') >= MIN_PER_SIDE)
    BY DEF psi_computable
  <2>2. QED
    BY <2>1, WindowsUnmoved DEF psi_computable
<1>4. ASSUME NEW k, NEW j PROVE shifted(k, j)' = shifted(k, j)
  <2> DEFINE Apart(n, m, a, b) == 4 * Max({a * m - b * n, -(a * m - b * n)}) >= n * m
  <2>1. shifted(k, j) = Apart(Cardinality(WithFeature(k)), Cardinality(WithFeature(j)),
                              Highs(k), Highs(j))
    BY DEF shifted
  <2>2. shifted(k, j)' = Apart(Cardinality(WithFeature(k)'), Cardinality(WithFeature(j)'),
                               Highs(k)', Highs(j)')
    BY DEF shifted
  <2> HIDE DEF Apart
  <2>3. QED
    BY <2>1, <2>2, WindowsUnmoved
<1>5. ASSUME NEW k, NEW j PROVE Unconfirmed(k, j)' = Unconfirmed(k, j)
  BY <1>3, FloorUnmoved DEF Unconfirmed
<1>6. Priors' = Priors
  <2>1. Priors' = {j \in 2..Windows : measurable(j)'}
    BY DEF Priors
  <2>2. QED
    BY <1>1, <2>1 DEF Priors
<1>7. QED
  BY <1>1, <1>2, <1>3, <1>4, <1>5, <1>6 DEF diagnose

LEMMA GoldUnmoved ==
  ASSUME Unmoved, IInv
  PROVE  /\ subjects_with_gold' = subjects_with_gold
         /\ \A s \in subjects_with_gold : gold_label(s)' = gold_label(s)
<1> DEFINE gold == LabelRowsFrom(GOLD_SOURCES)
<1>1. gold' = gold /\ \A i \in gold : SaysTheSame(i)
  BY DEF Unmoved
<1>2. gold_rows' = {i \in gold' : labels'[i].subject # NoSubject}
  BY DEF gold_rows
<1>3. gold_rows' = gold_rows
  BY <1>1, <1>2 DEF gold_rows, SaysTheSame
<1>4. \A i \in gold_rows : SaysTheSame(i)
  BY <1>1 DEF gold_rows
<1>5. subjects_with_gold' = {labels'[i].subject : i \in gold_rows'}
  BY DEF subjects_with_gold
<1>6. subjects_with_gold' = subjects_with_gold
  BY <1>3, <1>4, <1>5 DEF subjects_with_gold, SaysTheSame
<1>7. ASSUME NEW s \in subjects_with_gold PROVE gold_label(s)' = gold_label(s)
  <2> DEFINE about == {i \in gold_rows : labels[i].subject = s}
  <2>1. gold_label(s)' = labels'[Min({i \in gold_rows' : labels'[i].subject = s})].fact.says
    BY DEF gold_label
  <2>2. {i \in gold_rows' : labels'[i].subject = s} = about
    BY <1>3, <1>4 DEF SaysTheSame
  <2>3. about # {}
    BY <1>7 DEF subjects_with_gold
  <2>4. about \subseteq Nat
    <3>1. DOMAIN labels \subseteq Nat
      BY LabelRows DEF IInv
    <3>2. QED
      BY <3>1 DEF gold_rows, LabelRowsFrom
  <2>5. Min(about) \in gold_rows
    BY <2>3, <2>4, LeastDay
  <2>6. QED
    BY <1>4, <2>1, <2>2, <2>5 DEF gold_label, SaysTheSame
<1>8. QED
  BY <1>6, <1>7

\* A step that leaves one more row, a heuristic one, is a call on a decision.
LEMMA HeuristicRowIsACall ==
  ASSUME EvidenceInv, EvidenceNext, Len(labels') > Len(labels),
         labels'[Len(labels')].source = "heuristic"
  PROVE  \E d \in decided : CallOn(d)
<1>0. IInv /\ Len(labels) \in Nat
  BY LabelRows DEF EvidenceInv, IInv
<1>1. Score \/ PlanBackfill \/ Tick => labels' = labels
  BY DEF Score, log_decision, PlanBackfill, Tick, storeVars
<1>2. ASSUME NEW s, NEW t, NEW source, NEW fact,
             add_label(s, NoDecision, t, source, fact, FALSE)
      PROVE  labels'[Len(labels')].source = source
  <2>1. Len(labels') = Len(labels) + 1
    BY <1>0, <1>2, AddLabelGrows
  <2>2. QED
    BY <1>0, <1>2, <2>1, AddLabelRows
<1>3. ASSUME NEW s \in Subject, Adjudicate(s) PROVE FALSE
  BY <1>2, <1>3 DEF Adjudicate
<1>4. ~ReportLoss
  BY <1>2 DEF ReportLoss
<1>5. MachineCall \/ ApplyBackfill
  BY <1>0, <1>1, <1>3, <1>4 DEF EvidenceNext
<1>6. QED
  BY <1>5 DEF MachineCall, ApplyBackfill, EvidenceInv, DaysOK

\* No self-label, live or backfilled from a stale plan, moves the maturity
\* floor, the gold evidence or the performance verdict (core/store.py
\* add_label, core/label_maturity.py, core/graduation.py _gold_by_subject).
THEOREM OwnCallsDoNotCount == EvidenceSpec => MachineCallsAreNotEvidence
<1>1. ASSUME EvidenceInv, [EvidenceNext]_evidenceVars, Len(labels') > Len(labels),
             labels'[Len(labels')].source = "heuristic"
      PROVE  /\ floor' = floor /\ diagnose' = diagnose
             /\ subjects_with_gold' = subjects_with_gold
             /\ \A s \in subjects_with_gold : gold_label(s)' = gold_label(s)
  <2>1. EvidenceNext
    <3>1. Len(labels) \in Nat
      BY <1>1, LabelRows DEF EvidenceInv, IInv
    <3>2. labels' # labels
      BY <1>1, <3>1
    <3>3. QED
      BY <1>1, <3>2 DEF evidenceVars
  <2>2. Unmoved
    BY <1>1, <2>1, HeuristicRowIsACall, CallIsNoGold
  <2>3. QED
    BY <1>1, <2>2, FloorUnmoved, VerdictUnmoved, GoldUnmoved DEF EvidenceInv
<1>2. EvidenceInv /\ [EvidenceNext]_evidenceVars
      => [Len(labels') > Len(labels) /\ labels'[Len(labels')].source = "heuristic"
           => /\ floor' = floor /\ diagnose' = diagnose
              /\ subjects_with_gold' = subjects_with_gold
              /\ \A s \in subjects_with_gold : gold_label(s)' = gold_label(s)]_evidenceVars
  BY <1>1
<1>3. QED
  BY <1>2, EvidenceInductive, PTL DEF EvidenceSpec, MachineCallsAreNotEvidence
=============================================================================
