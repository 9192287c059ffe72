------------------------- MODULE OutcomeLedgerProofs -------------------------
(***************************************************************************)
(* Proofs about OutcomeLedger, for any feed, any number of reporting       *)
(* threads, decisions, labels and crashes: the ledger only ever takes      *)
(* steps of the labelling substrate, so what LabelStoreProofs shows of it  *)
(* holds behind the ledger, and on top of that no answered report is       *)
(* without evidence.                                                       *)
(***************************************************************************)
EXTENDS OutcomeLedger, LabelStoreProofs, WellFoundedInduction, FiniteSetTheorems

USE IdAssumption, LedgerAssumption

\* A set of row ids that is not empty has a first one.
LEMMA FirstExists ==
  ASSUME NEW T, T \subseteq Nat, T # {}
  PROVE  \E x \in T : \A y \in T : x <= y
<1>1. PICK x \in T : \A y \in T : ~ (<<y, x>> \in OpToRel(<, Nat))
  BY NatLessThanWellFounded, WFMin
<1>2. OpToRel(<, Nat) = {ss \in Nat \X Nat : ss[1] < ss[2]}
  BY Zenon DEF OpToRel
<1>3. ASSUME NEW y \in T PROVE x <= y
  <2>1. x \in Nat /\ y \in Nat /\ <<y, x>> \in Nat \X Nat
    OBVIOUS
  <2>2. ~(y < x)
    BY <1>1, <1>2, <2>1
  <2>3. QED
    BY <2>1, <2>2
<1>4. QED
  BY <1>3

-----------------------------------------------------------------------------
(* The inductive invariant.                                                *)

CallShape == {Idle} \cup [pc: {"read", "filed"}, rec: Feed, standing: Nat]

\* The row of the labels table that carries a report.
Carries(i, rec) ==
    /\ i \in OutcomesOf(rec.subject)
    /\ labels[i].source = rec.source
    /\ labels[i].fact = rec.fact

CallsOK ==
    /\ call \in [Reporter -> CallShape]
    /\ \A w \in Reporter : call[w] # Idle => call[w].standing \in {0} \cup DOMAIN labels

AnswersOK ==
    \A a \in answered : a.rec \in Feed /\ a.label \in {0} \cup DOMAIN labels

EventsOK == \A e \in DOMAIN events : events[e].subject \in Subject

LedgerInv == IInv /\ CallsOK /\ AnswersOK /\ EventsOK /\ EvidenceOnRecord

\* A thread in the middle of record_outcome holds a record of the feed.
LEMMA BusyCall ==
  ASSUME CallsOK, NEW w \in Reporter, call[w].pc \in {"read", "filed"}
  PROVE  call[w] \in [pc: {"read", "filed"}, rec: Feed, standing: Nat]
<1>1. call[w] \in CallShape
  BY DEF CallsOK
<1>2. call[w] # Idle
  BY DEF Idle
<1>3. QED
  BY <1>1, <1>2 DEF CallShape

-----------------------------------------------------------------------------
(* The ledger as a client of the store.                                    *)

\* Every step of the ledger is a step of the store beneath it, or none.
LEMMA LedgerStepsTheStore ==
  ASSUME TypeOK, CallsOK, [LedgerNext]_vars
  PROVE  [Next]_storeVars
<1>1. ASSUME NEW w \in Reporter, AssertOutcome(w) PROVE AddLabel
  <2>1. PICK c : c = call[w]
    OBVIOUS
  <2>2. c \in [pc: {"read", "filed"}, rec: Feed, standing: Nat]
    BY <1>1, <2>1, BusyCall DEF AssertOutcome
  <2>3. c.rec \in Feed
    BY <2>2
  <2>4. add_label(c.rec.subject, NoDecision, OutcomeTarget, c.rec.source, c.rec.fact,
                  c.rec.override)
    BY <1>1, <2>1 DEF AssertOutcome
  <2>5. PICK s \in Subject, source \in Source, fact \in Fact, o \in BOOLEAN :
           s = c.rec.subject /\ source = c.rec.source /\ fact = c.rec.fact /\ o = c.rec.override
    BY <2>3
  <2>6. add_label(s, NoDecision, OutcomeTarget, source, fact, o)
    BY <2>4, <2>5
  <2>7. QED
    BY <2>6, IsAddLabel
<1>2. ASSUME MachineCall PROVE AddLabel
  <2>1. PICK d \in decided, fact \in Fact :
           add_label(SubjectOf[d], d, OutcomeTarget, "heuristic", fact, FALSE)
    BY <1>2 DEF MachineCall
  <2>2. d \in Decision
    BY Zenon DEF TypeOK
  <2>3. SubjectOf[d] \in Subject /\ d \in DecisionsAbout(SubjectOf[d])
    BY <2>2 DEF DecisionsAbout
  <2>4. QED
    BY <2>1, <2>3 DEF AddLabel
<1>3. ASSUME Disposition PROVE AddLabel
  BY <1>3 DEF Disposition, AddLabel
<1>4. CASE Crash \/ UNCHANGED vars \/ \E w \in Reporter : ReadStanding(w) \/ AppendEvent(w)
  BY <1>4 DEF Crash, vars, ReadStanding, AppendEvent
<1>5. QED
  BY <1>1, <1>2, <1>3, <1>4 DEF LedgerNext, record_outcome, Next

-----------------------------------------------------------------------------
(* The inductive step.                                                     *)

\* A row that carries a report goes on carrying it.
LEMMA CarriesStays ==
  ASSUME RowsKept, NEW i, NEW rec, Carries(i, rec)
  PROVE  Carries(i, rec)'
BY DEF RowsKept, Carries, OutcomesOf

\* The standing outcome a call read is a label of its subject.
LEMMA StandingIsOutcome ==
  ASSUME TypeOK, NEW s, StandingOutcome(s) # 0
  PROVE  StandingOutcome(s) \in StandingOutcomes(s)
<1>1. StandingOutcomes(s) # {} /\ StandingOutcomes(s) \subseteq Nat
  BY LabelRows DEF StandingOutcome, StandingOutcomes, OutcomesOf
<1>2. \E i \in StandingOutcomes(s) : \A j \in StandingOutcomes(s) : i <= j
  BY <1>1, FirstExists
<1>3. QED
  BY <1>1, <1>2 DEF StandingOutcome

LEMMA LedgerStarts == LedgerInit => LedgerInv
<1> SUFFICES ASSUME LedgerInit PROVE LedgerInv
  OBVIOUS
<1>1. IInv
  BY InitIInv DEF LedgerInit
<1>2. call \in [Reporter -> CallShape] /\ \A w \in Reporter : call[w] = Idle
  BY DEF LedgerInit, CallShape
<1>3. AnswersOK /\ EventsOK /\ EvidenceOnRecord
  BY DEF LedgerInit, AnswersOK, EventsOK, EvidenceOnRecord
<1>4. QED
  BY <1>1, <1>2, <1>3 DEF LedgerInv, CallsOK

\* What holds of the answered calls goes on holding: rows stay.
LEMMA AnswersStay ==
  ASSUME LedgerInv, RowsKept, UNCHANGED answered
  PROVE  AnswersOK' /\ EvidenceOnRecord'
<1>1. AnswersOK'
  BY DEF LedgerInv, AnswersOK, RowsKept
<1>2. ASSUME NEW a \in answered' PROVE \E i \in OutcomesOf(a.rec.subject)' :
           labels'[i].source = a.rec.source /\ labels'[i].fact = a.rec.fact
  <2>1. PICK i \in OutcomesOf(a.rec.subject) :
           labels[i].source = a.rec.source /\ labels[i].fact = a.rec.fact
    BY DEF LedgerInv, EvidenceOnRecord
  <2>2. QED
    BY <2>1 DEF RowsKept, OutcomesOf
<1>3. QED
  BY <1>1, <1>2 DEF EvidenceOnRecord

LEMMA CallsStay ==
  ASSUME CallsOK, RowsKept, UNCHANGED call
  PROVE  CallsOK'
BY DEF CallsOK, RowsKept

\* A duplicate is answered from the label that already says the same.
LEMMA ReadStandingInv ==
  ASSUME LedgerInv, NEW w \in Reporter, ReadStanding(w)
  PROVE  LedgerInv'
<1>1. UNCHANGED storeVars /\ UNCHANGED events
  BY DEF ReadStanding
<1>2. IInv' /\ RowsKept /\ EventsOK'
  BY <1>1, NextIInv, StepKeepsRows DEF LedgerInv, EventsOK
<1>3. PICK rec \in Feed :
        LET i == StandingOutcome(rec.subject)
        IN  IF Repeats(rec, i)
            THEN /\ answered' = answered \cup
                       {[rec |-> rec, resolution |-> "duplicate", label |-> 0]}
                 /\ UNCHANGED call
            ELSE /\ call' = [call EXCEPT ![w] = [pc |-> "read", rec |-> rec, standing |-> i]]
                 /\ UNCHANGED answered
  BY DEF ReadStanding
<1>4. PICK i : i = StandingOutcome(rec.subject)
  OBVIOUS
<1>5. i # 0 => i \in DOMAIN labels /\ i \in OutcomesOf(rec.subject)
  BY <1>4, StandingIsOutcome DEF LedgerInv, IInv, StandingOutcomes, OutcomesOf
<1>6. CASE Repeats(rec, i)
  <2> DEFINE b == [rec |-> rec, resolution |-> "duplicate", label |-> 0]
  <2>1. b.rec = rec /\ b.label = 0
    OBVIOUS
  <2>2. answered' = answered \cup {b} /\ UNCHANGED call
    BY <1>3, <1>4, <1>6
  <2> HIDE DEF b
  <2>3. AnswersOK'
    BY <1>1, <2>1, <2>2 DEF LedgerInv, AnswersOK, storeVars
  <2>4. i \in OutcomesOf(rec.subject) /\ labels[i].source = rec.source /\ labels[i].fact = rec.fact
    BY <1>5, <1>6 DEF Repeats
  <2>5. EvidenceOnRecord'
    BY <1>1, <2>1, <2>2, <2>4 DEF LedgerInv, EvidenceOnRecord, OutcomesOf, storeVars
  <2>6. QED
    BY <1>2, <2>2, <2>3, <2>5, CallsStay DEF LedgerInv
<1>7. CASE ~Repeats(rec, i)
  <2> DEFINE c == [pc |-> "read", rec |-> rec, standing |-> i]
  <2>1. call' = [call EXCEPT ![w] = c] /\ UNCHANGED answered
    BY <1>3, <1>4, <1>7
  <2>2. i \in {0} \cup DOMAIN labels /\ i \in Nat
    BY <1>5, LabelRows DEF LedgerInv, IInv
  <2>3. c \in CallShape /\ c.standing = i
    BY <2>2 DEF CallShape
  <2> HIDE DEF c
  <2>4. call \in [Reporter -> CallShape]
    BY DEF LedgerInv, CallsOK
  <2>5. CallsOK'
    BY <1>1, <2>1, <2>2, <2>3, <2>4 DEF LedgerInv, CallsOK, storeVars
  <2>6. QED
    BY <1>2, <2>1, <2>5, AnswersStay DEF LedgerInv
<1>8. QED
  BY <1>6, <1>7

LEMMA AppendEventInv ==
  ASSUME LedgerInv, NEW w \in Reporter, AppendEvent(w)
  PROVE  LedgerInv'
<1>1. UNCHANGED storeVars /\ UNCHANGED answered
  BY DEF AppendEvent
<1>2. IInv' /\ RowsKept
  BY <1>1, NextIInv, StepKeepsRows DEF LedgerInv
<1>3. AnswersOK' /\ EvidenceOnRecord'
  BY <1>1, <1>2, AnswersStay
<1>4. PICK c \in [pc: {"read", "filed"}, rec: Feed, standing: Nat] : c = call[w]
  BY BusyCall DEF LedgerInv, AppendEvent
<1>5. c.rec \in Feed /\ c.standing \in {0} \cup DOMAIN labels
  BY <1>4 DEF LedgerInv, CallsOK, Idle
<1>6. EventsOK'
  <2>1. c.rec.subject \in Subject
    BY <1>5
  <2>2. events' = [e \in DOMAIN events \cup {EventId(c.rec)} |->
                     IF e = EventId(c.rec) THEN Outcome(c.rec) ELSE events[e]]
    BY <1>4 DEF AppendEvent, Outcome
  <2>3. Outcome(c.rec).subject = c.rec.subject
    BY DEF Outcome
  <2>4. QED
    BY <2>1, <2>2, <2>3 DEF LedgerInv, EventsOK
<1>7. CallsOK'
  <2>1. PICK b : b = [c EXCEPT !.pc = "filed"]
    OBVIOUS
  <2>2. b \in CallShape /\ b.standing = c.standing
    BY <1>4, <2>1 DEF CallShape
  <2>3. call' = [call EXCEPT ![w] = b]
    BY <1>4, <2>1 DEF AppendEvent
  <2>4. call \in [Reporter -> CallShape]
    BY DEF LedgerInv, CallsOK
  <2>5. QED
    BY <1>1, <1>5, <2>2, <2>3, <2>4 DEF LedgerInv, CallsOK, storeVars
<1>8. QED
  BY <1>2, <1>3, <1>6, <1>7 DEF LedgerInv

\* The label of a report is its evidence.
LEMMA AssertOutcomeInv ==
  ASSUME LedgerInv, NEW w \in Reporter, AssertOutcome(w)
  PROVE  LedgerInv'
<1>1. PICK c \in [pc: {"read", "filed"}, rec: Feed, standing: Nat] : c = call[w]
  BY BusyCall DEF LedgerInv, AssertOutcome
<1>2. c.rec \in Feed
  BY <1>1
<1>3. [LedgerNext]_vars
  BY DEF LedgerNext, record_outcome
<1>4. IInv' /\ RowsKept
  BY <1>3, LedgerStepsTheStore, NextIInv, StepKeepsRows DEF LedgerInv, IInv
<1>5. PICK n : n = Len(labels) + 1
  OBVIOUS
<1>6. n \in DOMAIN labels' /\ n \in OutcomesOf(c.rec.subject)'
      /\ labels'[n].source = c.rec.source /\ labels'[n].fact = c.rec.fact
  <2>1. add_label(c.rec.subject, NoDecision, OutcomeTarget, c.rec.source, c.rec.fact,
                  c.rec.override)
    BY <1>1 DEF AssertOutcome
  <2>2. QED
    BY <1>5, <2>1, AddLabelWrites DEF LedgerInv, IInv, OutcomesOf
<1>7. PICK b : b = [rec |-> c.rec, resolution |-> Resolution(c), label |-> n]
  OBVIOUS
<1>8. b.rec = c.rec /\ b.label = n
  BY <1>7
<1>9. answered' = answered \cup {b}
  BY <1>1, <1>5, <1>7 DEF AssertOutcome
<1>10. AnswersOK'
  BY <1>2, <1>4, <1>6, <1>8, <1>9 DEF LedgerInv, AnswersOK, RowsKept
<1>11. EvidenceOnRecord'
  <2>1. ASSUME NEW a \in answered' PROVE \E i \in OutcomesOf(a.rec.subject)' :
             labels'[i].source = a.rec.source /\ labels'[i].fact = a.rec.fact
    <3>1. CASE a = b
      BY <1>6, <1>8, <3>1
    <3>2. CASE a \in answered
      <4>1. PICK i \in OutcomesOf(a.rec.subject) :
               labels[i].source = a.rec.source /\ labels[i].fact = a.rec.fact
        BY <3>2 DEF LedgerInv, EvidenceOnRecord
      <4>2. QED
        BY <1>4, <4>1 DEF RowsKept, OutcomesOf
    <3>3. QED
      BY <1>9, <3>1, <3>2
  <2>2. QED
    BY <2>1 DEF EvidenceOnRecord
<1>12. CallsOK'
  <2>1. call' = [call EXCEPT ![w] = Idle] /\ Idle \in CallShape
    BY DEF AssertOutcome, CallShape
  <2>2. QED
    BY <1>4, <2>1 DEF LedgerInv, CallsOK, RowsKept
<1>13. EventsOK'
  BY DEF AssertOutcome, LedgerInv, EventsOK
<1>14. QED
  BY <1>4, <1>10, <1>11, <1>12, <1>13 DEF LedgerInv

LEMMA LedgerStep == LedgerInv /\ [LedgerNext]_vars => LedgerInv'
<1> SUFFICES ASSUME LedgerInv, [LedgerNext]_vars PROVE LedgerInv'
  OBVIOUS
<1>1. IInv' /\ RowsKept
  BY LedgerStepsTheStore, NextIInv, StepKeepsRows DEF LedgerInv, IInv
<1>2. ASSUME NEW w \in Reporter, record_outcome(w) PROVE LedgerInv'
  BY <1>2, ReadStandingInv, AppendEventInv, AssertOutcomeInv DEF record_outcome
<1>3. CASE Crash
  <2>1. UNCHANGED <<events, answered>> /\ CallsOK'
    BY <1>1, <1>3 DEF Crash, CallsOK, CallShape
  <2>2. QED
    BY <1>1, <2>1, AnswersStay DEF LedgerInv, EventsOK
<1>4. CASE UNCHANGED ledgerVars
  BY <1>1, <1>4, AnswersStay, CallsStay DEF ledgerVars, LedgerInv, EventsOK
<1>5. QED
  BY <1>2, <1>3, <1>4 DEF LedgerNext, vars

-----------------------------------------------------------------------------
(* The theorems.                                                           *)

\* The invariant holds in every reachable state of store and ledger.
THEOREM LedgerInductive == LedgerSpec => []LedgerInv
<1>1. LedgerInit => LedgerInv
  BY LedgerStarts
<1>2. LedgerInv /\ [LedgerNext]_vars => LedgerInv'
  BY LedgerStep
<1>3. QED
  BY <1>1, <1>2, PTL DEF LedgerSpec

\* The ledger is a client of the labelling substrate: whatever its threads
\* interleave, the store sees log_decision and add_label calls only, so its
\* unique, strongest, append-only standing labels stay what they are.
THEOREM LedgerUsesTheStore == LedgerSpec => Spec
<1>1. LedgerInit => Init
  BY DEF LedgerInit
<1>2. LedgerInv /\ [LedgerNext]_vars => [Next]_storeVars
  BY LedgerStepsTheStore DEF LedgerInv, IInv
<1>3. QED
  BY <1>1, <1>2, LedgerInductive, PTL DEF LedgerSpec, Spec

\* Whatever a report decided from a stale reading, the claims that stand change
\* only as the abstract promise lets them.
THEOREM LedgerKeepsThePromise == LedgerSpec => ImplementsStandingLabels
BY LedgerUsesTheStore, Refinement

\* Every variable of the ledger keeps its range.
THEOREM LedgerTyped == LedgerSpec => []LedgerTypeOK
<1>1. ASSUME LedgerInv PROVE LedgerTypeOK
  <2>1. ASSUME NEW w \in Reporter, call[w] # Idle
        PROVE  call[w] \in [pc: {"read", "filed"}, rec: Feed, standing: Nat]
    BY <1>1, <2>1 DEF LedgerInv, CallsOK, CallShape
  <2>2. QED
    BY <1>1, <2>1 DEF LedgerInv, IInv, CallsOK, AnswersOK, EventsOK, LedgerTypeOK
<1>2. QED
  BY <1>1, LedgerInductive, PTL

\* Whatever record_outcome answered, the report is in the label history of
\* its subject: evidence that lost is on record like evidence that won.
THEOREM EvidenceIsKept == LedgerSpec => []EvidenceOnRecord
<1>1. LedgerInv => EvidenceOnRecord
  BY DEF LedgerInv
<1>2. QED
  BY <1>1, LedgerInductive, PTL

-----------------------------------------------------------------------------
(* Disagreements.                                                          *)

\* A subject with an outcome has a standing outcome: the one that stands in
\* the cell of the label is a label of the same subject.
LEMMA OutcomeStands ==
  ASSUME IInv, NEW s \in Subject, OutcomesOf(s) # {}
  PROVE  StandingOutcomes(s) # {}
<1>1. PICK i \in OutcomesOf(s) : TRUE
  OBVIOUS
<1>2. i \in DOMAIN labels /\ labels[i].subject = s /\ labels[i].target = OutcomeTarget
  BY DEF OutcomesOf
<1>3. Keyed(labels[i])
  BY <1>2 DEF Keyed
<1>4. PICK j \in DOMAIN labels : SameCell(i, j) /\ IsCurrent(labels[j])
  BY <1>2, <1>3 DEF IInv, OneStandingPerCell
<1>5. /\ CellOf(labels[i]).key = CellOf(labels[j]).key
      /\ CellOf(labels[i]).target = CellOf(labels[j]).target
  BY <1>4 DEF SameCell
<1>6. labels[j].target = OutcomeTarget
  BY <1>2, <1>5 DEF CellOf
<1>7. labels[j].subject = s
  <2>1. CASE labels[i].decision = NoDecision
    BY <1>2, <1>5, <2>1 DEF CellOf
  <2>2. CASE labels[i].decision # NoDecision
    <3>1. labels[j].decision = labels[i].decision
      BY <1>5, <2>2 DEF CellOf
    <3>2. QED
      BY <1>2, <2>2, <3>1 DEF IInv, LabelsJoinTheirDecision, Joined
  <2>3. QED
    BY <2>1, <2>2
<1>8. QED
  BY <1>4, <1>6, <1>7 DEF StandingOutcomes, OutcomesOf

\* A set of row ids that is not empty has a last one.
LEMMA LastExists ==
  ASSUME NEW n \in Nat, NEW T, T \subseteq 1..n, T # {}
  PROVE  \E x \in T : \A y \in T : y <= x
<1> DEFINE M == {n - x : x \in T}
<1>1. M \subseteq Nat /\ M # {}
  <2>1. \A x \in T : x \in Int /\ x <= n
    OBVIOUS
  <2>2. \A x \in T : n - x \in Nat
    BY <2>1
  <2>3. QED
    BY <2>2
<1>2. PICK m \in M : \A k \in M : m <= k
  BY <1>1, FirstExists
<1>3. PICK x \in T : m = n - x
  OBVIOUS
<1>4. ASSUME NEW y \in T PROVE y <= x
  <2>1. n - y \in M
    OBVIOUS
  <2>2. n - x <= n - y
    BY <1>2, <1>3, <2>1
  <2>3. QED
    BY <2>2
<1>5. QED
  BY <1>4

LEMMA RowsFinite ==
  ASSUME TypeOK, NEW T, T \subseteq DOMAIN labels
  PROVE  IsFiniteSet(T) /\ T \subseteq 1..Len(labels) /\ Len(labels) \in Nat
<1>1. DOMAIN labels = 1..Len(labels) /\ Len(labels) \in Nat
  BY LabelRows
<1>2. IsFiniteSet(1..Len(labels)) /\ T \in SUBSET (1..Len(labels))
  BY <1>1, FS_Interval
<1>3. QED
  BY <1>1, <1>2, FS_Subset

LEMMA AheadFinite ==
  ASSUME TypeOK, NEW s
  PROVE  IsFiniteSet(Ahead(s))
<1> DEFINE g == [j \in StandingRows |-> labels[j].subject]
           G == {labels[j].subject : j \in StandingRows}
<1>1. IsFiniteSet(StandingRows)
  BY RowsFinite DEF StandingRows
<1>2. IsFiniteSet(G)
  <2>1. g \in Surjection(StandingRows, G)
    BY DEF Surjection
  <2>2. QED
    BY <1>1, <2>1, FS_Surjection
<1>3. Ahead(s) \subseteq G
  BY DEF Ahead, StandingOutcomes, OutcomesOf, StandingRows
<1>4. QED
  BY <1>2, <1>3, FS_Subset

\* The rows found above a row of s are those of subjects ahead of s.
LEMMA FoundAhead ==
  ASSUME TypeOK, NEW s \in Subject, NEW i \in Found, labels[i].subject = s,
         \A j \in StandingOutcomes(s) : j <= i
  PROVE  Cardinality(Newer(Found, i)) <= Cardinality(Ahead(s))
<1> DEFINE F == Newer(Found, i)
           f == [j \in F |-> labels[j].subject]
<1>1. Found \subseteq labels_for_target /\ labels_for_target \subseteq StandingRows
      /\ StandingRows \subseteq DOMAIN labels /\ DOMAIN labels \subseteq Nat
  BY LabelRows DEF Found, labels_for_target, StandingRows
<1>2. ASSUME NEW j \in F PROVE labels[j].subject \in Ahead(s)
  <2>1. j \in Found /\ i < j
    BY DEF Newer
  <2>2. labels[j].subject \in Subject
    BY <1>1, <2>1, LabelRows DEF Found, TypeOK, LabelRow
  <2>3. Disputed(labels[j].subject) /\ j \in StandingOutcomes(labels[j].subject)
    BY <1>1, <2>1 DEF Found, StandingRows, StandingOutcomes, OutcomesOf
  <2>4. \A k \in StandingOutcomes(s) : k < j
    BY <1>1, <2>1 DEF StandingOutcomes, OutcomesOf
  <2>5. QED
    BY <2>2, <2>3, <2>4 DEF Ahead
<1>3. ASSUME NEW j \in F, NEW k \in F, j # k PROVE labels[j].subject # labels[k].subject
  <2>1. j \in Found /\ k \in Found /\ j \in Nat /\ k \in Nat
    BY <1>1 DEF Newer
  <2>2. j \in labels_for_target /\ k \in labels_for_target
    BY <1>1, <2>1
  <2>3. CASE j < k
    BY <2>1, <2>2, <2>3 DEF Found, Newer
  <2>4. CASE k < j
    BY <2>1, <2>2, <2>4 DEF Found, Newer
  <2>5. QED
    BY <1>3, <2>1, <2>3, <2>4
<1>4. f \in [F -> Ahead(s)] /\ \A j, k \in F : j # k => f[j] # f[k]
  BY <1>2, <1>3
<1>5. IsFiniteSet(Ahead(s))
  BY AheadFinite
<1>6. f \in Injection(F, Ahead(s))
  BY <1>4 DEF Injection, IsInjective
<1>7. Cardinality(F) <= Cardinality(Ahead(s))
  BY <1>5, <1>6, FS_Injection
<1>8. QED
  BY <1>7

\* Once two gold sources were answered with different outcomes for one
\* subject, disagreements() lists it, whichever of them stands now, unless
\* Limit newer subjects in dispute or the labels it reads leave no room.
THEOREM DisagreementIsSurfaced == LedgerSpec => []DisagreementSurfaced
<1>1. ASSUME LedgerInv PROVE DisagreementSurfaced
  <2> SUFFICES ASSUME NEW a \in answered, NEW b \in answered,
                      a.rec.subject = b.rec.subject,
                      {a.rec.source, b.rec.source} \subseteq GOLD_SOURCES,
                      a.rec.fact.outcome # b.rec.fact.outcome
               PROVE  \/ a.rec.subject \in disagreements
                      \/ Cardinality(Ahead(a.rec.subject)) >= Limit
                      \/ \A i \in StandingOutcomes(a.rec.subject) :
                            Cardinality(Newer(StandingRows, i)) >= Limit * ScanFactor
    BY DEF DisagreementSurfaced
  <2>0. TypeOK
    BY <1>1 DEF LedgerInv, IInv
  <2>1. PICK s \in Subject : s = a.rec.subject
    BY <1>1 DEF LedgerInv, AnswersOK
  <2>2. PICK i \in OutcomesOf(s) : labels[i].source = a.rec.source /\ labels[i].fact = a.rec.fact
    BY <1>1, <2>1 DEF LedgerInv, EvidenceOnRecord
  <2>3. PICK j \in OutcomesOf(s) : labels[j].source = b.rec.source /\ labels[j].fact = b.rec.fact
    BY <1>1, <2>1 DEF LedgerInv, EvidenceOnRecord
  <2>4. i \in GoldHistory(s) /\ j \in GoldHistory(s)
    BY <2>2, <2>3 DEF GoldHistory
  <2>5. Disputed(s)
    BY <2>2, <2>3, <2>4 DEF Disputed
  <2>6. StandingOutcomes(s) # {} /\ StandingOutcomes(s) \subseteq DOMAIN labels
        /\ StandingOutcomes(s) \subseteq StandingRows
    BY <1>1, <2>2, OutcomeStands DEF LedgerInv, StandingOutcomes, OutcomesOf, StandingRows
  <2>7. PICK k \in StandingOutcomes(s) : \A y \in StandingOutcomes(s) : y <= k
    BY <2>0, <2>6, RowsFinite, LastExists
  <2>8. labels[k].subject = s /\ k \in StandingRows /\ k \in Nat /\ s # NoSubject
    BY <2>0, <2>6, LabelRows, IdAssumption DEF StandingOutcomes, OutcomesOf
  <2>9. CASE k \notin labels_for_target
    <3>1. ASSUME NEW y \in StandingOutcomes(s)
          PROVE  Cardinality(Newer(StandingRows, y)) >= Limit * ScanFactor
      <4>1. Newer(StandingRows, k) \subseteq Newer(StandingRows, y)
        BY <2>0, <2>6, <2>7, <2>8, LabelRows DEF Newer, StandingRows
      <4>2. IsFiniteSet(Newer(StandingRows, y))
        BY <2>0, RowsFinite DEF Newer, StandingRows
      <4>3. Cardinality(Newer(StandingRows, k)) <= Cardinality(Newer(StandingRows, y))
            /\ Cardinality(Newer(StandingRows, k)) \in Nat
            /\ Cardinality(Newer(StandingRows, y)) \in Nat
        BY <4>1, <4>2, FS_Subset, FS_CardinalityType
      <4>4. ~(Cardinality(Newer(StandingRows, k)) < Limit * ScanFactor)
        BY <2>8, <2>9 DEF labels_for_target
      <4>5. Limit * ScanFactor \in Nat
        OBVIOUS
      <4>6. QED
        BY <4>3, <4>4, <4>5
    <3>2. QED
      BY <2>1, <3>1
  <2>10. CASE k \in labels_for_target
    <3>1. ASSUME NEW y \in Newer(labels_for_target, k) PROVE labels[y].subject # s
      <4>1. y \in StandingRows /\ k < y /\ y \in Nat
        BY <2>0, LabelRows DEF Newer, labels_for_target, StandingRows
      <4>2. y \notin StandingOutcomes(s)
        BY <2>7, <2>8, <4>1
      <4>3. QED
        BY <4>1, <4>2 DEF StandingRows, StandingOutcomes, OutcomesOf
    <3>2. k \in Found
      BY <2>5, <2>8, <2>10, <3>1 DEF Found
    <3>3. CASE Cardinality(Newer(Found, k)) < Limit
      BY <2>1, <2>8, <3>2, <3>3 DEF disagreements
    <3>4. CASE ~(Cardinality(Newer(Found, k)) < Limit)
      <4>1. Cardinality(Newer(Found, k)) <= Cardinality(Ahead(s))
        BY <2>0, <2>7, <2>8, <3>2, FoundAhead
      <4>2. IsFiniteSet(Newer(Found, k))
        BY <2>0, RowsFinite DEF Newer, Found, labels_for_target, StandingRows
      <4>3. Cardinality(Ahead(s)) \in Nat
        BY <2>0, AheadFinite, FS_CardinalityType
      <4>4. QED
        BY <2>1, <3>4, <4>1, <4>2, <4>3, FS_CardinalityType
    <3>5. QED
      BY <3>3, <3>4
  <2>11. QED
    BY <2>9, <2>10
<1>2. QED
  BY <1>1, LedgerInductive, PTL

-----------------------------------------------------------------------------
(* The event beside the label.                                             *)

\* The event of q may stand where that of rec was written.
Shares(q, rec) ==
    /\ q.source = rec.source
    /\ q.reference = rec.reference
    /\ rec.reference = NoReference => Outcome(q) = Outcome(rec)

Filed(rec) ==
    /\ EventId(rec) \in DOMAIN events
    /\ \E q \in Feed : events[EventId(rec)] = Outcome(q) /\ Shares(q, rec)

\* An event id says the source, and the reference or the whole outcome.
LEMMA SameEventShares ==
  ASSUME NEW q \in Feed, NEW rec \in Feed, EventId(q) = EventId(rec)
  PROVE  Shares(q, rec)
<1>1. CASE q.reference # NoReference /\ rec.reference # NoReference
  BY <1>1 DEF EventId, Shares
<1>2. CASE q.reference = NoReference /\ rec.reference = NoReference
  BY <1>2 DEF EventId, Shares, Outcome
<1>3. CASE (q.reference = NoReference) # (rec.reference = NoReference)
  <2>1. Len(<<q.source, q.reference>>) = 2 /\ Len(<<q.source, q.subject, q.fact>>) = 3
    OBVIOUS
  <2>2. Len(<<rec.source, rec.reference>>) = 2 /\ Len(<<rec.source, rec.subject, rec.fact>>) = 3
    OBVIOUS
  <2>3. QED
    BY <1>3, <2>1, <2>2 DEF EventId
<1>4. QED
  BY <1>1, <1>2, <1>3

EventsKept ==
    /\ \A w \in Reporter : call[w].pc = "filed" => Filed(call[w].rec)
    /\ \A a \in answered : a.label # 0 => Filed(a.rec)

LEMMA EventsKeptStep ==
  ASSUME LedgerInv, EventsKept, [LedgerNext]_vars
  PROVE  EventsKept'
<1>0. call \in [Reporter -> CallShape]
  BY DEF LedgerInv, CallsOK
<1>1. ASSUME NEW w \in Reporter, ReadStanding(w) PROVE EventsKept'
  <2>1. UNCHANGED events
    BY <1>1 DEF ReadStanding
  <2>2. PICK rec \in Feed :
          \/ answered' = answered \cup {[rec |-> rec, resolution |-> "duplicate", label |-> 0]}
             /\ UNCHANGED call
          \/ /\ \E i : call' = [call EXCEPT ![w] = [pc |-> "read", rec |-> rec, standing |-> i]]
             /\ UNCHANGED answered
    BY <1>1 DEF ReadStanding
  <2>3. \A v \in Reporter : call'[v].pc = "filed" => call'[v] = call[v]
    BY <1>0, <2>2
  <2>4. \A a \in answered' : a.label # 0 => a \in answered
    BY <2>2
  <2>5. QED
    BY <2>1, <2>3, <2>4 DEF EventsKept, Filed
<1>2. ASSUME NEW w \in Reporter, AppendEvent(w) PROVE EventsKept'
  <2>1. PICK c \in [pc: {"read", "filed"}, rec: Feed, standing: Nat] : c = call[w]
    BY <1>2, BusyCall DEF LedgerInv, AppendEvent
  <2>2. PICK rec \in Feed : rec = c.rec
    BY <2>1
  <2>3. PICK id : id = EventId(rec)
    OBVIOUS
  <2>4. events' = [e \in DOMAIN events \cup {id} |-> IF e = id THEN Outcome(rec) ELSE events[e]]
    BY <1>2, <2>1, <2>2, <2>3 DEF AppendEvent, Outcome
  <2>5. ASSUME NEW q \in Feed, Filed(q) PROVE Filed(q)'
    <3>1. PICK r \in Feed : events[EventId(q)] = Outcome(r) /\ Shares(r, q)
      BY <2>5 DEF Filed
    <3>2. CASE EventId(q) = id
      <4>1. Shares(rec, q)
        BY <2>3, <3>2, SameEventShares
      <4>2. events'[EventId(q)] = Outcome(rec) /\ EventId(q) \in DOMAIN events'
        BY <2>4, <3>2
      <4>3. QED
        BY <4>1, <4>2 DEF Filed
    <3>3. CASE EventId(q) # id
      BY <2>4, <2>5, <3>1, <3>3 DEF Filed
    <3>4. QED
      BY <3>2, <3>3
  <2>6. Filed(rec)'
    <3>1. Shares(rec, rec)
      BY DEF Shares
    <3>2. QED
      BY <2>3, <2>4, <3>1 DEF Filed
  <2>7. /\ \A v \in Reporter \ {w} : call'[v] = call[v]
        /\ call'[w].rec = rec
    BY <1>0, <1>2, <2>1, <2>2 DEF AppendEvent
  <2>8. ASSUME NEW v \in Reporter, call'[v].pc = "filed" PROVE Filed(call[v].rec)'
    <3>1. CASE v = w
      BY <2>6, <2>7, <3>1
    <3>2. CASE v # w
      <4>1. PICK q : q = call[v].rec
        OBVIOUS
      <4>2. call'[v] = call[v] /\ call[v].pc = "filed"
        BY <2>7, <2>8, <3>2
      <4>3. q \in Feed
        BY <4>1, <4>2, BusyCall DEF LedgerInv
      <4>4. Filed(q)
        BY <4>1, <4>2 DEF EventsKept
      <4>5. QED
        BY <2>5, <4>1, <4>2, <4>3, <4>4
    <3>3. QED
      BY <3>1, <3>2
  <2>9. ASSUME NEW a \in answered', a.label # 0 PROVE Filed(a.rec)'
    BY <1>2, <2>5, <2>9 DEF AppendEvent, EventsKept, LedgerInv, AnswersOK
  <2>10. QED
    BY <2>8, <2>9 DEF EventsKept
<1>3. ASSUME NEW w \in Reporter, AssertOutcome(w) PROVE EventsKept'
  <2>1. UNCHANGED events /\ call' = [call EXCEPT ![w] = Idle]
    BY <1>3 DEF AssertOutcome
  <2>2. \A v \in Reporter : call'[v].pc = "filed" => call'[v] = call[v]
    BY <1>0, <2>1 DEF Idle
  <2>3. PICK n : answered' = answered \cup
                   {[rec |-> call[w].rec, resolution |-> Resolution(call[w]), label |-> n]}
    BY <1>3 DEF AssertOutcome
  <2>4. Filed(call[w].rec)
    BY <1>3 DEF AssertOutcome, EventsKept
  <2>5. \A a \in answered' : a \in answered \/ a.rec = call[w].rec
    BY <2>3
  <2>6. QED
    BY <2>1, <2>2, <2>4, <2>5 DEF EventsKept, Filed
<1>4. CASE Crash
  BY <1>4 DEF Crash, EventsKept, Filed, Idle
<1>5. CASE UNCHANGED ledgerVars
  BY <1>5 DEF ledgerVars, EventsKept, Filed
<1>6. QED
  BY <1>1, <1>2, <1>3, <1>4, <1>5 DEF LedgerNext, record_outcome, vars

\* An outcome is written twice, and there is an event beside its label ever
\* after: its own, unless its own source used its reference once more.
THEOREM EventIsKept == LedgerSpec => []EventYieldsToItsReference
<1>1. LedgerInit => EventsKept
  BY DEF LedgerInit, EventsKept, Idle
<1>2. LedgerInv /\ EventsKept /\ [LedgerNext]_vars => EventsKept'
  BY EventsKeptStep
<1>3. EventsKept => EventYieldsToItsReference
  BY DEF EventsKept, Filed, Shares, EventYieldsToItsReference
<1>4. QED
  BY <1>1, <1>2, <1>3, LedgerInductive, PTL DEF LedgerSpec
=============================================================================
