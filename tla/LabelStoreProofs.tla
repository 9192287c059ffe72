-------------------------- MODULE LabelStoreProofs --------------------------
(***************************************************************************)
(* Proofs about LabelStore, for every set of subjects, decisions, targets, *)
(* sources and facts, and any number of labels.                            *)
(***************************************************************************)
EXTENDS LabelStore, SequenceTheorems, TLAPS

USE IdAssumption

\* Authorities can be compared: every source, known or not, has a number.
LEMMA PrecedenceIsNat == ASSUME NEW source PROVE precedence_of(source) \in Nat
<1>1. DOMAIN SOURCE_PRECEDENCE = {"law_enforcement", "confirmed_loss", "chargeback",
                                  "analyst", "victim_report", "consortium", "heuristic"}
  BY DEF SOURCE_PRECEDENCE
<1>2. \A k \in DOMAIN SOURCE_PRECEDENCE : SOURCE_PRECEDENCE[k] \in Nat
  BY <1>1 DEF SOURCE_PRECEDENCE
<1>3. QED
  BY <1>2 DEF precedence_of

-----------------------------------------------------------------------------
(* What one add_label does to the table, with key resolution gone: a row   *)
(* is appended, and either it wins and buries the standing rivals of its   *)
(* cell, or it loses and is born buried by one of them.                    *)

Rivals(row) ==
    {i \in DOMAIN labels : /\ Keyed(row)
                           /\ CellOf(labels[i]) = CellOf(row)
                           /\ IsCurrent(labels[i])}

Wins(row, hit) ==
    /\ hit = Rivals(row)
    /\ IsCurrent(row)
    /\ row.override => hit # {}
    /\ \/ row.override
       \/ \A j \in hit : precedence_of(labels[j].source) <= precedence_of(row.source)

Loses(row, hit) ==
    /\ hit = {}
    /\ ~row.override
    /\ \E j \in Rivals(row) :
          /\ row.superseded_by = j
          /\ precedence_of(row.source) < precedence_of(labels[j].source)

Buried(row, id) == [row EXCEPT !.superseded_by = id]

Appended(row, hit) ==
    labels' = [i \in 1..(Len(labels) + 1) |->
                 IF i = Len(labels) + 1 THEN row
                 ELSE IF i \in hit THEN Buried(labels[i], Len(labels) + 1)
                 ELSE labels[i]]

\* A label is left without a decision only when its subject has none yet.
Linked(row) ==
    row.subject # NoSubject => row.decision # NoDecision \/ latest[row.subject] = NoDecision

Adds(row, hit) ==
    /\ Appended(row, hit)
    /\ Joined(row)
    /\ Linked(row)
    /\ Wins(row, hit) \/ Loses(row, hit)
    /\ UNCHANGED <<decided, latest>>

\* Burying a row changes nothing but the id that buried it.
LEMMA BuriedRow ==
  ASSUME NEW row \in LabelRow, NEW id \in Nat
  PROVE  /\ Buried(row, id) \in LabelRow
         /\ Buried(row, id).superseded_by = id
         /\ CellOf(Buried(row, id)) = CellOf(row)
         /\ Keyed(Buried(row, id)) <=> Keyed(row)
         /\ Buried(row, id).source = row.source
         /\ Buried(row, id).fact = row.fact
         /\ Buried(row, id).override = row.override
         /\ Buried(row, id).decision = row.decision
         /\ Buried(row, id).subject = row.subject
         /\ Buried(row, id).target = row.target
BY DEF Buried, LabelRow, CellOf, Keyed

\* The rows the UPDATE of add_label selects are the standing rows of the
\* resolved cell: a subject without a decision has no decision-keyed label.
LEMMA StandingIsRivals ==
  ASSUME TypeOK, LabelsJoinTheirDecision,
         NEW s \in Subject \cup {NoSubject}, NEW d \in {NoDecision} \cup DecisionsAbout(s),
         NEW t \in Target, NEW row \in LabelRow,
         row.subject = s, row.decision = Resolve(s, d), row.target = t
  PROVE  Standing(s, Resolve(s, d), t) = Rivals(row)
<1> DEFINE r == Resolve(s, d)
<1> DOMAIN labels = 1..Len(labels) /\ \A i \in DOMAIN labels : labels[i] \in LabelRow
  BY LenProperties, ElementOfSeq DEF TypeOK
<1>1. CASE r # NoDecision
  <2>1. \A i \in DOMAIN labels :
           Matches(labels[i], s, r) /\ labels[i].target = t <=> CellOf(labels[i]) = CellOf(row)
    BY <1>1 DEF Matches, CellOf, LabelRow
  <2>2. Keyed(row)
    BY <1>1 DEF Keyed
  <2>3. QED
    BY <2>1, <2>2 DEF Standing, Rivals, IsCurrent
<1>2. CASE r = NoDecision /\ s # NoSubject
  <2>1. s \in Subject /\ d = NoDecision /\ latest[s] = NoDecision
    BY <1>2 DEF Resolve, DecisionsAbout
  <2>2. \A i \in DOMAIN labels : labels[i].subject = s => labels[i].decision = NoDecision
    BY <2>1 DEF LabelsJoinTheirDecision, Joined
  <2>3. \A i \in DOMAIN labels :
           Matches(labels[i], s, r) /\ labels[i].target = t <=> CellOf(labels[i]) = CellOf(row)
    BY <1>2, <2>2 DEF Matches, CellOf, LabelRow
  <2>4. Keyed(row)
    BY <1>2 DEF Keyed
  <2>5. QED
    BY <2>3, <2>4 DEF Standing, Rivals, IsCurrent
<1>3. CASE r = NoDecision /\ s = NoSubject
  BY <1>3 DEF Standing, Rivals, Matches, Keyed
<1>4. QED
  BY <1>1, <1>2, <1>3

\* Rows of one cell are keyed alike.
LEMMA CellKeyed ==
  ASSUME NEW row1, NEW row2, CellOf(row1) = CellOf(row2), Keyed(row1)
  PROVE  Keyed(row2)
<1>1. CellOf(row1).key = CellOf(row2).key
  OBVIOUS
<1>2. QED
  BY <1>1 DEF CellOf, Keyed

\* Standing rivals of a row: at most one.
LEMMA OneRival ==
  ASSUME OneStandingPerCell, NEW row, NEW i \in Rivals(row), NEW j \in Rivals(row)
  PROVE  i = j
<1>1. Keyed(labels[i])
  BY CellKeyed DEF Rivals
<1>2. QED
  BY <1>1 DEF OneStandingPerCell, Rivals, SameCell

\* Every add_label call is an Adds step.
LEMMA AddLabelAdds ==
  ASSUME TypeOK, LabelsJoinTheirDecision, OneStandingPerCell,
         NEW s \in Subject \cup {NoSubject}, NEW d \in {NoDecision} \cup DecisionsAbout(s),
         NEW t \in Target, NEW source \in Source, NEW fact \in Fact, NEW o \in BOOLEAN,
         add_label(s, d, t, source, fact, o)
  PROVE  \E row \in LabelRow : \E hit \in SUBSET DOMAIN labels : Adds(row, hit)
<1> DEFINE r == Resolve(s, d)
           st == Standing(s, r, t)
           lost == Outranked(st, source, o)
           row == [subject |-> s, decision |-> r, target |-> t, source |-> source,
                   fact |-> fact, override |-> o /\ st # {},
                   superseded_by |-> IF lost THEN Incumbent(st) ELSE Current]
           hit == IF lost THEN {} ELSE st
<1>1. Len(labels) \in Nat /\ DOMAIN labels = 1..Len(labels)
  BY LenProperties DEF TypeOK
<1>2. r \in Decision \cup {NoDecision}
  BY DEF Resolve, DecisionsAbout, TypeOK
<1>3. st \subseteq DOMAIN labels
  BY DEF Standing
<1>4. lost => Incumbent(st) \in st
  BY DEF Outranked, Incumbent
<1>5. (o /\ st # {}) \in BOOLEAN
  OBVIOUS
<1>6. row \in LabelRow
  <2>1. (IF lost THEN Incumbent(st) ELSE Current) \in Nat
    BY <1>1, <1>3, <1>4 DEF Current
  <2>2. QED
    BY <1>2, <1>5, <2>1 DEF LabelRow
<1>7. st = Rivals(row)
  <2>1. row.subject = s /\ row.decision = Resolve(s, d) /\ row.target = t
    OBVIOUS
  <2>2. QED
    BY <1>6, <2>1, StandingIsRivals
<1>8. Appended(row, hit)
  BY DEF add_label, Appended, Buried
<1>9. Joined(row)
  BY DEF Joined, Resolve, DecisionsAbout, LabelsJoinTheirDecision, TypeOK
<1>9a. Linked(row)
  BY DEF Linked, Resolve, DecisionsAbout
<1>10. Wins(row, hit) \/ Loses(row, hit)
  <2>1. CASE lost
    <3>1. row.superseded_by = Incumbent(st) /\ Incumbent(st) \in Rivals(row)
      BY <2>1, <1>4, <1>7
    <3>2. precedence_of(row.source) < precedence_of(labels[Incumbent(st)].source)
      BY <2>1 DEF Outranked
    <3>3. ~row.override
      BY <2>1 DEF Outranked
    <3>4. QED
      BY <2>1, <3>1, <3>2, <3>3 DEF Loses
  <2>2. CASE ~lost
    <3>1. hit = Rivals(row) /\ IsCurrent(row) /\ (row.override => hit # {})
      BY <2>2, <1>7 DEF IsCurrent
    <3>2. ASSUME ~row.override, NEW j \in hit
          PROVE  precedence_of(labels[j].source) <= precedence_of(row.source)
      <4>1. st # {} /\ ~o
        BY <2>2, <3>2
      <4>2. Incumbent(st) \in st
        BY <4>1 DEF Incumbent
      <4>3. j = Incumbent(st)
        <5>1. j \in Rivals(row) /\ Incumbent(st) \in Rivals(row)
          BY <2>2, <3>2, <4>2, <1>7
        <5> HIDE DEF row
        <5>2. QED
          BY <5>1, OneRival
      <4>4. ~(precedence_of(source) < precedence_of(labels[Incumbent(st)].source))
        BY <2>2, <4>1 DEF Outranked
      <4>5. QED
        BY <4>3, <4>4, PrecedenceIsNat
    <3>3. QED
      BY <3>1, <3>2 DEF Wins
  <2>3. QED
    BY <2>1, <2>2
<1>11. UNCHANGED <<decided, latest>>
  BY DEF add_label
<1>12. hit \in SUBSET DOMAIN labels
  BY <1>3
<1>13. Adds(row, hit)
  BY <1>8, <1>9, <1>10, <1>11, <1>9a DEF Adds
<1>14. QED
  BY <1>6, <1>12, <1>13

-----------------------------------------------------------------------------
(* What a step does to the labels table.                                   *)

\* Rows that once were there are there, and say what they said.
RowsKept ==
    \A i \in DOMAIN labels :
        /\ i \in DOMAIN labels'
        /\ labels'[i].subject = labels[i].subject
        /\ labels'[i].target = labels[i].target
        /\ labels'[i].source = labels[i].source
        /\ labels'[i].fact = labels[i].fact

LEMMA LabelRows ==
  ASSUME TypeOK
  PROVE  /\ Len(labels) \in Nat /\ DOMAIN labels = 1..Len(labels)
         /\ \A i \in DOMAIN labels : labels[i] \in LabelRow
BY LenProperties, ElementOfSeq DEF TypeOK

\* add_label writes the label it was asked for and keeps the others.
LEMMA AddLabelWrites ==
  ASSUME TypeOK, NEW s, NEW d, NEW t, NEW source, NEW fact, NEW o,
         add_label(s, d, t, source, fact, o)
  PROVE  /\ RowsKept
         /\ Len(labels) + 1 \in DOMAIN labels'
         /\ labels'[Len(labels) + 1].subject = s
         /\ labels'[Len(labels) + 1].target = t
         /\ labels'[Len(labels) + 1].source = source
         /\ labels'[Len(labels) + 1].fact = fact
<1> DEFINE id == Len(labels) + 1
           st == Standing(s, Resolve(s, d), t)
           lost == Outranked(st, source, o)
           row == [subject |-> s, decision |-> Resolve(s, d), target |-> t,
                   source |-> source, fact |-> fact, override |-> o /\ st # {},
                   superseded_by |-> IF lost THEN Incumbent(st) ELSE Current]
           e(i) == IF i = id THEN row
                   ELSE IF i \in st /\ ~lost THEN Buried(labels[i], id) ELSE labels[i]
<1>1. labels' = [i \in 1..id |-> e(i)]
  BY DEF add_label, Buried
<1>2. row.subject = s /\ row.target = t /\ row.source = source /\ row.fact = fact
  OBVIOUS
<1>3. ASSUME NEW i \in DOMAIN labels
      PROVE  /\ i \in 1..id /\ e(i).subject = labels[i].subject
             /\ e(i).target = labels[i].target /\ e(i).source = labels[i].source
             /\ e(i).fact = labels[i].fact
  <2>1. i # id /\ i \in 1..id /\ id \in Nat /\ labels[i] \in LabelRow
    BY LabelRows
  <2>2. e(i) = Buried(labels[i], id) \/ e(i) = labels[i]
    BY <2>1
  <2> HIDE DEF e, id
  <2>3. QED
    BY <2>1, <2>2, BuriedRow
<1>4. id \in 1..id /\ e(id) = row
  BY LabelRows
<1> HIDE DEF e, row, id
<1>5. RowsKept
  BY <1>1, <1>3 DEF RowsKept
<1>6. id \in DOMAIN labels' /\ labels'[id] = row
  BY <1>1, <1>4
<1>7. QED
  BY <1>2, <1>5, <1>6 DEF id

LEMMA IsAddLabel ==
  ASSUME NEW s \in Subject \cup {NoSubject}, NEW d \in {NoDecision} \cup DecisionsAbout(s),
         NEW t \in Target, NEW source \in Source, NEW fact \in Fact, NEW o \in BOOLEAN,
         add_label(s, d, t, source, fact, o)
  PROVE  AddLabel
BY DEF AddLabel

-----------------------------------------------------------------------------
(* The invariants across an Adds step.                                     *)

\* The table after an Adds step, row by row.
LEMMA AddsRows ==
  ASSUME TypeOK, NEW row \in LabelRow, NEW hit \in SUBSET DOMAIN labels,
         Appended(row, hit)
  PROVE  /\ Len(labels) \in Nat
         /\ DOMAIN labels = 1..Len(labels)
         /\ labels' \in Seq(LabelRow)
         /\ Len(labels') = Len(labels) + 1
         /\ DOMAIN labels' = 1..(Len(labels) + 1)
         /\ labels'[Len(labels) + 1] = row
         /\ \A i \in DOMAIN labels :
              /\ labels[i] \in LabelRow
              /\ i \notin hit => labels'[i] = labels[i]
              /\ i \in hit => labels'[i] = Buried(labels[i], Len(labels) + 1)
<1> DEFINE n == Len(labels)
           e(i) == IF i = n + 1 THEN row
                   ELSE IF i \in hit THEN Buried(labels[i], n + 1) ELSE labels[i]
<1>1. n \in Nat /\ DOMAIN labels = 1..n
  BY LenProperties DEF TypeOK
<1>2. \A i \in DOMAIN labels : labels[i] \in LabelRow
  BY <1>1, ElementOfSeq DEF TypeOK
<1>3. labels' = [i \in 1..(n + 1) |-> e(i)]
  BY DEF Appended
<1>4. \A i \in 1..(n + 1) : e(i) \in LabelRow
  <2> TAKE i \in 1..(n + 1)
  <2>1. CASE i = n + 1
    BY <2>1
  <2>2. CASE i # n + 1
    <3>1. i \in DOMAIN labels
      BY <1>1, <2>2
    <3>2. labels[i] \in LabelRow /\ Buried(labels[i], n + 1) \in LabelRow
      BY <1>1, <1>2, <3>1, BuriedRow
    <3>3. QED
      BY <2>2, <3>2
  <2>3. QED
    BY <2>1, <2>2
<1>5. n + 1 \in Nat
  BY <1>1
<1> HIDE DEF e
<1>6. [i \in 1..(n + 1) |-> e(i)] \in Seq(LabelRow)
  BY <1>4, <1>5, IsASeq
<1>7. Len(labels') = n + 1
  BY <1>3, <1>5, <1>6, LenProperties
<1>8. labels'[n + 1] = row
  BY <1>1, <1>3 DEF e
<1>9. ASSUME NEW i \in DOMAIN labels
      PROVE  /\ i \notin hit => labels'[i] = labels[i]
             /\ i \in hit => labels'[i] = Buried(labels[i], n + 1)
  BY <1>1, <1>3 DEF e
<1>10. QED
  BY <1>1, <1>2, <1>3, <1>6, <1>7, <1>8, <1>9

\* What an Adds step preserves of a row, and what it may bury.
LEMMA AddsKeeps ==
  ASSUME TypeOK, NEW row \in LabelRow, NEW hit \in SUBSET DOMAIN labels,
         Appended(row, hit), NEW i \in DOMAIN labels
  PROVE  /\ i \in DOMAIN labels'
         /\ CellOf(labels'[i]) = CellOf(labels[i])
         /\ Keyed(labels'[i]) <=> Keyed(labels[i])
         /\ labels'[i].source = labels[i].source
         /\ labels'[i].fact = labels[i].fact
         /\ labels'[i].override = labels[i].override
         /\ labels'[i].decision = labels[i].decision
         /\ labels'[i].subject = labels[i].subject
         /\ i \notin hit => labels'[i].superseded_by = labels[i].superseded_by
         /\ i \in hit => labels'[i].superseded_by = Len(labels) + 1
<1>1. CASE i \in hit
  <2>1. labels'[i] = Buried(labels[i], Len(labels) + 1) /\ labels[i] \in LabelRow
    BY <1>1, AddsRows
  <2>2. Len(labels) + 1 \in Nat
    BY AddsRows
  <2>3. i \in DOMAIN labels'
    BY AddsRows
  <2>4. QED
    BY <1>1, <2>1, <2>2, <2>3, BuriedRow
<1>2. CASE i \notin hit
  <2>1. labels'[i] = labels[i]
    BY <1>2, AddsRows
  <2>2. i \in DOMAIN labels'
    BY AddsRows
  <2>3. QED
    BY <1>2, <2>1, <2>2
<1>3. QED
  BY <1>1, <1>2

LEMMA AddsTypeOK ==
  ASSUME TypeOK, NEW row \in LabelRow, NEW hit \in SUBSET DOMAIN labels, Adds(row, hit)
  PROVE  TypeOK'
BY AddsRows DEF Adds, TypeOK

LEMMA AddsJoined ==
  ASSUME TypeOK, LabelsJoinTheirDecision,
         NEW row \in LabelRow, NEW hit \in SUBSET DOMAIN labels, Adds(row, hit)
  PROVE  LabelsJoinTheirDecision'
<1>1. Appended(row, hit) /\ Joined(row) /\ decided' = decided /\ latest' = latest
  BY DEF Adds
<1>2. \A i \in DOMAIN labels' : i = Len(labels) + 1 \/ i \in DOMAIN labels
  BY <1>1, AddsRows
<1>3. ASSUME NEW i \in DOMAIN labels', labels'[i].decision # NoDecision
      PROVE  /\ labels'[i].decision \in decided'
             /\ labels'[i].subject = SubjectOf[labels'[i].decision]
  <2>1. CASE i = Len(labels) + 1
    BY <1>1, <1>3, <2>1, AddsRows DEF Joined
  <2>2. CASE i \in DOMAIN labels
    BY <1>1, <1>3, <2>2, AddsKeeps DEF Joined, LabelsJoinTheirDecision
  <2>3. QED
    BY <1>2, <2>1, <2>2
<1>4. QED
  BY <1>1, <1>3 DEF LabelsJoinTheirDecision, Joined

\* The winner replaces its rivals; a loser leaves them standing.
LEMMA AddsOneStanding ==
  ASSUME TypeOK, OneStandingPerCell,
         NEW row \in LabelRow, NEW hit \in SUBSET DOMAIN labels, Adds(row, hit)
  PROVE  OneStandingPerCell'
<1> DEFINE id == Len(labels) + 1
<1>1. Appended(row, hit) /\ (Wins(row, hit) \/ Loses(row, hit))
  BY DEF Adds
<1>2. /\ DOMAIN labels = 1..Len(labels) /\ DOMAIN labels' = 1..id /\ Len(labels) \in Nat
      /\ labels'[id] = row
  BY <1>1, AddsRows
<1>3. \A i \in DOMAIN labels' : i = id \/ i \in DOMAIN labels
  BY <1>2
<1>4. \A i \in hit : ~IsCurrent(labels'[i])
  BY <1>1, <1>2, AddsKeeps DEF IsCurrent, Current
<1>5. \A i \in DOMAIN labels \ hit : IsCurrent(labels'[i]) <=> IsCurrent(labels[i])
  BY <1>1, AddsKeeps DEF IsCurrent
<1> DEFINE Unique(i, j) ==
        /\ j \in DOMAIN labels'
        /\ CellOf(labels'[i]) = CellOf(labels'[j]) /\ IsCurrent(labels'[j])
        /\ \A k \in DOMAIN labels' :
             CellOf(labels'[i]) = CellOf(labels'[k]) /\ IsCurrent(labels'[k]) => k = j
<1>6. SUFFICES ASSUME NEW i \in DOMAIN labels', Keyed(labels'[i])
               PROVE  \E j : Unique(i, j)
  BY DEF OneStandingPerCell, SameCell
<1> HIDE DEF id
<1>7. CASE CellOf(labels'[i]) = CellOf(row)
  <2>1. Keyed(row)
    BY <1>6, <1>7, CellKeyed
  <2>2. CASE Wins(row, hit)
    <3>1. \A k \in DOMAIN labels :
             CellOf(labels'[k]) = CellOf(row) /\ IsCurrent(labels'[k]) => FALSE
      <4> SUFFICES ASSUME NEW k \in DOMAIN labels,
                          CellOf(labels'[k]) = CellOf(row), IsCurrent(labels'[k])
                   PROVE  FALSE
        OBVIOUS
      <4>1. k \notin hit /\ IsCurrent(labels[k])
        BY <1>4, <1>5
      <4>2. CellOf(labels[k]) = CellOf(row)
        BY <1>1, AddsKeeps
      <4>3. k \in Rivals(row)
        BY <2>1, <4>1, <4>2 DEF Rivals
      <4>4. QED
        BY <2>2, <4>1, <4>3 DEF Wins
    <3>2. IsCurrent(labels'[id]) /\ id \in DOMAIN labels'
      BY <1>2, <2>2 DEF Wins, id
    <3>3. Unique(i, id)
      BY <1>2, <1>3, <1>7, <3>1, <3>2
    <3>4. QED
      BY <3>3
  <2>3. CASE Loses(row, hit)
    <3>1. PICK j \in Rivals(row) : row.superseded_by = j
      BY <2>3 DEF Loses
    <3>2. j \in DOMAIN labels /\ CellOf(labels[j]) = CellOf(row) /\ IsCurrent(labels[j])
      BY <3>1 DEF Rivals
    <3>3. hit = {}
      BY <2>3 DEF Loses
    <3>4. j \in DOMAIN labels' /\ IsCurrent(labels'[j]) /\ CellOf(labels'[j]) = CellOf(row)
      BY <1>1, <1>5, <3>2, <3>3, AddsKeeps
    <3>5. ~IsCurrent(labels'[id])
      BY <1>2, <3>1, <3>2 DEF IsCurrent, Current
    <3>6. \A k \in DOMAIN labels' :
             CellOf(labels'[k]) = CellOf(row) /\ IsCurrent(labels'[k]) => k = j
      <4> SUFFICES ASSUME NEW k \in DOMAIN labels',
                          CellOf(labels'[k]) = CellOf(row), IsCurrent(labels'[k])
                   PROVE  k = j
        OBVIOUS
      <4>1. k \in DOMAIN labels
        BY <1>3, <3>5
      <4>2. IsCurrent(labels[k]) /\ CellOf(labels[k]) = CellOf(row)
        BY <1>1, <1>5, <3>3, <4>1, AddsKeeps
      <4>3. k \in Rivals(row)
        BY <2>1, <4>1, <4>2 DEF Rivals
      <4>4. QED
        BY <3>1, <4>3, OneRival
    <3>7. Unique(i, j)
      BY <1>7, <3>4, <3>6
    <3>8. QED
      BY <3>7
  <2>4. QED
    BY <1>1, <2>2, <2>3
<1>8. CASE CellOf(labels'[i]) # CellOf(row)
  <2>1. i \in DOMAIN labels
    BY <1>2, <1>3, <1>8
  <2>2. Keyed(labels[i]) /\ CellOf(labels[i]) = CellOf(labels'[i])
    BY <1>1, <1>6, <2>1, AddsKeeps
  <2>3. PICK j \in DOMAIN labels :
           /\ CellOf(labels[i]) = CellOf(labels[j]) /\ IsCurrent(labels[j])
           /\ \A k \in DOMAIN labels :
                CellOf(labels[i]) = CellOf(labels[k]) /\ IsCurrent(labels[k]) => k = j
    BY <2>1, <2>2 DEF OneStandingPerCell, SameCell
  <2>4. \A k \in hit : CellOf(labels[k]) = CellOf(row)
    BY <1>1 DEF Wins, Loses, Rivals
  <2>5. j \notin hit /\ j \in DOMAIN labels'
    BY <1>8, <2>2, <2>3, <2>4, <1>1, AddsKeeps
  <2>6. IsCurrent(labels'[j]) /\ CellOf(labels'[j]) = CellOf(labels'[i])
    BY <1>1, <1>5, <2>2, <2>3, <2>5, AddsKeeps
  <2>7. ASSUME NEW k \in DOMAIN labels',
               CellOf(labels'[i]) = CellOf(labels'[k]), IsCurrent(labels'[k])
        PROVE  k = j
    <3>1. k \in DOMAIN labels
      BY <1>2, <1>3, <1>8, <2>7
    <3>2. k \notin hit
      BY <1>4, <2>7
    <3>3. IsCurrent(labels[k]) /\ CellOf(labels[k]) = CellOf(labels[i])
      BY <1>1, <1>5, <2>2, <2>7, <3>1, <3>2, AddsKeeps
    <3>4. QED
      BY <2>3, <3>1, <3>3
  <2>8. Unique(i, j)
    BY <2>5, <2>6, <2>7
  <2>9. QED
    BY <2>8
<1>9. QED
  BY <1>7, <1>8

\* A row buried by an Adds step had no greater authority than the row that
\* buried it, or that row is an override.
LEMMA AddsBuried ==
  ASSUME TypeOK, BuriedByAuthority,
         NEW row \in LabelRow, NEW hit \in SUBSET DOMAIN labels, Adds(row, hit)
  PROVE  BuriedByAuthority'
<1> DEFINE id == Len(labels) + 1
<1>1. Appended(row, hit) /\ (Wins(row, hit) \/ Loses(row, hit))
  BY DEF Adds
<1>2. /\ DOMAIN labels = 1..Len(labels) /\ DOMAIN labels' = 1..id /\ Len(labels) \in Nat
      /\ labels'[id] = row
  BY <1>1, AddsRows
<1>3. \A i \in DOMAIN labels' : i = id \/ i \in DOMAIN labels
  BY <1>2
<1>4. \A i \in hit : i \in Rivals(row)
  BY <1>1 DEF Wins, Loses
<1> DEFINE Justified(i) ==
        LET k == labels'[i].superseded_by
        IN  /\ k \in DOMAIN labels' \ {i}
            /\ CellOf(labels'[i]) = CellOf(labels'[k])
            /\ \/ precedence_of(labels'[i].source) <= precedence_of(labels'[k].source)
               \/ labels'[k].override
<1>5. SUFFICES ASSUME NEW i \in DOMAIN labels', ~IsCurrent(labels'[i])
               PROVE  Justified(i)
  BY DEF BuriedByAuthority, SameCell
<1>6. CASE i = id
  <2>1. PICK j \in Rivals(row) :
           /\ row.superseded_by = j
           /\ precedence_of(row.source) < precedence_of(labels[j].source)
    BY <1>1, <1>2, <1>5, <1>6 DEF Wins, Loses
  <2>2. j \in DOMAIN labels /\ CellOf(labels[j]) = CellOf(row)
    BY DEF Rivals
  <2>3. labels'[i].superseded_by = j /\ j \in DOMAIN labels' \ {i}
    BY <1>2, <1>6, <2>1, <2>2
  <2>4. CellOf(labels'[j]) = CellOf(row) /\ labels'[j].source = labels[j].source
    BY <1>1, <2>2, AddsKeeps
  <2>5. precedence_of(row.source) <= precedence_of(labels[j].source)
    BY <2>1, PrecedenceIsNat
  <2>6. QED
    BY <1>2, <1>6, <2>3, <2>4, <2>5
<1>7. CASE i \in hit
  <2>1. i \in DOMAIN labels /\ CellOf(labels[i]) = CellOf(row)
    BY <1>4, <1>7 DEF Rivals
  <2>2. labels'[i].superseded_by = id /\ labels'[i].source = labels[i].source
    BY <1>1, <1>7, <2>1, AddsKeeps
  <2>3. CellOf(labels'[i]) = CellOf(row)
    BY <1>1, <2>1, AddsKeeps
  <2>4. id \in DOMAIN labels' \ {i}
    BY <1>2, <2>1
  <2>5. row.override \/ precedence_of(labels[i].source) <= precedence_of(row.source)
    BY <1>1, <1>7 DEF Wins, Loses
  <2>6. QED
    BY <1>2, <2>2, <2>3, <2>4, <2>5
<1>8. CASE i \in DOMAIN labels /\ i \notin hit
  <2>1. labels'[i] = labels[i]
    BY <1>1, <1>8, AddsRows
  <2> DEFINE k == labels[i].superseded_by
  <2>2. /\ k \in DOMAIN labels \ {i}
        /\ CellOf(labels[i]) = CellOf(labels[k])
        /\ \/ precedence_of(labels[i].source) <= precedence_of(labels[k].source)
           \/ labels[k].override
    BY <1>5, <1>8, <2>1 DEF BuriedByAuthority, SameCell
  <2>3. /\ CellOf(labels'[k]) = CellOf(labels[k]) /\ labels'[k].source = labels[k].source
        /\ labels'[k].override = labels[k].override /\ k \in DOMAIN labels'
    BY <1>1, <2>2, AddsKeeps
  <2>4. QED
    BY <2>1, <2>2, <2>3
<1>9. QED
  BY <1>3, <1>6, <1>7, <1>8

\* The standing row of a cell stays the strongest since the last override.
LEMMA AddsStrongest ==
  ASSUME TypeOK, OneStandingPerCell, StrongestStands,
         NEW row \in LabelRow, NEW hit \in SUBSET DOMAIN labels, Adds(row, hit)
  PROVE  StrongestStands'
<1> DEFINE id == Len(labels) + 1
<1>1. Appended(row, hit) /\ (Wins(row, hit) \/ Loses(row, hit))
  BY DEF Adds
<1>2. /\ DOMAIN labels = 1..Len(labels) /\ DOMAIN labels' = 1..id /\ Len(labels) \in Nat
      /\ labels'[id] = row
  BY <1>1, AddsRows
<1>3. \A i \in DOMAIN labels' : i = id \/ i \in DOMAIN labels
  BY <1>2
<1>4. \A i \in hit : ~IsCurrent(labels'[i])
  BY <1>1, <1>2, AddsKeeps DEF IsCurrent, Current
<1>5. \A i \in DOMAIN labels \ hit : IsCurrent(labels'[i]) <=> IsCurrent(labels[i])
  BY <1>1, AddsKeeps DEF IsCurrent
<1>6. SUFFICES ASSUME NEW i \in DOMAIN labels', NEW j \in DOMAIN labels',
                      Keyed(labels'[i]), CellOf(labels'[i]) = CellOf(labels'[j]),
                      IsCurrent(labels'[j]),
                      \A k \in DOMAIN labels' :
                         CellOf(labels'[i]) = CellOf(labels'[k]) /\ labels'[k].override => k <= i
               PROVE  precedence_of(labels'[i].source) <= precedence_of(labels'[j].source)
  BY DEF StrongestStands, SameCell
\* Rows of the old table: what stood for them before still bounds them.
<1>7. ASSUME NEW m \in DOMAIN labels, i \in DOMAIN labels,
             CellOf(labels[m]) = CellOf(labels[i]), IsCurrent(labels[m])
      PROVE  precedence_of(labels[i].source) <= precedence_of(labels[m].source)
  <2>1. Keyed(labels[i]) /\ SameCell(i, m)
    BY <1>1, <1>6, <1>7, AddsKeeps DEF SameCell
  <2>2. \A k \in DOMAIN labels : SameCell(i, k) /\ labels[k].override => k <= i
    BY <1>1, <1>6, <1>7, AddsKeeps DEF SameCell
  <2>3. QED
    BY <1>7, <2>1, <2>2 DEF StrongestStands
<1>8. CASE i = id /\ j = id
  BY <1>8, PrecedenceIsNat
<1>9. CASE i = id /\ j # id
  <2>1. j \in DOMAIN labels /\ j \notin hit
    BY <1>3, <1>4, <1>6, <1>9
  <2>2. IsCurrent(labels[j]) /\ CellOf(labels[j]) = CellOf(row) /\ Keyed(row)
    BY <1>1, <1>2, <1>5, <1>6, <1>9, <2>1, AddsKeeps
  <2>3. j \in Rivals(row)
    BY <2>1, <2>2 DEF Rivals
  <2>4. Loses(row, hit)
    BY <1>1, <2>1, <2>3 DEF Wins
  <2>5. precedence_of(row.source) < precedence_of(labels[j].source)
    BY <2>3, <2>4, OneRival DEF Loses
  <2>6. labels'[j].source = labels[j].source
    BY <1>1, <2>1, AddsKeeps
  <2>7. QED
    BY <1>2, <1>9, <2>5, <2>6, PrecedenceIsNat
<1>10. CASE i # id /\ j # id
  <2>1. i \in DOMAIN labels /\ j \in DOMAIN labels /\ j \notin hit
    BY <1>3, <1>4, <1>6, <1>10
  <2>2. IsCurrent(labels[j]) /\ CellOf(labels[j]) = CellOf(labels[i])
    BY <1>1, <1>5, <1>6, <2>1, AddsKeeps
  <2>3. QED
    BY <1>1, <1>7, <2>1, <2>2, AddsKeeps
<1>11. CASE i # id /\ j = id
  <2>1. i \in DOMAIN labels /\ CellOf(labels[i]) = CellOf(row) /\ Keyed(row) /\ Keyed(labels[i])
    BY <1>1, <1>2, <1>3, <1>6, <1>11, AddsKeeps, CellKeyed
  <2>2. ~row.override
    BY <1>2, <1>6, <1>11, <2>1
  <2>3. Wins(row, hit)
    BY <1>1, <1>2, <1>6, <1>11 DEF Loses, Rivals, IsCurrent, Current
  <2>4. PICK m \in DOMAIN labels : CellOf(labels[i]) = CellOf(labels[m]) /\ IsCurrent(labels[m])
    BY <2>1 DEF OneStandingPerCell, SameCell
  <2>5. m \in hit
    BY <2>1, <2>3, <2>4 DEF Wins, Rivals
  <2>6. precedence_of(labels[m].source) <= precedence_of(row.source)
    BY <2>2, <2>3, <2>5 DEF Wins
  <2>7. precedence_of(labels[i].source) <= precedence_of(labels[m].source)
    BY <1>7, <2>1, <2>4
  <2>8. labels'[i].source = labels[i].source
    BY <1>1, <2>1, AddsKeeps
  <2>9. QED
    BY <1>2, <1>11, <2>6, <2>7, <2>8, PrecedenceIsNat
<1>12. QED
  BY <1>8, <1>9, <1>10, <1>11

-----------------------------------------------------------------------------
(* The theorems.                                                           *)

LEMMA InitIInv == Init => IInv
<1> SUFFICES ASSUME Init PROVE IInv
  OBVIOUS
<1>1. labels = <<>> /\ DOMAIN labels = {} /\ labels \in Seq(LabelRow)
  BY EmptySeq, LenProperties DEF Init
<1>2. decided = {} /\ latest = [s \in Subject |-> NoDecision]
  BY DEF Init
<1>3. TypeOK
  BY <1>1, <1>2 DEF TypeOK
<1>4. LabelsJoinTheirDecision
  BY <1>1, <1>2 DEF LabelsJoinTheirDecision
<1>5. OneStandingPerCell /\ BuriedByAuthority /\ StrongestStands
  BY <1>1 DEF OneStandingPerCell, BuriedByAuthority, StrongestStands
<1>6. QED
  BY <1>3, <1>4, <1>5 DEF IInv

\* log_decision leaves the labels alone, and gives its subject a decision.
LEMMA LogDecisionIInv ==
  ASSUME IInv, LogDecision
  PROVE  IInv'
<1>0. PICK d \in Decision : \E top \in {d} \cup DecisionsAbout(SubjectOf[d]) :
          log_decision(d, top)
  BY DEF LogDecision
<1>. PICK top \in {d} \cup DecisionsAbout(SubjectOf[d]) : log_decision(d, top)
  BY <1>0
<1>1. labels' = labels /\ decided' = decided \cup {d}
      /\ latest' = [latest EXCEPT ![SubjectOf[d]] = top]
  BY DEF log_decision
<1>2. /\ SubjectOf[d] \in Subject /\ top \in Decision /\ top # NoDecision
      /\ top \in decided' /\ SubjectOf[top] = SubjectOf[d]
  BY <1>1, IdAssumption DEF DecisionsAbout, IInv, TypeOK
<1>3. TypeOK'
  BY <1>1, <1>2 DEF IInv, TypeOK
<1>4. LabelsJoinTheirDecision'
  <2>1. \A i \in DOMAIN labels' : Joined(labels[i])'
    BY <1>1 DEF IInv, LabelsJoinTheirDecision, Joined
  <2>2. \A e \in decided' : latest'[SubjectOf[e]] # NoDecision
    BY <1>1, <1>2 DEF IInv, LabelsJoinTheirDecision, TypeOK
  <2>3. \A s \in Subject : latest'[s] # NoDecision =>
            latest'[s] \in decided' /\ SubjectOf[latest'[s]] = s
    BY <1>1, <1>2 DEF IInv, LabelsJoinTheirDecision, TypeOK
  <2>4. QED
    BY <1>1, <2>1, <2>2, <2>3 DEF LabelsJoinTheirDecision
<1>5. (OneStandingPerCell /\ BuriedByAuthority /\ StrongestStands)'
  BY <1>1 DEF IInv, OneStandingPerCell, BuriedByAuthority, StrongestStands, SameCell,
              IsCurrent
<1>6. QED
  BY <1>3, <1>4, <1>5 DEF IInv

LEMMA AddsIInv ==
  ASSUME IInv, NEW row \in LabelRow, NEW hit \in SUBSET DOMAIN labels, Adds(row, hit)
  PROVE  IInv'
BY AddsTypeOK, AddsJoined, AddsOneStanding, AddsBuried, AddsStrongest DEF IInv

LEMMA NextCases ==
  ASSUME IInv, Next
  PROVE  \/ LogDecision
         \/ \E row \in LabelRow : \E hit \in SUBSET DOMAIN labels : Adds(row, hit)
<1>1. CASE LogDecision
  BY <1>1
<1>2. CASE AddLabel
  <2>1. PICK s \in Subject \cup {NoSubject} : \E d \in {NoDecision} \cup DecisionsAbout(s) :
             \E t \in Target, source \in Source, fact \in Fact, o \in BOOLEAN :
                add_label(s, d, t, source, fact, o)
    BY <1>2 DEF AddLabel
  <2>2. PICK d \in {NoDecision} \cup DecisionsAbout(s), t \in Target, source \in Source, fact \in Fact, o \in BOOLEAN :
                add_label(s, d, t, source, fact, o)
    BY <2>1
  <2>3. QED
    BY <2>2, AddLabelAdds DEF IInv
<1>3. QED
  BY <1>1, <1>2 DEF Next

LEMMA NextIInv == IInv /\ [Next]_storeVars => IInv'
<1> SUFFICES ASSUME IInv, [Next]_storeVars PROVE IInv'
  OBVIOUS
<1>1. CASE Next
  BY <1>1, NextCases, LogDecisionIInv, AddsIInv
<1>2. CASE UNCHANGED storeVars
  BY <1>2 DEF storeVars, IInv, TypeOK, LabelsJoinTheirDecision, Joined,
              OneStandingPerCell, BuriedByAuthority, StrongestStands, SameCell, IsCurrent
<1>3. QED
  BY <1>1, <1>2

\* No step of the store takes a row away or changes what it says.
LEMMA StepKeepsRows ==
  ASSUME IInv, [Next]_storeVars
  PROVE  RowsKept
<1>1. CASE labels' = labels
  BY <1>1 DEF RowsKept
<1>2. CASE AddLabel
  <2>1. PICK s \in Subject \cup {NoSubject}, t \in Target, source \in Source,
             fact \in Fact, o \in BOOLEAN :
             \E d \in {NoDecision} \cup DecisionsAbout(s) :
                 add_label(s, d, t, source, fact, o)
    BY <1>2 DEF AddLabel
  <2>2. QED
    BY <2>1, AddLabelWrites DEF IInv
<1>3. QED
  BY <1>1, <1>2 DEF Next, LogDecision, log_decision, storeVars

\* The inductive invariant of the substrate.
THEOREM Inductive == Spec => []IInv
<1>1. Init => IInv
  BY InitIInv
<1>2. IInv /\ [Next]_storeVars => IInv'
  BY NextIInv
<1>3. QED
  BY <1>1, <1>2, PTL DEF Spec

\* The tables always hold well-formed rows.
THEOREM TypeCorrect == Spec => []TypeOK
<1>1. IInv => TypeOK
  BY DEF IInv
<1>2. QED
  BY <1>1, Inductive, PTL

\* No interleaving of log_decision and add_label loses or doubles the
\* standing label of a cell.
THEOREM StandingUnique == Spec => []OneStandingPerCell
<1>1. IInv => OneStandingPerCell
  BY DEF IInv
<1>2. QED
  BY <1>1, Inductive, PTL

\* add_label's precedence rule, as an invariant of the whole history of a
\* cell and not of one call.
THEOREM AuthorityHolds == Spec => [](StrongestStands /\ BuriedByAuthority)
<1>1. IInv => StrongestStands /\ BuriedByAuthority
  BY DEF IInv
<1>2. QED
  BY <1>1, Inductive, PTL

\* Labels train on features of their own subject's decision.
THEOREM LabelsJoin == Spec => []LabelsJoinTheirDecision
<1>1. IInv => LabelsJoinTheirDecision
  BY DEF IInv
<1>2. QED
  BY <1>1, Inductive, PTL

-----------------------------------------------------------------------------
(* Precedence over a subject as a whole.                                   *)

\* A payment is decided once, and nobody reports on it before that.
OneDecisionEach == \A d, e \in Decision : SubjectOf[d] = SubjectOf[e] => d = e

LabelsFollowDecisions ==
    [][\A i \in DOMAIN labels' \ DOMAIN labels :
          labels'[i].subject # NoSubject => latest[labels'[i].subject] # NoDecision]_storeVars

AllLinked ==
    \A i \in DOMAIN labels : labels[i].subject # NoSubject => labels[i].decision # NoDecision

\* "A label from a WEAKER source than the standing one does not take over" is
\* true of a subject and not only of a cell when the subject has one decision
\* and every report comes after it: of store.py:781's two keys, one is used.
THEOREM WeakerNeverTakesOver ==
  OneDecisionEach /\ Spec /\ LabelsFollowDecisions => []WeakerDoesNotTakeOver
<1> SUFFICES ASSUME OneDecisionEach
             PROVE  Spec /\ LabelsFollowDecisions => []WeakerDoesNotTakeOver
  OBVIOUS
<1> DEFINE Prompt == \A i \in DOMAIN labels' \ DOMAIN labels :
                        labels'[i].subject # NoSubject => latest[labels'[i].subject] # NoDecision
<1>1. Init => AllLinked
  <2>1. ASSUME Init PROVE DOMAIN labels = {}
    BY <2>1, EmptySeq DEF Init
  <2>2. QED
    BY <2>1 DEF AllLinked
<1>2. ASSUME IInv, AllLinked, [Next]_storeVars, [Prompt]_storeVars PROVE AllLinked'
  <2>1. CASE labels' = labels
    BY <1>2, <2>1 DEF AllLinked
  <2>2. ASSUME NEW row \in LabelRow, NEW hit \in SUBSET DOMAIN labels, Adds(row, hit),
               labels' # labels
        PROVE  AllLinked'
    <3>1. /\ DOMAIN labels = 1..Len(labels) /\ Len(labels) \in Nat
          /\ DOMAIN labels' = 1..(Len(labels) + 1)
          /\ labels'[Len(labels) + 1] = row
      BY <1>2, <2>2, AddsRows DEF Adds, IInv
    <3>2. row.subject # NoSubject => row.decision # NoDecision
      <4>1. Prompt
        BY <1>2, <2>2 DEF storeVars
      <4>2. Len(labels) + 1 \in DOMAIN labels' \ DOMAIN labels
        BY <3>1
      <4>3. row.subject # NoSubject => latest[row.subject] # NoDecision
        BY <3>1, <4>1, <4>2
      <4>4. QED
        BY <2>2, <4>3 DEF Adds, Linked
    <3>3. ASSUME NEW i \in DOMAIN labels
          PROVE  labels'[i].subject # NoSubject => labels'[i].decision # NoDecision
      <4>1. labels'[i].subject = labels[i].subject /\ labels'[i].decision = labels[i].decision
        BY <1>2, <2>2, AddsKeeps DEF Adds, IInv
      <4>2. QED
        BY <1>2, <4>1 DEF AllLinked
    <3>4. QED
      BY <3>1, <3>2, <3>3 DEF AllLinked
  <2>3. CASE LogDecision
    BY <2>1, <2>3 DEF LogDecision, log_decision
  <2>4. QED
    BY <1>2, <2>1, <2>2, <2>3, NextCases DEF storeVars
<1>3. IInv /\ AllLinked => WeakerDoesNotTakeOver
  <2> SUFFICES ASSUME IInv, AllLinked, NEW i \in DOMAIN labels, NEW j \in DOMAIN labels,
                      IsCurrent(labels[i]), IsCurrent(labels[j]),
                      labels[i].target = labels[j].target,
                      labels[i].subject = labels[j].subject, labels[i].subject # NoSubject
               PROVE  ~(i < j)
    BY DEF WeakerDoesNotTakeOver
  <2>1. labels[i].decision # NoDecision /\ labels[j].decision # NoDecision
    BY DEF AllLinked
  <2>2. labels[i].decision = labels[j].decision
    BY <2>1 DEF IInv, TypeOK, LabelsJoinTheirDecision, Joined, OneDecisionEach
  <2>3. SameCell(i, j) /\ SameCell(i, i) /\ Keyed(labels[i])
    BY <2>1, <2>2 DEF SameCell, CellOf, Keyed
  <2>4. i = j
    BY <2>3 DEF IInv, OneStandingPerCell
  <2>5. DOMAIN labels = 1..Len(labels)
    BY LabelRows DEF IInv
  <2>6. QED
    BY <2>4, <2>5
<1>4. QED
  BY <1>1, <1>2, <1>3, Inductive, PTL DEF Spec, LabelsFollowDecisions, Prompt

-----------------------------------------------------------------------------
(* Action properties and refinement.                                       *)

Preserved ==
    /\ Len(labels) <= Len(labels')
    /\ \A i \in DOMAIN labels :
         /\ [labels'[i] EXCEPT !.superseded_by = labels[i].superseded_by] = labels[i]
         /\ ~IsCurrent(labels[i]) => labels'[i] = labels[i]

LEMMA AddsPreserved ==
  ASSUME TypeOK, NEW row \in LabelRow, NEW hit \in SUBSET DOMAIN labels, Adds(row, hit)
  PROVE  Preserved
<1>1. Appended(row, hit) /\ Len(labels) <= Len(labels')
  BY AddsRows DEF Adds
<1>2. ASSUME NEW i \in DOMAIN labels
      PROVE  /\ [labels'[i] EXCEPT !.superseded_by = labels[i].superseded_by] = labels[i]
             /\ ~IsCurrent(labels[i]) => labels'[i] = labels[i]
  <2>1. labels[i] \in LabelRow
    BY <1>1, AddsRows
  <2>2. CASE i \in hit
    <3>1. labels'[i] = Buried(labels[i], Len(labels) + 1) /\ IsCurrent(labels[i])
      BY <1>1, <2>2, AddsRows DEF Adds, Wins, Loses, Rivals
    <3>2. QED
      BY <2>1, <3>1 DEF Buried, LabelRow
  <2>3. CASE i \notin hit
    <3>1. labels'[i] = labels[i]
      BY <1>1, <2>3, AddsRows
    <3>2. QED
      BY <2>1, <3>1 DEF LabelRow
  <2>4. QED
    BY <2>2, <2>3
<1>3. QED
  BY <1>1, <1>2 DEF Preserved

\* A label row, once written, keeps what it says, and once buried is never
\* touched again.
THEOREM HistoryIsAppendOnly == Spec => HistoryPreserved
<1>1. ASSUME IInv, [Next]_storeVars PROVE [Preserved]_storeVars
  <2>1. CASE UNCHANGED storeVars
    BY <2>1
  <2>2. ASSUME LogDecision PROVE Preserved
    <3>1. labels' = labels /\ \A i \in DOMAIN labels : labels[i] \in LabelRow
      BY <1>1, <2>2, LenProperties, ElementOfSeq DEF LogDecision, log_decision, IInv, TypeOK
    <3>2. Len(labels) \in Nat
      BY <1>1, LenProperties DEF IInv, TypeOK
    <3>3. QED
      BY <3>1, <3>2 DEF Preserved, LabelRow
  <2>3. CASE Next
    BY <1>1, <2>2, <2>3, NextCases, AddsPreserved DEF IInv
  <2>4. QED
    BY <1>1, <2>1, <2>3
<1>2. QED
  BY <1>1, Inductive, PTL DEF Spec, HistoryPreserved, Preserved

\* The claim a row makes, and the claims standing in a cell.
ClaimOf(row) == [source |-> row.source, fact |-> row.fact, override |-> row.override]

InCell(c) ==
    {j \in DOMAIN labels : /\ Keyed(labels[j]) /\ IsCurrent(labels[j])
                           /\ CellOf(labels[j]) = c}

LEMMA ClaimsDef ==
  /\ StandingClaims = [c \in Cell |-> {ClaimOf(labels[i]) : i \in InCell(c)}]
  /\ StandingClaims' = [c \in Cell |-> {ClaimOf(labels'[i]) : i \in InCell(c)'}]
BY DEF StandingClaims, ClaimOf, InCell

LEMMA InCellNext ==
  ASSUME NEW c
  PROVE  InCell(c)' = {j \in DOMAIN labels' : /\ Keyed(labels'[j]) /\ IsCurrent(labels'[j])
                                              /\ CellOf(labels'[j]) = c}
BY DEF InCell, Keyed, IsCurrent, CellOf

\* A keyed row belongs to a cell of the abstract specification.
LEMMA RowCell ==
  ASSUME NEW row \in LabelRow, Keyed(row), Joined(row), decided \subseteq Decision
  PROVE  CellOf(row) \in Cell
<1>1. row.target \in Target
  BY DEF LabelRow
<1>2. CASE row.decision # NoDecision
  <2>1. <<"decision", row.decision>> \in {"decision"} \X Decision
    BY <1>2 DEF Joined
  <2>2. QED
    BY <1>1, <1>2, <2>1 DEF CellOf, Cell
<1>3. CASE row.decision = NoDecision
  <2>1. <<"subject", row.subject>> \in {"subject"} \X Subject
    BY <1>3 DEF Keyed, LabelRow
  <2>2. QED
    BY <1>1, <1>3, <2>1 DEF CellOf, Cell
<1>4. QED
  BY <1>2, <1>3

\* An Adds step changes the standing claims of its own cell, or none.
LEMMA AddsClaims ==
  ASSUME IInv, NEW row \in LabelRow, NEW hit \in SUBSET DOMAIN labels, Adds(row, hit)
  PROVE  IF Keyed(row) /\ Wins(row, hit)
         THEN StandingClaims' = [StandingClaims EXCEPT ![CellOf(row)] = {ClaimOf(row)}]
         ELSE StandingClaims' = StandingClaims
<1> DEFINE id == Len(labels) + 1
<1>1. Appended(row, hit) /\ (Wins(row, hit) \/ Loses(row, hit)) /\ Joined(row) /\ TypeOK
  BY DEF Adds, IInv
<1>2. /\ DOMAIN labels = 1..Len(labels) /\ DOMAIN labels' = 1..id /\ Len(labels) \in Nat
      /\ labels'[id] = row
  BY <1>1, AddsRows
<1>3. \A j \in DOMAIN labels :
         /\ Keyed(labels'[j]) <=> Keyed(labels[j])
         /\ CellOf(labels'[j]) = CellOf(labels[j])
         /\ ClaimOf(labels'[j]) = ClaimOf(labels[j])
         /\ j \in hit => ~IsCurrent(labels'[j])
         /\ j \notin hit => (IsCurrent(labels'[j]) <=> IsCurrent(labels[j]))
  BY <1>1, <1>2, AddsKeeps DEF ClaimOf, IsCurrent, Current
<1>4. \A c : InCell(c)' \ {id} = InCell(c) \ hit
  <2> TAKE c
  <2>1. \A j \in DOMAIN labels : j \in InCell(c)' <=> (j \in InCell(c) /\ j \notin hit)
    BY <1>2, <1>3, InCellNext DEF InCell
  <2>2. InCell(c)' \ {id} \subseteq DOMAIN labels /\ InCell(c) \subseteq DOMAIN labels
        /\ id \notin DOMAIN labels
    BY <1>2, InCellNext DEF InCell
  <2>3. QED
    BY <2>1, <2>2
<1>5. \A c : id \in InCell(c)' <=> (Keyed(row) /\ IsCurrent(row) /\ CellOf(row) = c)
  BY <1>2, InCellNext
<1> HIDE DEF id
<1>6. CASE Keyed(row) /\ Wins(row, hit)
  <2>1. CellOf(row) \in Cell
    BY <1>1, <1>6, RowCell DEF TypeOK
  <2>2. InCell(CellOf(row)) \subseteq hit /\ IsCurrent(row)
    BY <1>6 DEF InCell, Wins, Rivals
  <2>3. InCell(CellOf(row))' = {id}
    BY <1>4, <1>5, <1>6, <2>2
  <2>4. ASSUME NEW c \in Cell, c # CellOf(row)
        PROVE  InCell(c)' = InCell(c) /\ InCell(c) \subseteq DOMAIN labels
    <3>1. id \notin InCell(c)' /\ InCell(c) \cap hit = {}
      BY <1>5, <1>6, <2>4 DEF InCell, Wins, Rivals
    <3>2. InCell(c) \subseteq DOMAIN labels
      BY DEF InCell
    <3>3. QED
      BY <1>4, <3>1, <3>2
  <2>5. StandingClaims'[CellOf(row)] = {ClaimOf(row)}
    BY <1>2, <2>1, <2>3, ClaimsDef
  <2>6. ASSUME NEW c \in Cell, c # CellOf(row)
        PROVE  StandingClaims'[c] = StandingClaims[c]
    BY <1>3, <2>4, <2>6, ClaimsDef
  <2>7. QED
    BY <1>6, <2>1, <2>5, <2>6, ClaimsDef
<1>7. CASE ~(Keyed(row) /\ Wins(row, hit))
  <2>1. hit = {} /\ ~(Keyed(row) /\ IsCurrent(row))
    <3>1. CASE Wins(row, hit)
      BY <1>7, <3>1 DEF Wins, Rivals
    <3>2. CASE Loses(row, hit)
      <4>1. PICK j \in Rivals(row) : row.superseded_by = j
        BY <3>2 DEF Loses
      <4>2. row.superseded_by # Current
        BY <1>2, <4>1 DEF Rivals, Current
      <4>3. QED
        BY <3>2, <4>2 DEF Loses, IsCurrent
    <3>3. QED
      BY <1>1, <3>1, <3>2
  <2>2. \A c : InCell(c)' = InCell(c) /\ InCell(c) \subseteq DOMAIN labels
    BY <1>4, <1>5, <2>1 DEF InCell
  <2>3. \A c \in Cell : StandingClaims'[c] = StandingClaims[c]
    BY <1>3, <2>2, ClaimsDef
  <2>4. QED
    BY <1>7, <2>3, ClaimsDef
<1>8. QED
  BY <1>6, <1>7

\* The labels table implements the promise to its readers: a standing claim
\* per cell, replaced by a weaker source only through a recorded override.
THEOREM Refinement == Spec => ImplementsStandingLabels
<1>1. Init => Promise!Init
  <2> SUFFICES ASSUME Init PROVE StandingClaims = [c \in Cell |-> {}]
    BY DEF Promise!Init
  <2>1. \A c : InCell(c) = {}
    BY EmptySeq, LenProperties DEF Init, InCell
  <2>2. QED
    BY <2>1, ClaimsDef
<1>2. ASSUME IInv, [Next]_storeVars PROVE [Promise!Next]_StandingClaims
  <2>1. CASE labels' = labels
    BY <2>1 DEF StandingClaims, Keyed, IsCurrent, CellOf
  <2>2. ASSUME NEW row \in LabelRow, NEW hit \in SUBSET DOMAIN labels, Adds(row, hit)
        PROVE  [Promise!Next]_StandingClaims
    <3> DEFINE c == CellOf(row)
               claim == ClaimOf(row)
    <3>1. CASE ~(Keyed(row) /\ Wins(row, hit))
      BY <1>2, <2>2, <3>1, AddsClaims
    <3>2. CASE Keyed(row) /\ Wins(row, hit)
      <4>1. c \in Cell /\ claim \in Promise!Claim
        BY <1>2, <2>2, <3>2, RowCell DEF Adds, IInv, TypeOK, LabelRow, ClaimOf, Promise!Claim
      <4>2. StandingClaims' = [StandingClaims EXCEPT ![c] = {claim}]
        BY <1>2, <2>2, <3>2, AddsClaims
      <4>3. InCell(c) = hit
        BY <3>2, CellKeyed DEF InCell, Wins, Rivals
      <4>4. StandingClaims[c] = {ClaimOf(labels[j]) : j \in hit}
        BY <4>1, <4>3, ClaimsDef
      <4>5. CASE row.override
        <5>1. StandingClaims[c] # {}
          BY <3>2, <4>4, <4>5 DEF Wins
        <5>2. Promise!Override(c, claim)
          BY <4>2, <4>5, <5>1 DEF Promise!Override, ClaimOf
        <5>3. QED
          BY <4>1, <5>2 DEF Promise!Next
      <4>6. CASE ~row.override
        <5>1. \A j \in hit : precedence_of(labels[j].source) <= precedence_of(row.source)
          BY <3>2, <4>6 DEF Wins
        <5>2. ~Promise!Outranked(c, claim)
          BY <4>4, <5>1, PrecedenceIsNat DEF Promise!Outranked, ClaimOf
        <5>3. Promise!Report(c, claim)
          BY <4>2, <4>6, <5>2 DEF Promise!Report, ClaimOf
        <5>4. QED
          BY <4>1, <5>3 DEF Promise!Next
      <4>7. QED
        BY <4>5, <4>6
    <3>3. QED
      BY <3>1, <3>2
  <2>3. CASE Next
    BY <1>2, <2>1, <2>2, <2>3, NextCases DEF LogDecision, log_decision
  <2>4. CASE UNCHANGED storeVars
    BY <2>1, <2>4 DEF storeVars
  <2>5. QED
    BY <1>2, <2>3, <2>4
<1>3. QED
  BY <1>1, <1>2, Inductive, PTL DEF Spec, ImplementsStandingLabels, Promise!Spec
=============================================================================
