----------------------------- MODULE LabelStore -----------------------------
(***************************************************************************)
(* The labelling substrate of core/store.py: the decisions table, the      *)
(* labels table, and the two verbs that write them, log_decision and       *)
(* add_label.  Each verb runs from its first SELECT to its commit under    *)
(* Store._lock, so each is one atomic action here.                         *)
(*                                                                         *)
(* A label row is keyed by its decision when one could be resolved, else   *)
(* by its subject_ref.  A row whose superseded_by is empty (Current) is    *)
(* the standing label of its (key, target) cell; a target stands for the   *)
(* (label_space, label_key) pair.  Row ids are uuids in the code; here a   *)
(* row's id is its position in the table, which is also its ts order.      *)
(***************************************************************************)
EXTENDS Integers, Sequences, FiniteSets

CONSTANTS
    Subject,        \* subject_ref values: transactions, applications, sessions
    Decision,       \* decision_id values
    SubjectOf,      \* the subject a decision id is about ("dec:"+tid, "auth:"+hash, ...)
    Target,         \* (label_space, label_key) pairs
    Source,         \* label sources, known or not
    Fact,           \* what a label asserts: label_value and effective_ts
    NoSubject,      \* subject_ref = ''
    NoDecision,     \* decision_id = ''
    MaxLabels       \* bound on the number of label rows

ASSUME IdAssumption ==
    /\ SubjectOf \in [Decision -> Subject]
    /\ NoSubject \notin Subject
    /\ NoDecision \notin Decision

VARIABLES
    decided,        \* decision ids present in the decisions table
    latest,         \* per subject, its decision row with the greatest ts
    labels          \* the labels table

storeVars == <<decided, latest, labels>>

-----------------------------------------------------------------------------
(* Source authority.                                                       *)

SOURCE_PRECEDENCE ==
    [law_enforcement |-> 60, confirmed_loss |-> 50, chargeback |-> 40,
     analyst |-> 30, victim_report |-> 20, consortium |-> 10, heuristic |-> 0]

precedence_of(source) ==
    IF source \in DOMAIN SOURCE_PRECEDENCE THEN SOURCE_PRECEDENCE[source] ELSE 5

-----------------------------------------------------------------------------
(* Rows and cells.                                                         *)

Current == 0        \* superseded_by = ''

LabelRow ==
    [subject: Subject \cup {NoSubject}, decision: Decision \cup {NoDecision},
     target: Target, source: Source, fact: Fact, override: BOOLEAN,
     superseded_by: Nat]

\* The rows the WHERE clause of add_label selects for a resolved key: by
\* decision_id if there is one, else by subject_ref, else none at all.
Matches(row, s, d) ==
    IF d # NoDecision THEN row.decision = d
                      ELSE s # NoSubject /\ row.subject = s

Standing(s, d, t) ==
    {i \in DOMAIN labels : /\ Matches(labels[i], s, d)
                           /\ labels[i].target = t
                           /\ labels[i].superseded_by = Current}

\* The decision a label attaches to when its caller named none.
Resolve(s, d) ==
    IF d = NoDecision /\ s # NoSubject THEN latest[s] ELSE d

\* The row the standing SELECT (LIMIT 1) returns.
Incumbent(st) == CHOOSE i \in st : TRUE

\* Mutant: no precedence, as before the rule moved into add_label.
Outranked_Never(st, source, override) == FALSE

\* A new label loses to the incumbent: weaker source, no override_reason.
Outranked(st, source, override) ==
    /\ st # {}
    /\ ~override
    /\ precedence_of(source) < precedence_of(labels[Incumbent(st)].source)

-----------------------------------------------------------------------------
(* The two verbs.                                                          *)

\* INSERT OR REPLACE: a re-scored decision keeps its id.  Its ts was read
\* before the lock was taken, so a call that read the clock later may have
\* written first: the row left with the greatest ts is the new one, or
\* another decision of the same subject.
log_decision(d, top) ==
    /\ decided' = decided \cup {d}
    /\ latest' = [latest EXCEPT ![SubjectOf[d]] = top]
    /\ UNCHANGED labels

\* Mutant: the INSERT without the UPDATE that supersedes.
add_label_NoUpdate(s, d, t, source, fact, override) ==
    LET r  == Resolve(s, d)
        st == Standing(s, r, t)
        row == [subject |-> s, decision |-> r, target |-> t, source |-> source,
                fact |-> fact, override |-> override /\ st # {},
                superseded_by |-> IF Outranked(st, source, override)
                                  THEN Incumbent(st) ELSE Current]
    IN  /\ Len(labels) < MaxLabels
        /\ labels' = Append(labels, row)
        /\ UNCHANGED <<decided, latest>>

add_label(s, d, t, source, fact, override) ==
    LET r  == Resolve(s, d)
        st == Standing(s, r, t)
        lost == Outranked(st, source, override)
        id == Len(labels) + 1
        row == [subject |-> s, decision |-> r, target |-> t, source |-> source,
                fact |-> fact, override |-> override /\ st # {},
                superseded_by |-> IF lost THEN Incumbent(st) ELSE Current]
    IN  /\ Len(labels) < MaxLabels
        /\ labels' = [i \in 1..id |->
                        IF i = id THEN row
                        ELSE IF i \in st /\ ~lost
                             THEN [labels[i] EXCEPT !.superseded_by = id]
                             ELSE labels[i]]
        /\ UNCHANGED <<decided, latest>>

-----------------------------------------------------------------------------
(* The specification.  A label arrives with the id of a decision that was  *)
(* logged before (record_decision, build_event, replay, backfill), with a  *)
(* subject alone (close_loop, record_outcome), or with neither (/feedback  *)
(* without a transaction id).                                              *)

Init ==
    /\ decided = {}
    /\ latest = [s \in Subject |-> NoDecision]
    /\ labels = <<>>

DecisionsAbout(s) == {d \in decided : SubjectOf[d] = s}

LogDecision ==
    \E d \in Decision : \E top \in {d} \cup DecisionsAbout(SubjectOf[d]) :
        log_decision(d, top)

AddLabel ==
    \E s \in Subject \cup {NoSubject} : \E d \in {NoDecision} \cup DecisionsAbout(s) :
        \E t \in Target, source \in Source, fact \in Fact, o \in BOOLEAN :
            add_label(s, d, t, source, fact, o)

Next == LogDecision \/ AddLabel

Spec == Init /\ [][Next]_storeVars

-----------------------------------------------------------------------------
(* Properties.                                                             *)

TypeOK ==
    /\ decided \subseteq Decision
    /\ latest \in [Subject -> Decision \cup {NoDecision}]
    /\ labels \in Seq(LabelRow)

IsCurrent(row) == row.superseded_by = Current

Keyed(row) == row.decision # NoDecision \/ row.subject # NoSubject

\* The cell a row competes for: its decision if it has one, else its subject.
CellOf(row) ==
    [key |-> IF row.decision # NoDecision THEN <<"decision", row.decision>>
                                          ELSE <<"subject", row.subject>>,
     target |-> row.target]

SameCell(i, j) == CellOf(labels[i]) = CellOf(labels[j])

\* Every cell that ever received a label has exactly one standing label,
\* however log_decision and add_label calls interleave: none is lost, none
\* is doubled (add_label resolves its key again on every call).
OneStandingPerCell ==
    \A i \in DOMAIN labels : Keyed(labels[i]) =>
        \E j \in DOMAIN labels :
            /\ SameCell(i, j) /\ IsCurrent(labels[j])
            /\ \A k \in DOMAIN labels : SameCell(i, k) /\ IsCurrent(labels[k]) => k = j

\* "A label from a WEAKER source than the standing one does not take over":
\* the standing label of a cell has at least the authority of every label
\* the cell received since the last deliberate override.
StrongestStands ==
    \A i, j \in DOMAIN labels :
        /\ Keyed(labels[i]) /\ SameCell(i, j) /\ IsCurrent(labels[j])
        /\ \A k \in DOMAIN labels : SameCell(i, k) /\ labels[k].override => k <= i
        => precedence_of(labels[i].source) <= precedence_of(labels[j].source)

\* The supersession chain stays inside one cell, and whatever buried a label
\* had the authority to: a stronger or equal source, or an override.
BuriedByAuthority ==
    \A i \in DOMAIN labels : ~IsCurrent(labels[i]) =>
        LET k == labels[i].superseded_by
        IN  /\ k \in DOMAIN labels \ {i}
            /\ SameCell(i, k)
            /\ \/ precedence_of(labels[i].source) <= precedence_of(labels[k].source)
               \/ labels[k].override

\* What current_labels would show for each cell.
Cell == [key: ({"decision"} \X Decision) \cup ({"subject"} \X Subject), target: Target]

StandingClaims ==
    [c \in Cell |->
        {[source |-> labels[i].source, fact |-> labels[i].fact,
          override |-> labels[i].override] :
            i \in {j \in DOMAIN labels : /\ Keyed(labels[j]) /\ IsCurrent(labels[j])
                                        /\ CellOf(labels[j]) = c}}]

Promise == INSTANCE StandingLabels WITH standing <- StandingClaims

\* The table with its history, supersession ids and key resolution
\* implements the promise its readers rely on.
ImplementsStandingLabels == Promise!Spec

\* A decision-keyed label is about the subject of a decision that exists, and
\* a subject has a latest decision exactly when it has one at all.
Joined(row) ==
    row.decision # NoDecision =>
        row.decision \in decided /\ row.subject = SubjectOf[row.decision]

LabelsJoinTheirDecision ==
    /\ \A i \in DOMAIN labels : Joined(labels[i])
    /\ \A d \in decided : latest[SubjectOf[d]] # NoDecision
    /\ \A s \in Subject : latest[s] # NoDecision =>
            latest[s] \in decided /\ SubjectOf[latest[s]] = s

IInv ==
    /\ TypeOK
    /\ LabelsJoinTheirDecision
    /\ OneStandingPerCell
    /\ BuriedByAuthority
    /\ StrongestStands

\* The label history is append-only: what a row says never changes, and the
\* id that superseded it is written once (label_history is the audit trail).
HistoryPreserved ==
    [][/\ Len(labels) <= Len(labels')
       /\ \A i \in DOMAIN labels :
            /\ [labels'[i] EXCEPT !.superseded_by = labels[i].superseded_by] = labels[i]
            /\ ~IsCurrent(labels[i]) => labels'[i] = labels[i]]_storeVars

\* What add_label and tests/test_outcome_ledger.py claim of a subject as a
\* whole: no standing label of a subject is weaker than another standing one
\* for the same target, unless it was a deliberate override.
WeakerDoesNotTakeOver ==
    \A i, j \in DOMAIN labels :
        /\ i < j /\ IsCurrent(labels[i]) /\ IsCurrent(labels[j])
        /\ labels[i].target = labels[j].target
        /\ labels[i].subject = labels[j].subject /\ labels[i].subject # NoSubject
        /\ ~labels[j].override
        => precedence_of(labels[i].source) <= precedence_of(labels[j].source)
=============================================================================
