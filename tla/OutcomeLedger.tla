---------------------------- MODULE OutcomeLedger ----------------------------
(***************************************************************************)
(* The outcome ledger of core/outcome_ledger.py over the labelling         *)
(* substrate: reports of what a payment turned out to be (POST /outcomes,  *)
(* POST /disputes) become an event, which is what happened, and a label,   *)
(* which is what is now believed.                                          *)
(*                                                                         *)
(* record_outcome takes no lock of its own.  It reads the standing outcome,*)
(* appends the event and adds the label in three separate store calls, and *)
(* answers from the first read, while other handler threads, the scorer    *)
(* and the analysts write the same subject.                                *)
(***************************************************************************)
EXTENDS LabelStore

CONSTANTS
    Reporter,       \* handler threads inside record_outcome
    Feed,           \* the clean records (validate's output) sources may send,
                    \* each with whether its request gives an override_reason
    NoReference,    \* reference = ''
    OutcomeTarget,  \* ("outcome", "is_fraud")
    Limit,          \* disagreements(): how many are listed (100 or 500)
    ScanFactor,     \* it reads the newest Limit * ScanFactor labels (4)
    MaxCrashes      \* bound on process crashes

ASSUME LedgerAssumption ==
    /\ OutcomeTarget \in Target
    /\ {"heuristic", "analyst"} \subseteq Source
    /\ Limit \in Nat \ {0} /\ ScanFactor \in Nat \ {0}
    /\ \A rec \in Feed : /\ rec.subject \in Subject
                         /\ rec.source \in Source \ {"heuristic"}
                         /\ rec.fact \in Fact
                         /\ rec.override \in BOOLEAN

VARIABLES
    events,         \* the outcome events, by event_id
    call,           \* per thread, the locals of its call of record_outcome
    answered,       \* history: what finished calls returned
    crashes         \* counter of the bound

ledgerVars == <<events, call, answered, crashes>>
vars == <<storeVars, ledgerVars>>

GOLD_SOURCES ==
    {"analyst", "confirmed_loss", "chargeback", "victim_report", "law_enforcement"}

Idle == [pc |-> "idle"]

-----------------------------------------------------------------------------
(* What the ledger reads from the store.                                   *)

OutcomesOf(s) ==
    {i \in DOMAIN labels : labels[i].subject = s /\ labels[i].target = OutcomeTarget}

StandingOutcomes(s) == {i \in OutcomesOf(s) : IsCurrent(labels[i])}

\* The first is_fraud label current_labels returns for the subject, 0 if none.
StandingOutcome(s) ==
    IF StandingOutcomes(s) = {} THEN 0
    ELSE CHOOSE i \in StandingOutcomes(s) : \A j \in StandingOutcomes(s) : i <= j

\* Mutant: the id forgets who reported.
EventId_NoSource(rec) == <<"outcome", rec.subject>>

\* Prefers the source's own reference, "the only identifier the source
\* guarantees is stable"; else the id spells the outcome out.
EventId(rec) ==
    IF rec.reference # NoReference
    THEN <<rec.source, rec.reference>>
    ELSE <<rec.source, rec.subject, rec.fact>>

\* What the event of a record holds of it.
Outcome(rec) == [subject |-> rec.subject, source |-> rec.source, fact |-> rec.fact]

\* Mutant: any source that said the same makes it a duplicate.
Repeats_AnySource(rec, i) ==
    i # 0 /\ labels[i].fact = rec.fact

Repeats(rec, i) ==
    i # 0 /\ labels[i].source = rec.source /\ labels[i].fact = rec.fact

-----------------------------------------------------------------------------
(* record_outcome.                                                         *)

ReadStanding(w) ==
    /\ call[w] = Idle
    /\ \E rec \in Feed :
         LET i == StandingOutcome(rec.subject)
         IN  IF Repeats(rec, i)
             THEN /\ answered' = answered \cup
                        {[rec |-> rec, resolution |-> "duplicate", label |-> 0]}
                  /\ UNCHANGED call
             ELSE /\ call' = [call EXCEPT ![w] = [pc |-> "read", rec |-> rec,
                                                  standing |-> i]]
                  /\ UNCHANGED answered
    /\ UNCHANGED <<storeVars, events, crashes>>

\* append_event is INSERT OR REPLACE on the event id.
AppendEvent(w) ==
    /\ call[w].pc = "read"
    /\ LET rec == call[w].rec
       IN  events' = [e \in DOMAIN events \cup {EventId(rec)} |->
                        IF e = EventId(rec) THEN Outcome(rec) ELSE events[e]]
    /\ call' = [call EXCEPT ![w].pc = "filed"]
    /\ UNCHANGED <<storeVars, answered, crashes>>

Resolution(c) ==
    IF /\ c.standing # 0 /\ ~c.rec.override
       /\ precedence_of(c.rec.source) < precedence_of(labels[c.standing].source)
    THEN "outranked"
    ELSE IF c.rec.override /\ c.standing # 0 THEN "override" ELSE "accepted"

AssertOutcome(w) ==
    /\ call[w].pc = "filed"
    /\ LET c == call[w]
       IN  /\ add_label(c.rec.subject, NoDecision, OutcomeTarget, c.rec.source,
                        c.rec.fact, c.rec.override)
           /\ answered' = answered \cup {[rec |-> c.rec, resolution |-> Resolution(c),
                                          label |-> Len(labels) + 1]}
    /\ call' = [call EXCEPT ![w] = Idle]
    /\ UNCHANGED <<events, crashes>>

\* The process stops between two store calls; nothing is answered.
Crash ==
    /\ crashes < MaxCrashes
    /\ \E w \in Reporter : call[w] # Idle
    /\ call' = [w \in Reporter |-> Idle]
    /\ crashes' = crashes + 1
    /\ UNCHANGED <<storeVars, events, answered>>

-----------------------------------------------------------------------------
(* The other writers of the same cells.                                    *)

\* build_event and the what-if score log a decision, and the scorer then
\* records its own call against it.
MachineCall ==
    \E d \in decided, fact \in Fact :
        add_label(SubjectOf[d], d, OutcomeTarget, "heuristic", fact, FALSE)

\* close_loop: the disposition of an analyst, keyed by the transaction alone.
Disposition ==
    \E s \in Subject, fact \in Fact :
        add_label(s, NoDecision, OutcomeTarget, "analyst", fact, FALSE)

-----------------------------------------------------------------------------

LedgerInit ==
    /\ Init
    /\ events = [e \in {} |-> 0]
    /\ call = [w \in Reporter |-> Idle]
    /\ answered = {}
    /\ crashes = 0

record_outcome(w) == ReadStanding(w) \/ AppendEvent(w) \/ AssertOutcome(w)

LedgerNext ==
    \/ \E w \in Reporter : record_outcome(w)
    \/ Crash
    \/ (LogDecision \/ MachineCall \/ Disposition) /\ UNCHANGED ledgerVars

LedgerSpec == LedgerInit /\ [][LedgerNext]_vars

-----------------------------------------------------------------------------
(* disagreements(): subjects two gold sources said different things about. *)

\* Mutant: only what currently stands is compared.
GoldHistory_Standing(s) == {i \in StandingOutcomes(s) : labels[i].source \in GOLD_SOURCES}

GoldHistory(s) == {i \in OutcomesOf(s) : labels[i].source \in GOLD_SOURCES}

\* Two gold sources said different things about the subject.
Disputed(s) ==
    \E i, j \in GoldHistory(s) : labels[i].fact.outcome # labels[j].fact.outcome

StandingRows ==
    {i \in DOMAIN labels : labels[i].target = OutcomeTarget /\ IsCurrent(labels[i])}

Newer(rows, i) == {j \in rows : i < j}

\* The newest standing labels, whoever wrote them: ORDER BY ts DESC LIMIT.
labels_for_target ==
    {i \in StandingRows : Cardinality(Newer(StandingRows, i)) < Limit * ScanFactor}

\* A subject is met at the newest of its rows read, and judged on its whole
\* gold history.
Found ==
    {i \in labels_for_target :
        /\ labels[i].subject # NoSubject
        /\ \A j \in Newer(labels_for_target, i) : labels[j].subject # labels[i].subject
        /\ Disputed(labels[i].subject)}

\* The scan stops once Limit subjects are listed.
disagreements ==
    {labels[i].subject : i \in {k \in Found : Cardinality(Newer(Found, k)) < Limit}}

-----------------------------------------------------------------------------
(* Properties.                                                             *)

LedgerTypeOK ==
    /\ TypeOK
    /\ \A w \in Reporter : call[w] # Idle =>
          /\ call[w].pc \in {"read", "filed"} /\ call[w].rec \in Feed
          /\ call[w].standing \in {0} \cup DOMAIN labels
    /\ \A e \in DOMAIN events : events[e].subject \in Subject
    /\ \A a \in answered : a.rec \in Feed /\ a.label \in {0} \cup DOMAIN labels

\* "The evidence should never be discarded": whatever record_outcome answered
\* (accepted, outranked, override or duplicate), the report is in the label
\* history of its subject, and a source that reported is never forgotten.
EvidenceOnRecord ==
    \A a \in answered : \E i \in OutcomesOf(a.rec.subject) :
        labels[i].source = a.rec.source /\ labels[i].fact = a.rec.fact

\* "An outcome is written twice on purpose": the label a report was answered
\* with has an event beside it.  It is the report's own, unless the report has
\* a reference and its own source gave that reference to another outcome:
\* never one of another source, and never for a report without a reference.
EventYieldsToItsReference ==
    \A a \in answered : a.label # 0 =>
        /\ EventId(a.rec) \in DOMAIN events
        /\ \E q \in Feed :
              /\ events[EventId(a.rec)] = Outcome(q)
              /\ q.source = a.rec.source
              /\ q.reference = a.rec.reference
              /\ a.rec.reference = NoReference => Outcome(q) = Outcome(a.rec)

\* The subjects in dispute whose standing outcome is newer than all of s's.
Ahead(s) ==
    {t \in Subject : /\ Disputed(t)
                     /\ \E j \in StandingOutcomes(t) :
                           \A i \in StandingOutcomes(s) : i < j}

\* "disagreements() surfaces it": once two gold sources have been answered
\* with different outcomes for a subject, the subject is listed, whichever of
\* them won; it is left out only behind Limit subjects in dispute that are
\* newer, or behind the labels that fill the scan.
DisagreementSurfaced ==
    \A a, b \in answered :
        /\ a.rec.subject = b.rec.subject
        /\ {a.rec.source, b.rec.source} \subseteq GOLD_SOURCES
        /\ a.rec.fact.outcome # b.rec.fact.outcome
        => \/ a.rec.subject \in disagreements
           \/ Cardinality(Ahead(a.rec.subject)) >= Limit
           \/ \A i \in StandingOutcomes(a.rec.subject) :
                 Cardinality(Newer(StandingRows, i)) >= Limit * ScanFactor

\* "Stable id so re-reading yesterday's file writes nothing new": a record
\* sent again never gets a second label.
RereadWritesNothing ==
    \A a, b \in answered :
        a.rec = b.rec /\ a.label # 0 /\ b.label # 0 => a.label = b.label
=============================================================================
