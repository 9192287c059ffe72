---------------------------- MODULE DecisionPath ----------------------------
(***************************************************************************)
(* The three doors a payment is decided at and what each leaves on record: *)
(* build_event (/ingest, the stream, the connectors), /score (what-if) and *)
(* /authorize (the card network).  A door computes its verdict from the    *)
(* message and the loaded sanctions list, then writes the trail in several *)
(* store calls, each best effort, and answers.                             *)
(*                                                                         *)
(* Left out of build_event: the drift buffer, and the motive label that     *)
(* follows the outcome label when the client reported telemetry.           *)
(*                                                                         *)
(* Callers run on several threads and clients retry, so two calls about    *)
(* one payment may interleave between any two writes; all rows but the     *)
(* what-if ones have ids made from the payment and are replaced.           *)
(***************************************************************************)
EXTENDS DecisionPolicy

CONSTANTS
    Caller,         \* threads serving the doors
    Ref,            \* payment references: transaction id, arn, rrn
    NoRef,          \* a card message without any reference
    Spelling,       \* the payment_rail of a payment, as its sender spells it
    Match,          \* what a loaded sanctions list says of its parties
    Sampled,        \* references whose hash is in the holdout slice
    Assess,         \* what a payment may look like when it is scored
    MaxCalls,       \* bound on the calls
    MaxStops        \* bound on failed writes and restarts

Enforced == {"dec", "auth"}     \* prefixes of enforced decision ids

ASSUME PathAssumption ==
    /\ NoRef \notin Ref
    /\ Sampled \subseteq Ref
    /\ DOMAIN Spelling = Ref /\ DOMAIN Match = Ref \cup {NoRef}

VARIABLES
    listFile,       \* whether the sanctions list can be loaded from disk
    list,           \* _LIST: unread, or what loading it gave
    decisions,      \* enforced rows by id, or NoRow
    whatifs,        \* number of shadow rows, each under an id of its own
    txn,            \* is_alert of the transaction event, or NoEvent
    alerts,         \* payments with an alert event
    cards,          \* action of the card_authorization event, or NoEvent
    machine,        \* the scorer's last outcome label, or NoLabel
    call,           \* per caller its call
    answers,        \* history: what was answered
    verdicts,       \* history: rows the enforced doors decided on, by id
    seen,           \* history: calls per id
    calls, stops    \* counters of the bounds

store == <<decisions, whatifs, txn, alerts, cards, machine>>
vars == <<listFile, list, store, call, answers, verdicts, seen, calls, stops>>

NoRow == [action |-> "none", released |-> FALSE, band |-> "none", rail |-> "none"]
NoEvent == "none"
NoLabel == "none"
Idle == [pc |-> "idle"]

DecisionId == Enforced \X Ref

Row(c) == [action |-> c.verdict.enforced, released |-> c.verdict.released,
           band |-> c.a.band, rail |-> c.rail]

Goto(w, pc) == call' = [call EXCEPT ![w].pc = pc]

-----------------------------------------------------------------------------
(* A call comes in.                                                        *)

\* get_list(): read once, whatever that gave.
Loaded == IF list = "unread" THEN listFile ELSE list

\* The first write of a door.  A screened payment leaves no trail at the first
\* two doors; an authorization nobody could join an outcome to is not recorded.
FirstWrite(door, ref, scr) ==
    CASE door = "auth" -> IF ref = NoRef THEN "answer" ELSE "decision"
      [] door = "dec" -> IF scr = "clear" THEN "txn" ELSE "answer"
      [] door = "score" -> IF scr = "clear" THEN "whatif" ELSE "answer"

VerdictAt(door, ref, rail, a, scr) ==
    IF door = "auth" THEN AuthorizeVerdict(scr, a, ref \in Sampled)
    ELSE IF scr # "clear" THEN Verdict("BLOCK", NoCode, FALSE)
    ELSE IF door = "dec" THEN EventVerdict(rail, a, ref \in Sampled)
    ELSE ScoreVerdict(rail, a)

Receive(w, door, ref, rail, a) ==
    LET scr == screen(Loaded, Match[ref])
        v == VerdictAt(door, ref, rail, a, scr)
        c == [pc |-> FirstWrite(door, ref, scr), door |-> door, ref |-> ref, a |-> a,
              rail |-> rail, list |-> Loaded, verdict |-> v, recorded |-> FALSE]
        id == <<door, ref>>
    IN  /\ call[w] = Idle
        /\ calls < MaxCalls
        /\ calls' = calls + 1
        /\ list' = Loaded
        /\ call' = [call EXCEPT ![w] = c]
        /\ IF id \in DecisionId
           THEN /\ seen' = [seen EXCEPT ![id] = @ + 1]
                /\ verdicts' = IF c.pc = "answer" THEN verdicts
                               ELSE [verdicts EXCEPT ![id] = @ \cup {Row(c)}]
           ELSE UNCHANGED <<seen, verdicts>>
        /\ UNCHANGED <<listFile, store, answers, stops>>

\* validate_event puts the canonical rail into what /ingest, the stream, the
\* connectors and the webhooks hand to build_event; the replay, /alerts and
\* the case files hand over a row of the dataset as it is spelled.
BuildEvent(w) ==
    \E ref \in Ref, a \in Assess :
        \E rail \in {normalize_rail(Spelling[ref]), Spelling[ref]} :
            Receive(w, "dec", ref, rail, a)

\* /score validates nothing.
Score(w) == \E ref \in Ref, a \in Assess : Receive(w, "score", ref, Spelling[ref], a)

CardRef == {r \in Ref : normalize_rail(Spelling[r]) = "card"}

Authorize(w) ==
    \E ref \in CardRef \cup {NoRef}, a \in Assess : Receive(w, "auth", ref, "card", a)

-----------------------------------------------------------------------------
(* The trail, one store call at a time.                                    *)

\* event["is_alert"] once the holdout has spoken.
EventAlert(c) == Alerts(c.a) /\ ~c.verdict.released

\* record_scored_event, the transaction event and, if it fired, the alert.
AppendTransaction(w) ==
    /\ call[w].pc = "txn"
    /\ LET alert == EventAlert(call[w])
       IN  /\ txn' = [txn EXCEPT ![call[w].ref] = IF alert THEN "alert" ELSE "quiet"]
           /\ Goto(w, IF alert THEN "alert" ELSE "decision")
    /\ UNCHANGED <<decisions, whatifs, alerts, cards, machine>>

AppendAlert(w) ==
    /\ call[w].pc = "alert"
    /\ alerts' = alerts \cup {call[w].ref}
    /\ Goto(w, "decision")
    /\ UNCHANGED <<decisions, whatifs, txn, cards, machine>>

\* INSERT OR REPLACE under "dec:" + tid or "auth:" + hash(ref).
LogDecision(w) ==
    LET c == call[w]
    IN  /\ c.pc = "decision"
        /\ decisions' = [decisions EXCEPT ![<<c.door, c.ref>>] = Row(c)]
        /\ call' = [call EXCEPT ![w].pc = IF c.door = "auth" THEN "card" ELSE "label",
                                ![w].recorded = TRUE]
        /\ UNCHANGED <<whatifs, txn, alerts, cards, machine>>

\* The scorer's own call, from the score and never from the action.
AddModelCall(w) ==
    /\ call[w].pc = "label"
    /\ machine' = [machine EXCEPT ![call[w].ref] =
                     IF ModelCall(call[w].a) THEN "fraud" ELSE "legit"]
    /\ Goto(w, "answer")
    /\ UNCHANGED <<decisions, whatifs, txn, alerts, cards>>

LogWhatIf(w) ==
    /\ call[w].pc = "whatif"
    /\ whatifs' = whatifs + 1
    /\ Goto(w, "answer")
    /\ UNCHANGED <<decisions, txn, alerts, cards, machine>>

\* record_card_authorization, with the action the answer carries.
AppendCardEvent(w) ==
    /\ call[w].pc = "card"
    /\ cards' = [cards EXCEPT ![call[w].ref] = call[w].verdict.enforced]
    /\ Goto(w, "answer")
    /\ UNCHANGED <<decisions, whatifs, txn, alerts, machine>>

Write(w) ==
    /\ \/ AppendTransaction(w) \/ AppendAlert(w) \/ LogDecision(w) \/ AddModelCall(w)
       \/ LogWhatIf(w) \/ AppendCardEvent(w)
    /\ UNCHANGED <<listFile, list, answers, verdicts, seen, calls, stops>>

\* Where a door goes on when a write raises: the trail is one try, the decision
\* and the label another; an authorization still tries its event.
AfterFailure(c) ==
    CASE c.pc \in {"txn", "alert"} -> [c EXCEPT !.pc = "decision"]
      [] c.pc = "decision" -> [c EXCEPT !.pc = IF c.door = "auth" THEN "card" ELSE "answer"]
      [] c.pc \in {"label", "whatif", "card"} -> [c EXCEPT !.pc = "answer"]

StoreRaises(w) ==
    /\ stops < MaxStops
    /\ call[w].pc \notin {"idle", "answer"}
    /\ stops' = stops + 1
    /\ call' = [call EXCEPT ![w] = AfterFailure(@)]
    /\ UNCHANGED <<listFile, list, store, answers, verdicts, seen, calls>>

Answer(w) ==
    LET c == call[w]
    IN  /\ c.pc = "answer"
        /\ answers' = answers \cup
             {[door |-> c.door, ref |-> c.ref, list |-> c.list, action |-> c.verdict.enforced,
               code |-> c.verdict.code, released |-> c.verdict.released,
               recorded |-> c.recorded, rail |-> c.rail, band |-> c.a.band]}
        /\ call' = [call EXCEPT ![w] = Idle]
        /\ UNCHANGED <<listFile, list, store, verdicts, seen, calls, stops>>

-----------------------------------------------------------------------------
(* What else happens.                                                      *)

\* The list file is replaced, or lost, behind the running process.
SwapList ==
    /\ listFile' \in {"available", "unavailable"} \ {listFile}
    /\ UNCHANGED <<list, store, call, answers, verdicts, seen, calls, stops>>

Restart ==
    /\ stops < MaxStops
    /\ list # "unread"
    /\ stops' = stops + 1
    /\ list' = "unread"
    /\ call' = [w \in Caller |-> Idle]
    /\ UNCHANGED <<listFile, store, answers, verdicts, seen, calls>>

Init ==
    /\ listFile \in {"available", "unavailable"} /\ list = "unread"
    /\ decisions = [id \in DecisionId |-> NoRow]
    /\ whatifs = 0
    /\ txn = [r \in Ref |-> NoEvent]
    /\ alerts = {}
    /\ cards = [r \in Ref |-> NoEvent]
    /\ machine = [r \in Ref |-> NoLabel]
    /\ call = [w \in Caller |-> Idle]
    /\ answers = {}
    /\ verdicts = [id \in DecisionId |-> {}]
    /\ seen = [id \in DecisionId |-> 0]
    /\ calls = 0 /\ stops = 0

Next ==
    \/ \E w \in Caller : BuildEvent(w) \/ Score(w) \/ Authorize(w) \/ Write(w)
                         \/ StoreRaises(w) \/ Answer(w)
    \/ SwapList \/ Restart

Spec == Init /\ [][Next]_vars

-----------------------------------------------------------------------------
(* Properties.                                                             *)

PathTypeOK ==
    /\ list \in {"unread", "available", "unavailable"}
    /\ whatifs \in Nat /\ alerts \subseteq Ref
    /\ \A id \in DecisionId : decisions[id].action \in Action \cup {"STAND_IN", "none"}
    /\ txn \in [Ref -> {NoEvent, "alert", "quiet"}]
    /\ \A w \in Caller : call[w] # Idle =>
          /\ call[w].ref \in Ref \cup {NoRef} /\ call[w].a \in Assess
          /\ call[w].recorded => call[w].pc \in {"label", "card", "answer"}

Prohibited(x) == Match[x.ref] # "clear" \/ x.list = "unavailable"

\* "a payment to a designated party cannot be approved at any score": nor can
\* one that could not be screened, at any door, through retries, a list that
\* disappears and restarts; and build_event never puts an enforced decision on
\* record for a listed party.
ProhibitedNeverThrough ==
    /\ \A x \in answers : Prohibited(x) =>
          IF x.door = "auth" THEN x.code # "00" ELSE x.action = "BLOCK"
    /\ \A r \in Ref : Match[r] # "clear" => decisions[<<"dec", r>>] = NoRow

\* "irrevocable: never silently allow at this risk, never auto-decline either":
\* whatever the price said, a payment whose rail reaches the table under the
\* table's own name for a push rail is stopped or stepped up when it is risky,
\* and not blocked below severe, on record and in what-ifs.  Only the holdout
\* lets it go, and then the row says so.
PolicyBinds(x) ==
    x.rail \in PushRail =>
        /\ x.band \in {"high", "severe"} /\ ~x.released => x.action \notin LetsGo
        /\ x.band = "high" => x.action \notin {"BLOCK", "DECLINE"}

IrrevocableNeverSilent ==
    /\ \A id \in DecisionId : PolicyBinds(decisions[id])
    /\ \A x \in answers : x.list = "available" /\ Match[x.ref] = "clear" => PolicyBinds(x)

\* "THE RAIL IS CANONICALISED, NEVER COMPARED TO A LITERAL": the same for every
\* spelling of a push rail.  It does not hold: the model is chosen by the
\* canonical rail, the policy rule by the literal, and a "fedwire" that no
\* intake validated meets the default rule, whose floor is ALLOW.
SynonymsAreBound ==
    \A x \in answers : x.list = "available" /\ Match[x.ref] = "clear" =>
        PolicyBinds([x EXCEPT !.rail = normalize_rail(@)])

\* "recorded": an authorization that says so has its row, and the row and the
\* answer agree as long as the payment was not sent twice.
RecordedIsOnRecord ==
    \A x \in answers : x.door = "auth" /\ x.recorded =>
        /\ decisions[<<"auth", x.ref>>] # NoRow
        /\ seen[<<"auth", x.ref>>] = 1 =>
              /\ decisions[<<"auth", x.ref>>].action = x.action
              /\ decisions[<<"auth", x.ref>>].released = x.released

\* An enforced row is one that its own door decided on for this payment: what
\* another door or a what-if computed about it never replaces it.
EnforcedRowIsDecided ==
    \A id \in DecisionId : decisions[id] # NoRow => decisions[id] \in verdicts[id]

\* "the backbone records the action actually enforced": an alert event has its
\* transaction; scored once, a payment released by the holdout raised none,
\* and one whose event is an alert has it as soon as the decision is on record.
AlertsFollowTrail ==
    \A r \in Ref :
        /\ r \in alerts => txn[r] # NoEvent
        /\ seen[<<"dec", r>>] = 1 =>
              /\ decisions[<<"dec", r>>].released => r \notin alerts
              /\ stops = 0 /\ decisions[<<"dec", r>>] # NoRow => (txn[r] = "alert" <=> r \in alerts)

\* The machine's label never stands without the decision it belongs to, and
\* for a payment scored once it is the call of that decision's score.
LabelHasItsDecision ==
    \A r \in Ref : machine[r] # NoLabel =>
        /\ decisions[<<"dec", r>>] # NoRow
        /\ seen[<<"dec", r>>] = 1 =>
              (machine[r] = "fraud" <=> decisions[<<"dec", r>>].band \in {"high", "severe"})

\* _persist_authorization: "The response has to reflect what was ENFORCED, not
\* what was proposed, or the holdout is a fiction."
ReleaseReachesTheNetwork ==
    \A x \in answers : x.door = "auth" /\ x.released => x.code = "00"
=============================================================================
