---------------------------- MODULE FeedbackLoop ----------------------------
(***************************************************************************)
(* POST /feedback: what one disposition of an analyst sets in motion.      *)
(* FeedbackStore.record (feedback.py) updates the live reputation, the     *)
(* retrain log and the tally in memory; close_loop (core/loop.py) then     *)
(* mirrors the disposition onto the store: events, the recipient's         *)
(* counters, the retrain queue and the labels.                             *)
(*                                                                         *)
(* The handler is synchronous and runs on a thread pool, so two of them    *)
(* interleave between any two store calls.  close_loop holds no lock while *)
(* it increments: it reads the entity, adds one in Python and merges the   *)
(* sum back, three separate calls.                                         *)
(***************************************************************************)
EXTENDS LabelStore

CONSTANTS
    Handler,            \* threads of the pool serving /feedback
    Recipient,          \* payees
    NoRecipient,        \* recipient_id = ''
    Body,               \* the requests analysts and systems may post
    OutcomeTarget,      \* ("outcome", "is_fraud")
    MotiveTarget,       \* ("intent", "motive"), one of the intent labels
    MaxPosts,           \* bound on the requests
    MaxStops            \* bound on crashes and failed writes

Class == {"fraud", "legit", "other"}

\* _outcome_source: the label store speaks in LABEL_SOURCES.
outcome_source(source) ==
    IF source \in {"investigator", "analyst", ""} THEN "analyst" ELSE source

ASSUME FeedbackAssumption ==
    /\ IsFiniteSet(Handler)
    /\ {OutcomeTarget, MotiveTarget} \subseteq Target
    /\ NoRecipient \notin Recipient
    /\ \A b \in Body : /\ b.transaction \in Subject
                       /\ b.recipient \in Recipient \cup {NoRecipient}
                       /\ b.class \in Class
                       /\ {outcome_source(b.source), "analyst"} \subseteq Source
                       /\ b.fact \in Fact
                       /\ b.intent \in BOOLEAN

VARIABLES
    live,           \* the in-memory RecipientReputation, as the counts behind its rate
    logged,         \* feedback_log.jsonl, as its number of lines per class
    counts,         \* FeedbackStore.counts
    entity,         \* per recipient the reputation column of its entity, or NoEntity
    trail,          \* the disposition and feedback events, by transaction
    queued,         \* number of model_update events: the retrain queue
    call,           \* per thread, the locals of its request
    posts, stops,   \* counters of the bounds
    filed,          \* history: verdicts merged into the entity, per recipient
    unlogged,       \* history: entries whose log line could not be written
    raced,          \* history: recipients two requests were ever updating at once
    receipts        \* history: verdicts answered with a receipt, per transaction and source

loopVars == <<live, logged, counts, entity, trail, queued, call, posts, stops,
              filed, unlogged, raced, receipts>>
vars == <<storeVars, loopVars>>

loopVarsButCall == <<live, logged, counts, entity, trail, queued, posts, stops,
                     filed, unlogged, raced, receipts>>

Untouched == [tx |-> 0, fraud |-> 0]
NoRate == [tx |-> -1, fraud |-> -1]
NoEntity == [tx |-> -1, fraud |-> -1, rate |-> NoRate]
Idle == [pc |-> "idle"]

IsVerdict(b) == b.class # "other"
FraudOf(b) == IF b.class = "fraud" THEN 1 ELSE 0
Tallied(t, b) == [tx |-> t.tx + 1, fraud |-> t.fraud + FraudOf(b)]

Goto(w, pc) == call' = [call EXCEPT ![w].pc = pc]

\* The part of a request in which it owes the recipient an update.
Updating == {"log", "count", "write", "event", "entity", "create", "patch"}

UpdatingNow(r) == {w \in Handler : call[w] # Idle /\ call[w].body.recipient = r
                                                  /\ call[w].pc \in Updating}

-----------------------------------------------------------------------------
(* FeedbackStore.record.                                                   *)

\* The online update.  A label of neither class, or no recipient, updates
\* nothing; an update that raises leaves the request without a rate.
Post(w, b) ==
    /\ call[w] = Idle
    /\ posts < MaxPosts
    /\ posts' = posts + 1
    /\ IF ~IsVerdict(b) \/ b.recipient = NoRecipient
       THEN /\ call' = [call EXCEPT ![w] = [pc |-> "log", body |-> b, rate |-> NoRate]]
            /\ UNCHANGED <<live, stops>>
       ELSE \/ LET updated == Tallied(live[b.recipient], b)
               IN  /\ live' = [live EXCEPT ![b.recipient] = updated]
                   /\ call' = [call EXCEPT ![w] = [pc |-> "log", body |-> b, rate |-> updated]]
                   /\ UNCHANGED stops
            \/ /\ stops < MaxStops
               /\ stops' = stops + 1
               /\ call' = [call EXCEPT ![w] = [pc |-> "log", body |-> b, rate |-> NoRate]]
               /\ UNCHANGED live
    /\ raced' = IF UpdatingNow(b.recipient) = {} THEN raced ELSE raced \cup {b.recipient}
    /\ UNCHANGED <<storeVars, logged, counts, entity, trail, queued, filed, unlogged, receipts>>

\* A write that fails is swallowed and the request goes on.
AppendLog(w) ==
    /\ call[w].pc = "log"
    /\ LET c == call[w].body.class
       IN  \/ /\ logged' = [logged EXCEPT ![c] = @ + 1]
              /\ UNCHANGED <<stops, unlogged>>
           \/ /\ stops < MaxStops
              /\ stops' = stops + 1
              /\ unlogged' = [unlogged EXCEPT ![c] = @ + 1]
              /\ UNCHANGED logged
    /\ Goto(w, "count")
    /\ UNCHANGED <<storeVars, live, counts, entity, trail, queued, posts, filed, raced, receipts>>

\* _tally: counts[c] = counts.get(c, 0) + 1, without a lock.
ReadCount(w) ==
    /\ call[w].pc = "count"
    /\ call' = [call EXCEPT ![w] = [pc |-> "write", body |-> @.body, rate |-> @.rate,
                                    read |-> counts[@.body.class]]]
    /\ UNCHANGED <<storeVars, loopVarsButCall>>

WriteCount(w) ==
    /\ call[w].pc = "write"
    /\ counts' = [counts EXCEPT ![call[w].body.class] = call[w].read + 1]
    /\ Goto(w, "event")
    /\ UNCHANGED <<storeVars, live, logged, entity, trail, queued, posts, stops,
                   filed, unlogged, raced, receipts>>

-----------------------------------------------------------------------------
(* close_loop.                                                             *)

\* append_event("disposition", event_id="disp:" + tid), INSERT OR REPLACE.
AppendDisposition(w) ==
    /\ call[w].pc = "event"
    /\ LET b == call[w].body
       IN  /\ trail' = [trail EXCEPT ![b.transaction].disposition = b.class]
           /\ Goto(w, IF b.recipient = NoRecipient THEN "feedback" ELSE "entity")
    /\ UNCHANGED <<storeVars, live, logged, counts, entity, queued, posts, stops,
                   filed, unlogged, raced, receipts>>

\* Mutant: what the entity already holds is not looked at.
GetEntity_Blank(w) ==
    /\ call[w].pc = "entity"
    /\ call' = [call EXCEPT ![w] = [pc |-> "create", body |-> @.body, rate |-> @.rate,
                                    before |-> Untouched]]
    /\ UNCHANGED <<storeVars, loopVarsButCall>>

\* before = get_entity(rec_id).reputation; a missing entity is created with
\* zero counters first.
GetEntity(w) ==
    /\ call[w].pc = "entity"
    /\ LET held == entity[call[w].body.recipient]
       IN  call' = [call EXCEPT ![w] =
                      [pc |-> IF held = NoEntity THEN "create" ELSE "patch",
                       body |-> @.body, rate |-> @.rate,
                       before |-> IF held = NoEntity THEN Untouched
                                  ELSE [tx |-> held.tx, fraud |-> held.fraud]]]
    /\ UNCHANGED <<storeVars, loopVarsButCall>>

\* upsert_entity merges the zeros over whatever another thread wrote since.
CreateEntity(w) ==
    /\ call[w].pc = "create"
    /\ entity' = [entity EXCEPT ![call[w].body.recipient] =
                    [tx |-> 0, fraud |-> 0, rate |-> @.rate]]
    /\ Goto(w, "patch")
    /\ UNCHANGED <<storeVars, live, logged, counts, trail, queued, posts, stops,
                   filed, unlogged, raced, receipts>>

\* The stored reputation with the patch merged over it.
Patched(held, c) ==
    [tx |-> Tallied(c.before, c.body).tx, fraud |-> Tallied(c.before, c.body).fraud,
     rate |-> IF c.rate = NoRate THEN held.rate ELSE c.rate]

\* update_reputation, skipped when the patch is empty (no verdict).
UpdateReputation(w) ==
    /\ call[w].pc = "patch"
    /\ LET c == call[w]
           r == c.body.recipient
       IN  IF IsVerdict(c.body)
           THEN /\ entity' = [entity EXCEPT ![r] = Patched(@, c)]
                /\ filed' = [filed EXCEPT ![r] = Tallied(@, c.body)]
           ELSE UNCHANGED <<entity, filed>>
    /\ Goto(w, "feedback")
    /\ UNCHANGED <<storeVars, live, logged, counts, trail, queued, posts, stops,
                   unlogged, raced, receipts>>

AfterTrail(b) == IF IsVerdict(b) THEN "queue" ELSE IF b.intent THEN "intent" ELSE "answer"

AppendFeedback(w) ==
    /\ call[w].pc = "feedback"
    /\ LET b == call[w].body
       IN  /\ trail' = [trail EXCEPT ![b.transaction].feedback = b.class]
           /\ Goto(w, AfterTrail(b))
    /\ UNCHANGED <<storeVars, live, logged, counts, entity, queued, posts, stops,
                   filed, unlogged, raced, receipts>>

\* append_event("model_update") with a fresh event id.
QueueRetrain(w) ==
    /\ call[w].pc = "queue"
    /\ queued' = queued + 1
    /\ Goto(w, "label")
    /\ UNCHANGED <<storeVars, live, logged, counts, entity, trail, posts, stops,
                   filed, unlogged, raced, receipts>>

\* Mutant: the label is filed under its transaction only the first time.
AddOutcomeLabel_Once(w) ==
    /\ call[w].pc = "label"
    /\ LET b == call[w].body
       IN  IF \E i \in DOMAIN labels : labels[i].subject = b.transaction
           THEN UNCHANGED storeVars
           ELSE add_label(b.transaction, NoDecision, OutcomeTarget,
                          outcome_source(b.source), b.fact, FALSE)
    /\ Goto(w, IF call[w].body.intent THEN "intent" ELSE "answer")
    /\ UNCHANGED loopVarsButCall

AddOutcomeLabel(w) ==
    /\ call[w].pc = "label"
    /\ LET b == call[w].body
       IN  add_label(b.transaction, NoDecision, OutcomeTarget,
                     outcome_source(b.source), b.fact, FALSE)
    /\ Goto(w, IF call[w].body.intent THEN "intent" ELSE "answer")
    /\ UNCHANGED loopVarsButCall

\* Adjudicated intent is ground truth whatever the source of the disposition.
AddIntentLabel(w) ==
    /\ call[w].pc = "intent"
    /\ LET b == call[w].body
       IN  add_label(b.transaction, NoDecision, MotiveTarget, "analyst", b.fact, FALSE)
    /\ Goto(w, "answer")
    /\ UNCHANGED loopVarsButCall

Answer(w) ==
    /\ call[w].pc = "answer"
    /\ LET b == call[w].body
       IN  receipts' = IF IsVerdict(b)
                       THEN [receipts EXCEPT ![<<b.transaction, outcome_source(b.source)>>] = @ + 1]
                       ELSE receipts
    /\ call' = [call EXCEPT ![w] = Idle]
    /\ UNCHANGED <<storeVars, live, logged, counts, entity, trail, queued, posts, stops,
                   filed, unlogged, raced>>

-----------------------------------------------------------------------------
(* What else happens.                                                      *)

\* "a backbone failure must not fail the disposition": a store call raises,
\* the rest of close_loop is skipped and the request answered without receipt.
StoreRaises(w) ==
    /\ stops < MaxStops
    /\ call[w] # Idle
    /\ call[w].pc \in {"event", "entity", "create", "patch", "feedback",
                       "queue", "label", "intent", "answer"}
    /\ call' = [call EXCEPT ![w] = Idle]
    /\ stops' = stops + 1
    /\ UNCHANGED <<storeVars, live, logged, counts, entity, trail, queued, posts,
                   filed, unlogged, raced, receipts>>

\* _load_existing: the tally is rebuilt from the log.
LoadExisting == counts' = logged

\* The process stops and comes up again: handlers are gone, the reputation is
\* read from the file of the last build, the tally from the log.
Restart ==
    /\ stops < MaxStops
    /\ posts > 0
    /\ stops' = stops + 1
    /\ call' = [w \in Handler |-> Idle]
    /\ live' = [r \in Recipient |-> Untouched]
    /\ LoadExisting
    /\ UNCHANGED <<storeVars, logged, entity, trail, queued, posts, filed, unlogged,
                   raced, receipts>>

\* The scorer sees a payee for the first time: an entity without counters,
\* which close_loop reads as zeros.
ScoredFirst(r) ==
    /\ entity[r] = NoEntity
    /\ entity' = [entity EXCEPT ![r] = [tx |-> 0, fraud |-> 0, rate |-> NoRate]]
    /\ UNCHANGED <<storeVars, live, logged, counts, trail, queued, call, posts, stops,
                   filed, unlogged, raced, receipts>>

-----------------------------------------------------------------------------

NoClasses == [c \in Class |-> 0]

LoopInit ==
    /\ Init
    /\ live = [r \in Recipient |-> Untouched]
    /\ logged = NoClasses /\ counts = NoClasses /\ unlogged = NoClasses
    /\ entity = [r \in Recipient |-> NoEntity]
    /\ trail = [t \in Subject |-> [disposition |-> "none", feedback |-> "none"]]
    /\ queued = 0
    /\ call = [w \in Handler |-> Idle]
    /\ posts = 0 /\ stops = 0
    /\ filed = [r \in Recipient |-> Untouched]
    /\ raced = {}
    /\ receipts = [p \in Subject \X Source |-> 0]

record(w) == AppendLog(w) \/ ReadCount(w) \/ WriteCount(w)

close_loop(w) ==
    \/ AppendDisposition(w) \/ GetEntity(w) \/ CreateEntity(w) \/ UpdateReputation(w)
    \/ AppendFeedback(w) \/ QueueRetrain(w) \/ AddOutcomeLabel(w) \/ AddIntentLabel(w)
    \/ Answer(w)

LoopNext ==
    \/ \E w \in Handler : (\E b \in Body : Post(w, b)) \/ record(w) \/ close_loop(w)
                          \/ StoreRaises(w)
    \/ Restart
    \/ \E r \in Recipient : ScoredFirst(r)

LoopSpec == LoopInit /\ [][LoopNext]_vars

-----------------------------------------------------------------------------
(* Properties.                                                             *)

Outcomes(t) ==
    {i \in DOMAIN labels : labels[i].subject = t /\ labels[i].target = OutcomeTarget}

Counter == {-1} \cup Nat

LoopTypeOK ==
    /\ TypeOK
    /\ \A r \in Recipient : /\ live[r].tx \in Nat /\ live[r].fraud \in Nat
                            /\ entity[r].tx \in Counter /\ entity[r].fraud \in Counter
    /\ counts \in [Class -> Nat] /\ logged \in [Class -> Nat] /\ queued \in Nat
    /\ \A w \in Handler : call[w] # Idle => call[w].body \in Body
    /\ raced \subseteq Recipient \cup {NoRecipient}

\* The durable counters of a payee stay a rate: never more frauds than
\* payments, whatever two handlers overwrite of each other, because both
\* counters always travel in one patch computed from one read.
FraudWithinTotal ==
    \A r \in Recipient : entity[r].fraud <= entity[r].tx

\* A disposition moves the payee's durable counters by one and never by more:
\* overlapping requests may lose updates of each other, they never invent any,
\* and where no two requests ever overlapped the counters are exact, failed
\* writes and restarts included.
DispositionsCounted ==
    \A r \in Recipient :
        /\ entity[r].tx <= filed[r].tx /\ entity[r].fraud <= filed[r].fraud
        /\ r \notin raced /\ entity[r] # NoEntity =>
               entity[r].tx = filed[r].tx /\ entity[r].fraud = filed[r].fraud

\* The rate in the store, which outlives the process, is the live layer's:
\* once the requests about a payee are through, without overlap or failure,
\* the store holds the live rate.
DurableFollowsLive ==
    \A r \in Recipient :
        r \notin raced /\ stops = 0 /\ UpdatingNow(r) = {} /\ live[r].tx > 0
        => entity[r].rate = live[r]

\* "queued_for_retrain": the tally never promises the rebuild an example the
\* log does not hold, except for lines whose write failed.
TallyWithinLog ==
    \A c \in Class : counts[c] <= logged[c] + unlogged[c]

\* "Revisions supersede rather than overwrite": as many outcome labels of a
\* source as it was given receipts are in the history of the transaction.
NoDispositionLost ==
    \A t \in Subject, s \in Source :
        Cardinality({i \in Outcomes(t) : labels[i].source = s}) >= receipts[<<t, s>>]
=============================================================================
