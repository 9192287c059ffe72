# A verification project for the RedWing operator

RedWing is a single-process FastAPI service that scores payments, records every
decision, collects the labels that say what the payments turned out to be, and
trains and grades its models on them. This directory holds TLA+ modules for the
parts of it where order, failure and concurrency decide whether the record stays
right, TLC configurations that check them on small instances, and TLAPS proofs of
the invariants for instances of any size.

- [The system](#the-system): components, state, operations, interactions, hard behaviour
- [The modules](#the-modules): what each models and how it corresponds to the code
- [The runs](#the-runs): the question each asks, its bounds, what it shows
- [Fairness](#fairness)
- [The proofs](#the-proofs)
- [Findings](#findings)
- [What is not modelled](#what-is-not-modelled)
- [Plan](#plan)

## The system

One Python process. Synchronous handlers run on a thread pool, asynchronous ones
and the background tasks on the event loop; `main.py` (startup) launches the agent
loop, the graph refresh loop, one stream consumer loop and one connector poll loop.
Two SQLite databases back it: the *store* (`core/store.py`) and the *transport*
(`core/stream.py`), which commit independently. Source files, tables and outcome
feeds are written by parties outside the process.

| Component | State | Operations | Interacts with | Hard behaviour | What makes it correct |
|---|---|---|---|---|---|
| Labelling substrate, `core/store.py` | tables `decisions`, `labels` | `log_decision`, `add_label`, readers | scorer, ledger, feedback, backfill all write it | keys resolved at write time, authority of sources, overrides, late decisions | one standing label per cell, no weaker source wins, history is never rewritten, labels join the right decision |
| Store transactions, `core/store.py` | the open transaction, `_batch_depth` | `_commit`, `batch` | every verb | nested batches, statements that fail half way, readers on the same connection | all or nothing |
| Event backbone, `core/store.py` | events, entities, links | `append_event`, `upsert_entity`, `update_reputation` | ledger, feedback, scoring | replace by id, ids built from shared references | an event yields to its own id and no other |
| Outcome ledger, `core/outcome_ledger.py` | none of its own | `record_outcome`, `disagreements`, `reversals` | reads and writes the store in three calls | concurrent reporters, stale read, crash between event and label, re-sent files | evidence is kept, answers are true, disagreements surface |
| Disputes, `core/dispute.py` | none (folds a list), the label | `advance`, `derive_outcome`, `POST /disputes` | feeds the ledger | two posts at once, re-sent and partial files, rulings that are escalated | no label without a ruling |
| Durable transport, `core/stream.py` | table `stream_log` | `publish`, `consume_batch`, `replay` | handlers and connectors publish, one loop consumes | stale batch, failing handler, crash at each step, dead letters | at-least-once, capped retries, FIFO, backpressure |
| Source connectors, `core/connectors.py` | checkpoint row | `poll` | reads a source, publishes to the transport | crash before the checkpoint, overlapping polls, backpressure, torn lines | nothing lost, nothing doubled |
| SQL source, `core/connectors.py` | checkpoint per connector id | `POST /connectors/db/poll` | reads a table past a watermark | ids visible out of order, shared ids, two polls | nothing passed over |
| Ingestion schema, webhook | none | `validate_event`, `accept` | in front of the transport | records without an id, cardholder data removed on the way | idempotent keys, an identity that survives |
| Scoring, `main.py` | buffers | `build_event`, `/score`, `/ingest` | writes a decision, then the machine's label | seven adjustments in two orders, best-effort writes | gates only raise; the record is what was decided |
| Fingerprints, telemetry, actor layer | identities, newest telemetry row | post, derive, relink, `infer_motive`, `locate_on_arc` | scoring, protection | thresholds over partial reports, rows replaced | withholding never helps, a victim is not accused |
| Consortium and Authorization IQ | two indexes built once | `build_index`, `network_reveal`, the insight pack | scoring | noise, evidence floors, indexes older than the store | news of fraud never lowers a score |
| Card history, `core/card_history.py`, `card_identity.py` | none (hashes, reads decisions) | `card_key`, `sequence_view` | every card door | retries, another salt, an identity rewritten on the way | a card's own history and no other's |
| Feedback, `core/loop.py`, `feedback.py` | reputation counters, feedback log | `/feedback`, `close_loop` | store, reputation layer | read-modify-write, re-posted dispositions | a disposition counts once |
| Card authorization, `core/authorization.py` and neighbours | none (answers, then a record) | `/authorize` | screening, scorer, policy, store | response deadline, holdout release, retries | what is answered is what is recorded |
| Model registry, `core/model_registry.py` | specs by id | `register`, `load`, `promote`, `get` | scoring, retraining | files replaced between reading and hashing | a decision's stamp names what scored it |
| Rule factory, `rule_factory.py` | JSON file, table read at import | `save`, `deploy`, `retire`, `run_pipeline` | agent, endpoints | unlocked read-modify-write | no rule is lost |
| Autonomous agent, `agent.py` | `agent_state`, buffers, config | start, stop, tick, resolve, learn | scoring, rule factory, SSE | overlapping loops, bounded queues | a stopped loop ends, a flagged payment gets its case |
| Rate limiter, drift monitor | in-memory buckets, windows | `allow`, `record` | middleware, scoring | eviction at capacity | a limit stays a limit |
| Graduation, maturity, performance, labelling queue | none (read the labels) | gate, floor, `diagnose`, `rank` | read beside every writer of labels | young cohorts, stale backfill | a verdict rests on tested evidence |
| Graph stores, `gnn_lite.py`, `graph_features.py` | tables built from a CSV | build, refresh, look up | scoring threads, a file rewritten under them | clear and refill while read | one event, one load |
| Investigation environment, `fraud_env.py`, `case_file.py` | none (one trial) | assemble, step, run, compare | a language model | rewards, step bounds, hidden sections | deciding beats dithering, victims are not denied |
| Narratives, training, integrations | caches | reads | store, CSV files, vendors | staleness | out of scope, see below |

The hazards of this code, each at its line and with the properties that cover it,
are listed in `PROJECT.json` under `hazards`.

## The modules

```
StandingLabels <--implements-- LabelStore <--extends-- OutcomeLedger
                               LabelStore <--extends-- FeedbackLoop
DeliveryLog    <--implements-- StreamQueue <--extends-- SourceConnector
DecisionPolicy <--extends-- DecisionPath
RuleBook       <--extends-- AgentLoop  --extends--> AgentPolicy
LabelStore     <--extends-- ModelEvidence
DeviceIdentity <--extends-- ScoreLadder
MCOperations extends the thirteen components that stand alone
MC<name> extends <name> and names the model values of its runs

LabelStoreProofs    extends LabelStore, and is extended by
                    OutcomeLedgerProofs, FeedbackLoopProofs and ModelEvidenceProofs
TransportProofs     extends SourceConnector, and with it StreamQueue
DecisionPathProofs  extends DecisionPath
AgentLoopProofs     extends AgentLoop, and with it RuleBook
OperationsProofs    extends the components of MCOperations but RuleBook
```

A definition whose name ends in `_<Something>` next to another definition is a
*mutant* of it: the definition as a plausible bug would have it. For every checked
property, `PROJECT.json` names a mutant that makes the property fail, which shows
that the property depends on what the code does. Mutants are used nowhere else.

**LabelStore** models `log_decision` and `add_label`. Both hold `Store._lock` from
their first SELECT to their commit, so each is one action. A row of `labels` is a
record; its id is its position, `superseded_by = 0` stands for the empty column. A
target is a `(label_space, label_key)` pair, a fact is a value with its effective
date. `latest[s]` is what `SELECT ... ORDER BY ts DESC LIMIT 1` would return: since
`log_decision` reads the clock before it takes the lock, after a write that row may
be the new decision or another decision of the subject, and the action leaves the
choice open. `SELECT ... LIMIT 1` without an order is a `CHOOSE`; the invariant
shows there is nothing to choose. Confidence, annotator and the wording of notes are
abstracted; that an override left a note is the row's `override` field.

**StandingLabels** is the abstract promise: per cell at most one standing claim,
replaced by one of at least its authority or by an explicit override, and by nothing
else. `LabelStore!StandingClaims` is the refinement mapping: what `current_labels`
shows for each cell.

**OutcomeLedger** extends LabelStore with `record_outcome`, which takes no lock:
`ReadStanding` (with the duplicate return), `AppendEvent`, `AssertOutcome` (the
call of `add_label` and the answer computed from the first read) are separate
actions of each reporter, interleaved with decisions, the machine's own labels,
dispositions and a crash. The records a source may send are the constant `Feed`,
already in `validate`'s normal form; `override` says that the request carried an
`override_reason`. An event's id is the source and its reference, or the outcome spelled
out when there is none, so two reports of a source that share a reference share the
event, about whatever subjects: `POST /disputes` builds such references (dispute.py:301).
`disagreements` reads what the code reads: the newest `Limit * ScanFactor` standing labels
of any source (outcome_ledger.py:267, the machine's calls included), each subject judged
on its whole gold history, up to `Limit` subjects (288).

**FeedbackLoop** extends LabelStore with `POST /feedback`. A request is a record per
thread that walks through `FeedbackStore.record` (`Post` updates the live reputation,
`AppendLog`, then `_tally` as the read and the write it is) and `close_loop`, one
action per store call. `GetEntity`, `CreateEntity` and `UpdateReputation` are the
unlocked read-modify-write of a payee's counters; the request carries `before`, the
counters as read. The live reputation's rate is represented by the two counts it is
computed from, the log by its number of lines per class. `StoreRaises` is the
exception `post_feedback` swallows, `Restart` rebuilds the tally from the log and
loses the live updates. Histories that no code reads (`filed`, `raced`, `receipts`,
`unlogged`) only serve the properties. A body's transaction is never empty here.

**DecisionPolicy** is the pure part of a decision: the ladder and the default policy
table (a rule's `when` is a record of the dimensions it names, so specificity is the
size of its domain), floor and ceiling, the screening verdict, the holdout, and what
each of the three doors makes of them. An *assessment* is a record of the facts the
code branches on, instead of scores and dollars: the band, whether blocking pays for
itself, whether the liability is over the holdout's ceiling, whether the typology is
reconnaissance, the account tier, the member's funds, whether the score came late.
A payment has a `Spelling`, the rail as its sender wrote it. `normalize_rail` maps it to
the table's name where a record passes `validate` (`/ingest` and its batch, the stream,
the connectors, the webhook). `/score` hands the raw `payment_rail` to `decide_action`
(main.py:1325), and `build_event` does with a row of the data set (replay, alerts, case
files), where no `validate` precedes it; `_matches` compares literals, so a synonym meets
the default rule there.

**DecisionPath** extends it with the writes. `BuildEvent`, `Score` and `Authorize`
receive a call and compute its verdict from the message and the loaded list (pure, so
one step with the list's first load); then `AppendTransaction`, `AppendAlert`,
`LogDecision`, `AddModelCall`, `LogWhatIf` and `AppendCardEvent` are one store call
each, and `AfterFailure` says where a door goes on when one raises. All rows but the
what-if ones are replaced by id, so two calls about one payment overwrite each other's.
`SwapList` replaces the list file behind the running process.

**StreamQueue** models the transport. `publish` and `replay` are atomic under the
queue's lock. `consume_batch` is `TakeBatch`, then per row `CallHandler`,
`HandlerReturns` or `Raised`, and `MarkDone` or `MarkFailed`; `batch` keeps the
attempts *as read* by the initial SELECT, because that is what the code counts from.
`Raised` is enabled after the handler returned as well: the `except` clause also
catches a failed UPDATE to `done`. `Stop` is a crash, or a second failure inside the
`except` clause, which ends the batch and leaves the log alone.

**DeliveryLog** is its abstract promise: an accepted message is owed until it has been
scored or is openly given up, and only a replay restores it.

**SourceConnector** extends StreamQueue with a source that grows, the checkpoint and
any number of overlapping polls. Every record is one step of a poll, since the source,
the transport and the checkpoint are three different stores. `Abandon` is a database
error out of one poll, `Crash` ends all of them and the consumer's batch.

The source's writer finishes a line in `Chunks` writes, the record's text being there from
the write `TextAt` on (what follows is the newline), and `written` says how far it is with
the last line. A poll has the file open and counts lines with `enumerate`: `idx` is its
counter, `at` and `mid` say where in the file it really is. A readline that meets an
unfinished line returns what there is of it, under a number of its own; when the
writer has gone on by the next readline, the rest of the line takes another number, and
`idx` is ahead of the file from then on. A fragment without the whole record is `Junk` to
the schema, counted in `rejected` and passed. `spent` adds up the fragments polls have read.

The push path (`/stream/publish`) is an action of StreamQueue and is left out of
the composition with SourceConnector, where the polls are the producers.

**AgentPolicy** is what the agent makes of one scored payment: signature, threat and
decision, as operators. **AgentLoop** is the coroutine that does it. A tick is one
synchronous stretch of the event loop, from the sleep to the next (agent.py:443-497); no
other coroutine runs within it (`EventLoopFree`). What does come in between is the thread of
a PUT /agent/config, which empties the configuration (`ClearConfig`), fills it
(`UpdateConfig`) and writes the file (`SaveConfig`). So the tick is two steps, `Tick` (decide)
and `File` (case, buffer, learning tasks), and both meet the configuration as it is by then;
what raises inside them is swallowed with the rest of the tick. A task may also end before
its loop, when there is no data (`Abort`). `owed` is a history variable: the flagged
payments of ticks that are not filed yet or were filed without a case.

A learning task (`Learn`) cuts the oldest buffer-full off the backlog, unless it gives up
(`GivesUp`: switched off, no key for the language model, configuration emptied). The cut is
kept nowhere: `run_pipeline` is given the static patterns. A pipeline's book operations are
those of **RuleBook**: the rule file is read whole (`edit[t]` holds the copy), changed and
written back whole, by several threads without a lock, and a crash may leave it truncated.
A pipeline saves rules of either status; which one a backtest recommends is left open.

**ModelEvidence** extends LabelStore with days and with the four readers that draw
conclusions from the labels: `floor` (label maturity), `evaluate_target` (graduation,
with Cohen's kappa compared exactly), `diagnose` (performance) and `candidates` (the
labelling queue). They are operators over the tables; the actions are the writers:
`Score`, `MachineCall`, `PlanBackfill` and `ApplyBackfill` (a plan made earlier),
`Adjudicate`, `ReportLoss` and `Tick`. The backfill is taken to run in the server's process,
where `add_label` is one action under `Store._lock`; as a process of its own it has a lock of
its own (Findings).

**MCOperations** composes the components that share no state, so that one run serves
them: `desk` says which of them a behaviour exercises.

- **RateLimiter**: `Request` is a whole request of one caller key, which charges the
  heavy route's limiter and then the global one. Credit is counted in ticks, so the
  continuous refill is exact.
- **ModelRegistry**: `Unpickle` and `RegisterAndLoad` are two steps of start-up, with
  `Retrain` free to replace the file in between; `Decide` stamps.
- **DriftMonitor**: `record` with its check. Whether an index can be computed is
  counted, what it says is input.
- **StoreTxn**: the one connection's working image, the RLock, nested batches, the
  two statements of `add_label`, exceptions of both kinds and crashes.
- **GraphTables**: clear, fill and look-up of the two stores, table by table; a table
  is the number of the load it came from.
- **DeviceIdentity** and **ScoreLadder**: what a fingerprint is derived to and what it
  replaces; then a payment's score, one action per adjustment, at both doors.
- **DisputeDesk**: the network moves a dispute, an acquirer posts its file (a prefix,
  perhaps with an event repeated), clerks fold it and write the label in two steps.
- **NetworkIQ**: the smoothed rates, the reveal and the insight pack in integers, over
  the two indexes main.py builds once, with or without the store's payees (main.py:3221
  swallows a failure of that overlay).
- **ActorRead**: telemetry to tells to motive, arc stage and protective decision.
- **TableConnector**: ids taken by INSERT and seen by COMMIT, `Select` as one snapshot,
  then row by row to the checkpoint.
- **InvestigationEnv**: a case with hidden sections, the policies and the model that
  inspect them, both rewards in units of 1/3000, the comparison.
- **CardHistory**: a key is the record of what was hashed, so a second hash is a
  different key. Each door takes a message, the gate reads the window, and the row is
  written later by another step; published messages wait in the durable queue through
  restarts, which may change the salt.

## The runs

| Run | Question | Bounds | Result |
|---|---|---|---|
| LabelStore | the strongest label stands; refinement | 2 subjects, 3 decisions (two of one subject), 3 sources of different authority, 3 labels, with and without override | holds |
| StreamQueue | at-least-once, FIFO, everything settles | 3 rows, 2 keys and the empty key, depth 2, batch 2, 2 attempts, 1 crash, 1 replay | holds |
| SourceConnector | losses are bounded by the fragments read, a key is enqueued once, every record arrives | 2 records in 2 writes each (text and newline in the second), depth 1, 2 polls, `max_events` 2, 1 crash or aborted poll or batch | holds |
| SourceConnectorTorn | the whole tail, with a writer caught mid-line | the same, 3 writes a line (the record is whole after the second) | violated |
| OutcomeLedger | evidence, events, disagreements | 2 subjects, 1 decision, 2 reporters (symmetric), 3 reports of which two share a reference across the subjects, 4 labels (at most one of the machine's and one of an analyst's), 1 crash, a list of 1 from a scan of 2 | holds |
| FeedbackLoop | counters and labels under concurrent dispositions | 2 threads (symmetric), 2 transactions, 1 payee, 3 requests out of 5, 1 failure or restart | holds |
| DecisionPath | no prohibited payment gets through, the policy binds every door | 4 payments (2 card, 2 push; one to a listed party; one outside the holdout slice) and a message without reference, a rail under its name and under a synonym, 7 assessments, 2 calls on 2 threads (symmetric), 1 failure or restart | holds |
| DecisionPathReleased | a release reaches the network | the same | violated |
| AgentLoop | cases, backlog and stop | 2 loops, a PUT, 2 threads, 1 rule, 2 payments, with and without a key, 1 case, 2 ticks, 1 rule operation | holds |
| ModelEvidence | what the readers of labels conclude | 2 payments of 2 subjects, 3 labels, 3 days, 3 profiles, every floor scaled to one or two | holds |
| Operations | eighteen properties of thirteen components | see below | holds |
| CardHistoryDoors | the ingestion rail finds the card's history | the card desk of Operations | violated |

Bounds of Operations, per desk. Limiter: 3 callers for 2 remembered, 2 limiters, 3
instants. Registry: 2 served models, 1 challenger, 2 builds. Drift: 2 features,
buffers of a few samples. Transactions: 2 threads, 3 labels, nesting, 1 crash. Book:
2 threads, 2 rules. Graph: 1 scorer against the refresh and the ingests. Ladder: 1
payment, 3 scores, 3 fingerprints (one identified, one with a tell and two other
anchors, one withholding), card and ACH. Dispute: 1 dispute, 3 codes, 4 events, 2
files, 2 clerks. Network: 2 institutions, 2 payees (one known to the ledger), noise of
one seed, up to 4 payments. Actor: 1 session, up to three of eleven signs at once.
Table: 1 table, 3 ids, 2 polls, 1 crash. Bench: rows whose checks all passed or all
failed, panels with and without the model. Card: 5 messages of 2 cards, 1 handler, 3
instants, 1 queued message.

Why these bounds are enough to be interesting. Three labels are the fewest that
show a supersession, a loss and an override in one cell, and the fewest that fill a
cell by subject and then by decision. Three rows and a batch of two make a batch that
does not hold the whole log, with a retry that falls behind a later message. A depth
of one with two records makes every poll meet backpressure. Two reporters are enough
for each answer to come from a standing label that has changed since. Two calls are
enough for a retry to overlap the call it repeats, and the seven assessments reach
every rule of the policy table but the ACH one. In FeedbackLoop two requests about one
payee are the fewest that overwrite each other's counters. Two agent loops are what a
stop and an early start leave behind. Three days show a young, a settled and a mature
label beside each other. Three callers for two places are the fewest that evict; three
ids with two open transactions the fewest that commit out of order in the middle of a
poll; four events take a dispute past a ruling that is escalated. In the runs of
SourceConnector `MaxReplays` is 0: replay is StreamQueue's question; `MaxRows` is only
above what the log can reach there. `CHECK_DEADLOCK FALSE` in every configuration: a log at
its bound with nothing to consume, or a full label table, is a legitimate end of these
bounded systems.

The properties, in words:

- *StrongestStands*: the standing label of a cell has at least the authority of
  every label the cell received since the last override.
- *ImplementsStandingLabels*, *ImplementsDeliveryLog*: refinements.
- *FirstAttemptsInOrder*: a message is first tried in the order of the log.
- *EverythingSettles*, *EveryRecordArrives*: the liveness of the transport and of the
  connector in front of it, the second up to as many records as fragments were read.
  *LossIsBounded*: of the line numbers the checkpoint passed, the transport lacks at most as
  many as polls have read fragments of unfinished lines, an intact record behind a line
  that took two numbers included; none while no poll met a writer in the middle.
  *KeyEnqueuedOnce*: a record is in the transport once.
- *EvidenceOnRecord*: whatever `record_outcome` answered, the report is in the history.
  *EventYieldsToItsReference*: the event under a report's id is the report's own, or another
  outcome its own source filed under the same reference; never another source's, and
  never for a report without a reference. *DisagreementSurfaced*: a subject on which two gold
  sources differ is listed, unless `Limit` newer subjects in dispute, or `Limit *
  ScanFactor` newer standing labels, are ahead of it.
- *DispositionsCounted*: overlapping requests may lose counts and never invent any;
  without overlap the counters are exact, failures and restarts included.
  *NoDispositionLost*: a receipt means that the label is in the history.
- *ProhibitedNeverThrough*: at no door, on no retry and after no restart is a payment let
  through that the loaded list matched or could not clear. *IrrevocableNeverSilent*: on
  push rails the floors and ceilings hold on record and in what-ifs, whatever the price
  said, as long as the door called the rail by the table's name; only the holdout lets a
  risky payment go.
- *FlaggedGetsACase*: a flag without its case is one being filed, whatever a PUT does between
  decision and filing. *BacklogIsCut*: no tick takes the buffer of novel attacks past one
  buffer and one per learning task under way; only a PUT that changes the size or a task
  that gives up does. *StopDrains*: a stopped agent's loops end unless it is started again.
- *CertificateNeedsMatureGold*: once a lag curve can be derived, the gate certifies nothing
  without `MIN_GOLD` gold labels on decisions older than the floor. It is about the gold
  count alone: the pairs of the kappa have no such bar, and without a curve the gate has none
  at all (Findings). *RetrainIsEarned*, *MachineCallsAreNotEvidence*, *AnAnswerMakesAPair*: a
  retrain is authorised only after both rival explanations were tested, the machine's
  own labels move none of this, and answering a ranked case yields a pair to train on.
- *NoBurst*: a caller whose bucket was kept never got more than a bucket and the time in
  between allow, wherever the window is placed.
- *StampNamesTheScorer*: the version on a decision is the build that scored it, unless
  the file was replaced between being read and being hashed.
- *HistoryUnbroken*: the drift monitor's transitions chain up through trims, raises and resets.
- *DurableIsWhole*, *ReturnedIsDurable*: nothing durable is half a call, apart from a
  statement that fails after the first; what a call or batch reported written stays.
- *BookAgrees*: the rule file agrees with every operation that finished, as long as no two
  overlapped and no crash caught one between emptying the file and filling it.
- *ContextFromOneSnapshot*: the graph context of an event comes from one load.
- *EscalateOnly*: whatever order the adjustments come in, the network, novelty and device
  views never lower the institution's own score, and a suspect device is still over
  the line at the end, unless a fingerprint replaced it on the way.
- *WithholdingNeverHelps*: a collector that hides an anchor is no closer to a device on
  record than one that reports it.
- *LabelFollowsARuling*: a dispute's label says what the network ruled at some time on a
  cardholder's claim of fraud, and a logged file shows the ruling.
- *FraudElsewhereNeverSoothes*: one more fraud at another institution never lowers the
  network's contribution, through noise, evidence floor and reveal.
- *VictimIsNotAccused*, *ArcGoesForward*: a session with a call open during the payment, or
  reported duress, is never read as an offender's, whatever else is reported; a
  telemetry row that says all the last one did, and more, never puts the person earlier
  on the arc nor softens a hard stop.
- *NoRowInOrderIsPassedOver*: the watermark of a connector with one table stands past no
  row nobody got, as long as rows appear in order.
- *DecidingBeatsDithering*, *DecidesFromWhatItSees*, *VictimIsNotDenied*: any decision within
  the model's eight turns scores above none; the baseline's decision depends only on
  the sections it opened; a real victim's dispute is denied by nobody.
- *HistoryIsThisCards*: the gate's window holds only the payment's own card, whatever the
  message carried, at every door and across changes of the salt.

## Fairness

`FairSpec` asks for weak fairness of `Consume`: `_stream_consumer_loop` is a `while
True` that catches every exception and sleeps at most a second, and `HandlerReturns`
or `Raised` must happen because the scorer is a finite computation. Which of the two
happens is left open. `FairConnectorSpec` adds weak fairness of the background poll,
for the same reason (`_connector_poll_loop`). Publishing, replaying, requesting a
poll, writing the source and crashing have no fairness. Both loops idle while the
models are not loaded (`MODEL_OK`); liveness is about a process that has them. The number
of crashes is bounded by `MaxStops`: a process that crashes for ever on one message
never settles it, and the code does nothing about that.

`AgentSpec` asks for weak fairness of `Leave` and `File`: a loop whose running flag is
false wakes from its sleep and leaves, and a tick that has decided goes on to its end, for
the two are one synchronous stretch. Ticking, starting and stopping have no fairness.

## The proofs

**LabelStoreProofs**, from `IdAssumption` alone (every decision id has one subject;
the empty ids are no ids). The inductive invariant `IInv` is the conjunction of the
checked invariants: `StrongestStands` needs `BuriedByAuthority` and
`OneStandingPerCell` to survive a supersession (the label that stood was the
strongest, it is buried by an equal or stronger one or by an override), and
`OneStandingPerCell` needs `LabelsJoinTheirDecision`, so that a row's cell is a
function of its columns. `AddLabelAdds` restates the action as "one row is appended
and, unless it lost, the rivals in its cell point to it"; all preservation lemmas
(`Adds...`) work from that form. `Refinement` shows that a step of the table is a
`Report`, an `Override` or a stutter of StandingLabels, from the lemma
`AddsClaims` on how the mapping changes. `WeakerNeverTakesOver` is what is left of the
docstring's promise about a subject as a whole (Findings): it holds if a subject has one
decision (`OneDecisionEach`) and no label about it is written before that decision
(`LabelsFollowDecisions`). Then every label of the subject carries the decision's id
(`AllLinked`), one of the two keys of store.py:781 is never used, and the precedence within
a cell is the precedence within the subject. Both hypotheses are about the callers, and the
behaviour that breaks the promise breaks the second.

**TransportProofs**, from `QueueAssumption` (the bounds are naturals, depth,
attempts and batch positive). `IInv` adds to the checked invariants what they rest
on: `SettledWasAttempted`, `BatchPassesNothingOver` (the batch skips no row that was
never tried) and `InHand` (what the phase says about the message in hand). With
`SnapshotFresh` inside `IInv`, the settling UPDATEs are shown to write what an
up-to-date read would have written. `AtLeastOnce` proves the refinement of
DeliveryLog, `BackpressureHolds` the bound on the depth, by cardinality of the set of
ready rows. The second half puts the connector in front, from `ConnectorAssumption`
(`Junk` is no key). Every step of a poll keeps `IInv`, and the connector's own
invariant counts: the line numbers a poll has passed, or a checkpoint stands past, which the
transport was not given are at most the fragments read (`FragmentsPayForLoss`). The count
goes by the gap between `idx` and the place in the file, which a fragment widens by one at
most; each half needs the other, for a poll starts from the checkpoint and a checkpoint is
written from how far a poll has come. `TailIsNotLost` adds the hypothesis that lines are
appended whole (`Chunks = 1`), the one the run SourceConnectorTorn drops and finds
necessary. Idempotence of a key
(`PublishIsIdempotent`) is relative to the number of replays, which is 0 in the runs
that check it. The queue's promises are then proved to hold behind the connector, whose
polls publish from any number of threads: `AtLeastOnceBehindConnector` maps every step of
it to a step of DeliveryLog or to a stutter, by what a step of a poll is to the queue
(`ConnectorStepKinds`), and `PollsNeverOverfill` bounds the depth by the same lemma the
queue's own bound rests on (`AppendDepth`). `PassedIsAnsweredFor` joins the two halves end
to end: of the numbers a checkpoint stands past, all but as many as fragments were read are
junk or a record whose row waits, is dead or was scored; no row is done that the scorer did
not return from (`DoneWasScored`).

**OutcomeLedgerProofs**, from `LedgerAssumption` (what a feed may send is well formed
and no report is a heuristic's). The ledger decides from a reading that may be stale, so
nothing can be said of what stands when it answers; what survives any interleaving is that
an answer points to a row of the history that carries the report (`EvidenceOnRecord`), and
that history is never rewritten. `DisagreementIsSurfaced` needs both rows to be there and
of one subject, and nothing of which stands; what may keep the subject off the list is stated
as the code's two limits state it, by cardinality of what is newer. `EventIsKept` assumes
nothing of the references: INSERT OR REPLACE leaves under an id the last event of that id,
and an id is a source with its reference or a spelled-out outcome, so what can take a
report's event is another outcome of its source and reference and nothing else.
`LedgerKeepsThePromise`: the ledger's reports refine StandingLabels.

**FeedbackLoopProofs**, from `FeedbackAssumption` and `IdAssumption`. `LoopInv` says which
fields a request has at each of its stages and that the counters are a rate both in
the store and in every request that has read them: without the second half the patch
of a slow request could break the first. `CountInv` follows one payee: its counters never
exceed what was filed, nor do the counters in any request's hand (`HeldWithin`), and while
no two of its requests overlapped they are exact, up to what the one request under way
still owes (`Owes`). `ReceiptInv` counts by cardinality: the outcome labels of a payment
and source are at least its receipts and the requests that have written their label and
not yet answered. `LoopUsesTheStore` shows that every step of
the loop is a step of LabelStore or leaves its tables alone, so all that is proved of
LabelStore carries over: `LoopKeepsStanding`, and `LoopKeepsThePromise`, by which the loop
refines StandingLabels. Two theorems are about what is kept twice. `TallyFollowsTheLog`:
the tally of a class is never ahead of its log lines, the failed ones included. The tally
is read and written back in two steps without a lock; the invariant (`Backed`) bounds
every reading, the tally's and each handler's, together with the number of requests that
are logged and not yet tallied. `StoreFollowsTheLiveRate`: after requests that neither
overlapped nor failed, the store's rate of a payee is the live one, because a verdict on
its way (`Correcting`) carries that rate with it. Both were checked by TLC on the instance
of FeedbackLoop before they were proved.

**ModelEvidenceProofs**, from `EvidenceAssumption` (a label asserts a verdict and a day
within the clock; the coverage is a share; at least one settled label is asked for before
a floor is derived). The invariant is the store's with every decision and label dated
within the clock. What the readers compute is never evaluated. For the graduation
certificate (`CertificatesNeedMatureGold`: the gold count, behind a derivable curve) and the
retraining verdict it is enough that `days_to_coverage` is one of the lags that cover
(`DaysToCoverage`: the largest lag does, so there is a least one) and that coverage grows
with the days allowed (`CoverageGrows`). For the two action properties, either
the rows a verdict is read from have not changed (`Unmoved`), which follows from
`precedence_of("heuristic")` being least and from the store's `OneStandingPerCell`
(a self-label buries at most one row and cannot outrank gold), or exactly one gold
subject and one pair were added (`AnswerAddsOne`), which needs `LabelsJoinTheirDecision`:
the cell an answer falls into holds rows of its own subject only.

**AgentLoopProofs**: `BookInv` says that, as long as nothing interfered, at most one
operation is under way and what it holds is the book as it will be. `AgentInv` types the
configuration and the counters and says that every flag still without a case is in the
hands of a loop that files it (`CasesOwed`); that a filing which flags also queues is what is
left to show per step (`FlagsAreFiled`). `BacklogIsBounded` compares the two sides of one
step; from `AgentAssumption`, a posted buffer size is an integer, which `int()` sees to
(agent.py:83). `AgentUsesTheBook` shows that the agent's pipelines write through the book's
own actions, so `BookIsKept` holds under the agent.

**OperationsProofs** has a section per component, each opened by its inductive invariant:

- *StoreTxn*, from `TxnAssumption` (names are distinct). The image is never behind what is
  durable, what an open batch added is in the image and not durable, and between the two
  statements of `add_label` the one id that rows point to without a row is the one being
  written (`HalfWritten`).
- *TableConnector*: a checkpoint is the id of a row that can be seen, and every row before
  it reached the pipeline or became visible out of order.
- *CardHistory*, from `CardIdentityAssumption`: an identifier in a message names one card.
  A key is the record of what was hashed, which is to say that equal digests come only
  from equal inputs.
- *GraphTables*: half way through a refresh the tables are of two loads, and then the lock
  is held; a look-up that has begun keeps the refresh out.
- *RateLimiter*: what a bucket still grants and what it granted from any remembered
  admission on is at most a full bucket and what was earned since (`Accounted`). The sum
  form is what makes it inductive; `NoBurst` alone is not.
- *DriftMonitor*: the transitions kept chain up and end in the present state.
- *ModelRegistry*, from `RegistryAssumption`: what is in memory of a model whose file was not
  replaced meanwhile is what the file holds until it is registered, and what its version says
  from then on.
- *NetworkIQ*, from `NetworkAssumption` and `MildNoise`. The view of a payee sums what the
  institutions publish; that the sum over a finite set changes by what one term changes by
  is shown by taking the smallest set of terms where it would not (`WFMin` on the size).
  One more fraud at an institution raises the published fraud count by 0.3 at least, and the
  published volume by 1 at most. While the smoothed rate is below 0.3 that cannot lower it,
  and past 0.3 the ramp of `network_rep` is saturated; so neither the ramp, nor the reveal of
  any other institution, nor the sum of the pack goes down. `MildNoise` is needed: a fraud
  count pushed far below zero is cut off at zero with the added fraud in it, and if the
  transaction count is not, the rate falls. The one seed of the code, at epsilon 1, gives the
  institutions 1.373 and -0.204; the run's noise is checked against the hypothesis
  (`NoiseIsMild`).
- *DeviceIdentity* and *ScoreLadder*: withholding an anchor leaves what it is scored out of
  alone and can only shrink the set that agrees, which is counted by cardinality (the
  anchors are a finite set); then, per stage of the score, that it is at least the local one
  and, past the device gate, over the line.
- *DisputeDesk*: only the opening chargeback names a code, every file is made of what the
  network did, and a clerk about to write holds a logged file with a ruling.
- *InvestigationEnv*: a run is worked within its turns, and one that has committed totals
  above the floor; a verdict of a policy is a function of the sections it opened.
- *ActorRead*: every tell is a monotone function of what is reported, so the stages with
  evidence only grow with it, and one open call, or strong duress, reaches the victim's
  threshold alone.

**DecisionPathProofs**, from `PathAssumption` (every reference has a spelling of its rail and
a list verdict; nothing is assumed of the spellings or the assessments). What
`PolicyBindsEveryDoor` says of a push rail it says of the name that reached `decide_action`:
canonical behind `validate`, raw elsewhere. The first half is about the
pure functions: the best rule exists and is unique because specificity and then
position order the table totally (`OneRuleWins`), at high and severe risk a push rail
meets exactly one rule (`PushRule`), and so `decide` answers within its bounds
whatever was proposed (`DecideIsBounded`). The second half is `PathInv`: *Sound*, what
a call knows of itself from the moment it is decided; *Filed*, that the rows a stage
relies on are there; *VerdictsSound*, that a payment seen once has one verdict, which
is what makes its row, label, alert and answer agree; *Told*, what an answer owes to
the rows; *Once*, which follows a payment scored once while nothing fails, for the
exact agreement of alert and transaction events. Both invariants of the DecisionPath
run follow from it.

What is proved and what is only checked. Every invariant, action property and refinement of
the passing runs is a theorem. The three liveness properties (*EverythingSettles*,
*EveryRecordArrives*, *StopDrains*) are not: liveness under fairness is outside the prover's
reach, as is ENABLED. They are model-checked at the runs' bounds only.

Theorems without a run: `TypeOK` of each component, `OneStandingPerCell`, `BuriedByAuthority`,
`LabelsJoinTheirDecision` and `HistoryPreserved` of LabelStore; `SnapshotFresh`,
`RetriesCapped` and `OnlyReplayOverfills` of StreamQueue; `TailAnsweredFor`, the refinement of
DeliveryLog and the bound on the depth behind the connector; `FraudWithinTotal`,
`DurableFollowsLive` and `TallyWithinLog` of FeedbackLoop;
`RecordedIsOnRecord`, `EnforcedRowIsDecided`, `AlertsFollowTrail` and `LabelHasItsDecision` of
DecisionPath; `FailedBatchLeavesNothing` of StoreTxn; `AgentUsesTheBook`, `LedgerUsesTheStore`,
`LoopUsesTheStore` and `EvidenceUsesTheStore`, which say that one component is a
client of another. They are stated in the modules and need no small instance of their own.

The bounds of the models (`MaxLabels`, `MaxRows`, `LastDay` and the like) are constants in the
theorems as well: they hold whatever the bound is. What a recursive definition computes for
every input would need an induction theorem that takes an operator, which the provers
cannot instantiate. Sums over finite sets, least and greatest elements and the
well-founded arguments behind them are proved from the library's theorem on least elements
of well-founded relations (`WFMin`) instead. Where
a definition was a fold over a set or a sequence and a quantifier says the same
(`advance` of a dispute, the motive scores), the model states the quantifier or the sum.

## Findings

Three are counterexamples of runs; `PROJECT.json` quotes the sentence of the repository
each contradicts.

1. **A torn line is lost** (SourceConnectorTorn). A half-written line is rejected as
   malformed and the checkpoint passes it. If its writer goes on while the poll has the file
   open, the rest of the line takes a second number (connectors.py:159), the checkpoint is
   one ahead of the file, and the next record, which was never torn, is skipped as well.
2. **A release never reaches the network** (DecisionPathReleased). The holdout turns a
   card decline into ALLOW on record and in `action`, while `response_code` and `approved`
   still decline. Declines made before pricing, a screening block among them, can be
   "released" on record in the same way.
3. **A card has two keys** (CardHistoryDoors). The digest that validation puts in the
   place of a PAN is taken for a token and hashed again, so the sequence gate finds no
   history for such a card on any door but `/authorize` and `/score`.

The others are statements of the repository that a module writes down and that fail in
it, without a run kept for them. Where a name is given, it is the definition; adding it to
the run of its module as an invariant, or an action property, shows the counterexample.

Records and labels:

- `WeakerDoesNotTakeOver` (store.py:753, 781): an analyst's label filed before the
  decision is keyed by subject; the machine's later one is keyed by the decision, meets
  nothing standing, and both are current. Where every label follows the decision, the
  promise holds (`WeakerNeverTakesOver`).
- `RereadWritesNothing` (outcome_ledger.py:133, 161): only the standing label is compared,
  so yesterday's report is no duplicate once its source reversed it.
- Two subjects' disputes share an event id when they share reason code and outcome
  (dispute.py:301 builds the reference of these, and outcome_ledger.py:136 the id of source
  and reference, without the subject). INSERT OR REPLACE then leaves one event for the two
  labels; `EventYieldsToItsReference` says what is left of the promise.
- A subject in dispute drops off the list without being settled: the scan reads the newest
  standing labels of any source (outcome_ledger.py:267), so enough newer calls of the machine
  push the disagreement out. `DisagreementSurfaced` says exactly when.
- `RulingIsNotReopened` (dispute.py): a file the acquirer sent earlier, folded late by
  another thread, writes its older ruling over the newer one.
- `SupersededNamesARevision` (store.py:278, 381): after an INSERT that fails, or an exception
  that is no `Exception` out of a batch, the statements left open are committed by whoever
  commits next. A batch that fails in the ordinary way leaves nothing, which is proved.
- `KappaIsOfMaturePairs` (graduation.py:146, "answering for today's decisions has certified
  nothing"): the bar on age counts gold labels, while kappa and `n_paired` are computed of all
  pairs (135, 152). Settled chargebacks that pair with nothing and today's analyst answers
  certify together. Without a derivable curve the gate certifies whatever the ages are
  (185-190), which test_label_maturity.py:262 asserts on purpose.
- backfill_outcome_labels.py is a process of its own, with a `Store._lock` of its own. The
  SELECT and the UPDATE of `add_label` (store.py:784-820) are serialised against the server by
  nothing, so a self-label may supersede an analyst's label written in between.
  Established by reading: the model gives the backfill the server's lock.
- `GoldIsMostRecent` (graduation.py:42 against 55): rows come newest first and the
  dictionary keeps the last of a subject, the oldest. `UncertaintyHasAModel`
  (active_learning.py:23, 163): the phase is chosen by gold subjects, the model trained on
  gold rows with a snapshot, of which there may be none.
  The queue's counter calls the system ready to train when that set is empty.
- replay.py writes 'True' and 'False' where the readers look for "1".

Transport and sources:

- A key whose message is dead can be published again and the dead one replayed
  (stream.py:90): `KeyEnqueuedOnce` holds for polls without replay and fails in StreamQueue.
- `NoRowIsPassedOver` (connectors.py:233): a row committed late with a smaller id is
  skipped, and two tables polled without a `connector_id` share the default one
  (main.py:2698). The docstring's "Unmapped columns pass through untouched" is not what
  `_map` does.

Services:

- `AtMostOneLoop` (main.py:3608, "Idempotent"): stop and start before the old loop wakes
  leave two. PUT /agent/config "merges deeply with current config" (main.py:3634) and
  merges with the defaults instead.
- agent.py:337, "Pull a snapshot of novel_attack_buffer, run Rule Factory pipeline": the
  snapshot is cut off the buffer and handed to nobody (352-362), so the novel attacks
  collected there never reach a pipeline.
- main.py:3221: when the store's payees cannot be overlaid on the consortium, the failure is
  swallowed and payees known to the store alone are left out silently.
- `DeployedRulesInSync` (rule_factory.py:310): nothing updates the table read at import.
- `VersionIsWhatIsLoaded` (model_registry.py:106): the hash is taken after the unpickling.
- `Tier2FromOneSnapshot` (gnn_lite.py:80, "Thread-safe atomic swap"): its reader takes no
  lock. `RefreshOutlivesIngest` (main.py:1120): a refresh that reads a truncated file ends
  the refresh task for good.
- `ShortFeaturesAreHarmless` (drift_monitor.py:159, 183): a check that changes state while a
  feature's buffer is short compares None with a number and raises into the scoring
  call, and the next payments raise again until the buffer has filled.
- `NotInItsOwnHistory` (card_history.py:11): an authorization sent again finds its first
  attempt in its window.

Scores and reads:

- `SynonymsAreBound` (main.py:769, the rail is "canonicalised, never compared to a
  literal"): `decide_action` gets the raw rail at `/score` (main.py:1325) and for rows no
  intake validated (main.py:979), and decision_policy.py:154 compares literals. A "fedwire"
  or "btc" payment at high risk meets the default rule there, whose floor is ALLOW.
- `SequenceGateSurvives`: the sequence gate "may never lower", and the pattern blend and
  the cascade after it may, so on `build_event` a raised card score can end lower.
- `FingerprintsDoNotSilence` (fingerprint.py, main.py:2353): a later fingerprint with a tell
  replaces the telemetry row another report left.
- `SpokenForIsNotNew` (authorization_iq.py): the index main.py populates counts the ledger
  alone, so a payee the consortium knows well may be "new to the network"; and the
  confirmation of a fraud by the asking institution itself lowers the score by the
  reveal's weight.
- `ReadsAgreeOnCoercion` (motive.py:91): motive and arc put different thresholds on the
  same tells. Of the motives only three can be reached from telemetry.
- case_file.py:346: "Match" is found in "No Match (N)", so a failed check counts for the
  cardholder. A filing is called eligible when the typology is reportable as well
  (case_file.py), which never decides anything, because confirming needs a score far
  above it.
- fraud_env.py: the alert shown to agents carries the row's own typology though the
  specification says no label is shown; the baseline picks its inspections from hidden
  sections; `/env/step` accepts actions after a terminal one; an unknown agent name runs
  the baseline.
- main.py:3763 and 3829: two integration endpoints build their requests with arguments
  `integrations/base.py` does not take, and raise.

## What is not modelled

- Scores, features, prices and most statistics: floating-point functions of one request.
- Formatting: narratives, SAR drafts, explanations.
- Training, evaluation, experiments and the offline seeding scripts, which call the
  verbs LabelStore models; the adversary.
- Campaign, mule and link analysis: read-only numerics with time-based caches.
- The browser script, the SSE feeds (best effort by design), the vendor hub and the
  signature of a webhook.
- Policies loaded from a file, the timestamp normalisation of ingestion, the
  synthetic id a record without one gets at each reading.
- A message that kills the process at every attempt: it is never counted as failed, and the
  bound on crashes rules it out.
- Loss of committed transactions on a power failure (`synchronous=NORMAL`): a crash
  here is a crash of the process.

## Plan

1. Proofs: one refinement of StandingLabels by the ledger, the loop and the evidence's
   writers on one set of tables, from the three that are proved apart; a theorem for
   noise that is not mild, with the bound on how far the rate can then fall.
2. DisputeDesk over OutcomeLedger's three steps instead of a label of its own, and
   TableConnector over StreamQueue.
3. The replay and seeding scripts as further writers of ModelEvidence; keyless records in
   SourceConnector.
