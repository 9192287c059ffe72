---------------------------- MODULE StreamQueue -----------------------------
(***************************************************************************)
(* The durable transport of core/stream.py (DurableQueue) and the single   *)
(* consumer loop main.py runs over it.  publish, replay and each UPDATE of *)
(* consume_batch run under DurableQueue._lock up to their commit and are   *)
(* atomic.  consume_batch itself is not: it reads its batch once, calls    *)
(* the handler without the lock, and settles each message from the         *)
(* attempts it read at the start, while producers and operators go on.     *)
(*                                                                         *)
(* One topic ("ingest"); a row's seq is its position in the log.  The log  *)
(* is on disk and survives a crash, the consumer's batch does not.         *)
(***************************************************************************)
EXTENDS Integers, Sequences, FiniteSets

CONSTANTS
    Key,            \* idempotency keys: transaction ids
    NoKey,          \* the empty key, never deduplicated
    MaxDepth,       \* max_depth
    MaxAttempts,    \* max_attempts
    BatchSize,      \* batch
    MaxRows,        \* bound on the rows of the log
    MaxStops,       \* bound on crashes and aborted batches
    MaxReplays      \* bound on the operator's replays

ASSUME QueueAssumption ==
    /\ MaxDepth \in Nat \ {0} /\ MaxAttempts \in Nat \ {0} /\ BatchSize \in Nat \ {0}
    /\ MaxRows \in Nat /\ MaxStops \in Nat /\ MaxReplays \in Nat

VARIABLES
    log,            \* the stream_log table
    batch,          \* rows of consume_batch still to process: seq |-> attempts as read
    current,        \* seq of the message in hand, 0 if none
    phase,          \* of the message in hand
    attempted,      \* history: seqs the handler was ever called with
    scored,         \* history: seqs for which the handler returned
    stops, replays  \* counters of the bounds

consumerVars == <<batch, current, phase>>
queueVars == <<log, batch, current, phase, attempted, scored, stops, replays>>

Status == {"ready", "done", "dead"}
Row == [key: Key \cup {NoKey}, status: Status, attempts: Nat]

Marked(row, status, attempts) ==
    [key |-> row.key, status |-> status, attempts |-> attempts]

With(status) == {i \in DOMAIN log : log[i].status = status}
Ready == With("ready")
Depth == Cardinality(Ready)

-----------------------------------------------------------------------------
(* publish and replay: request handlers and connectors.                    *)

\* Mutant: only waiting messages count as duplicates.
Duplicate_ReadyOnly(k) ==
    k # NoKey /\ \E i \in DOMAIN log : log[i].key = k /\ log[i].status = "ready"

Duplicate(k) ==
    k # NoKey /\ \E i \in DOMAIN log : log[i].key = k /\ log[i].status \in {"ready", "done"}

AtCapacity == Depth >= MaxDepth

\* A duplicate returns None and a full queue raises BackpressureError: both
\* leave the log alone.
publish(k) ==
    IF Duplicate(k) \/ AtCapacity
    THEN UNCHANGED log
    ELSE log' = Append(log, [key |-> k, status |-> "ready", attempts |-> 0])

Publish ==
    /\ Len(log) < MaxRows
    /\ \E k \in Key \cup {NoKey} : publish(k)
    /\ UNCHANGED <<consumerVars, attempted, scored, stops, replays>>

replay(which) ==
    log' = [i \in DOMAIN log |->
              IF log[i].status = which THEN Marked(log[i], "ready", 0) ELSE log[i]]

Replay ==
    /\ replays < MaxReplays
    /\ \E which \in {"dead", "done"} : With(which) # {} /\ replay(which)
    /\ replays' = replays + 1
    /\ UNCHANGED <<consumerVars, attempted, scored, stops>>

-----------------------------------------------------------------------------
(* consume_batch, step by step.                                            *)

\* SELECT ... WHERE status='ready' ORDER BY seq LIMIT batch
Oldest == {i \in Ready : Cardinality({j \in Ready : j <= i}) <= BatchSize}

TakeBatch ==
    /\ phase = "idle" /\ DOMAIN batch = {} /\ Ready # {}
    /\ batch' = [i \in Oldest |-> log[i].attempts]
    /\ UNCHANGED <<log, current, phase, attempted, scored, stops, replays>>

\* Mutant: the batch is read newest first (ORDER BY seq DESC).
CallHandler_NewestFirst ==
    /\ phase = "idle"
    /\ \E i \in DOMAIN batch :
         /\ \A j \in DOMAIN batch : i >= j
         /\ current' = i
         /\ attempted' = attempted \cup {i}
    /\ phase' = "handling"
    /\ UNCHANGED <<log, batch, scored, stops, replays>>

\* The for loop moves on to its next row and calls the handler.
CallHandler ==
    /\ phase = "idle"
    /\ \E i \in DOMAIN batch :
         /\ \A j \in DOMAIN batch : i <= j
         /\ current' = i
         /\ attempted' = attempted \cup {i}
    /\ phase' = "handling"
    /\ UNCHANGED <<log, batch, scored, stops, replays>>

HandlerReturns ==
    /\ phase = "handling"
    /\ phase' = "scored"
    /\ scored' = scored \cup {current}
    /\ UNCHANGED <<log, batch, current, attempted, stops, replays>>

\* Mutant: an exception of the handler is swallowed and the message marked done.
Raised_Swallowed ==
    /\ phase = "handling"
    /\ phase' = "scored"
    /\ UNCHANGED <<log, batch, current, attempted, scored, stops, replays>>

\* The handler raised, or the UPDATE to 'done' did: the except clause treats
\* both alike.
Raised ==
    /\ phase \in {"handling", "scored"}
    /\ phase' = "raised"
    /\ UNCHANGED <<log, batch, current, attempted, scored, stops, replays>>

NextRow ==
    /\ batch' = [i \in DOMAIN batch \ {current} |-> batch[i]]
    /\ current' = 0
    /\ phase' = "idle"

MarkDone ==
    /\ phase = "scored"
    /\ log' = [log EXCEPT ![current] = Marked(@, "done", @.attempts)]
    /\ NextRow
    /\ UNCHANGED <<attempted, scored, stops, replays>>

Retried(attempts) == IF attempts >= MaxAttempts THEN "dead" ELSE "ready"

\* Mutant: the attempt is not counted.
MarkFailed_Uncounted ==
    /\ phase = "raised"
    /\ log' = [log EXCEPT ![current] = Marked(@, "ready", batch[current])]
    /\ NextRow
    /\ UNCHANGED <<attempted, scored, stops, replays>>

MarkFailed ==
    /\ phase = "raised"
    /\ LET tried == batch[current] + 1
       IN  log' = [log EXCEPT ![current] = Marked(@, Retried(tried), tried)]
    /\ NextRow
    /\ UNCHANGED <<attempted, scored, stops, replays>>

\* What a stopped consumer loses: the rest of its batch, nothing on disk.
Forget ==
    /\ stops < MaxStops
    /\ batch' = <<>> /\ current' = 0 /\ phase' = "idle"
    /\ stops' = stops + 1
    /\ UNCHANGED <<log, attempted, scored, replays>>

\* The process stops, or the UPDATE of the except clause raises out of
\* consume_batch and the loop starts over.
Stop == DOMAIN batch # {} /\ Forget

-----------------------------------------------------------------------------

Init ==
    /\ log = <<>> /\ batch = <<>> /\ current = 0 /\ phase = "idle"
    /\ attempted = {} /\ scored = {} /\ stops = 0 /\ replays = 0

Consume ==
    TakeBatch \/ CallHandler \/ HandlerReturns \/ Raised \/ MarkDone \/ MarkFailed

Next == Publish \/ Replay \/ Consume \/ Stop

Spec == Init /\ [][Next]_queueVars

\* _stream_consumer_loop calls consume_batch for as long as the process runs,
\* and the handler returns or raises.  Nothing obliges anyone to publish, to
\* replay, or to crash.
FairSpec == Spec /\ WF_queueVars(Consume)

-----------------------------------------------------------------------------
(* Properties.                                                             *)

TypeOK ==
    /\ log \in Seq(Row)
    /\ DOMAIN batch \subseteq DOMAIN log
    /\ \A i \in DOMAIN batch : batch[i] \in Nat
    /\ phase \in {"idle", "handling", "scored", "raised"}
    /\ IF phase = "idle" THEN current = 0 ELSE current \in DOMAIN batch
    /\ attempted \subseteq DOMAIN log
    /\ scored \subseteq attempted
    /\ stops \in Nat /\ replays \in Nat

\* What lets consume_batch settle a row blindly, from attempts it read before
\* the handler ran: as long as a row is in the batch no publish and no replay
\* has touched it.  It rests on the single consumer the docstring demands.
SnapshotFresh ==
    \A i \in DOMAIN batch : log[i].status = "ready" /\ log[i].attempts = batch[i]

\* Retries are capped: a message is retried only below max_attempts and is
\* dead exactly when it used them all since it was enqueued or replayed.
RetriesCapped ==
    \A i \in DOMAIN log :
        /\ log[i].status = "dead" <=> log[i].attempts = MaxAttempts
        /\ log[i].attempts <= MaxAttempts

\* FIFO, as far as the transport gives it: no message reaches the handler for
\* the first time before one enqueued earlier (retries do fall behind).
FirstAttemptsInOrder ==
    \A i \in attempted : \A j \in DOMAIN log : j < i => j \in attempted

\* Why these hold: a row leaves "ready" only through the handler, a batch
\* passes over no row the handler has not seen, and "scored" means scored.
SettledWasAttempted ==
    \A i \in DOMAIN log : log[i].status # "ready" => i \in attempted

BatchPassesNothingOver ==
    \A i \in DOMAIN batch : \A j \in DOMAIN log \ DOMAIN batch : j < i => j \in attempted

InHand ==
    /\ phase # "idle" => current \in attempted
    /\ phase = "scored" => current \in scored

IInv ==
    /\ TypeOK
    /\ SnapshotFresh
    /\ RetriesCapped
    /\ SettledWasAttempted
    /\ BatchPassesNothingOver
    /\ FirstAttemptsInOrder
    /\ InHand

\* Backpressure: producers alone never drive the ready depth past max_depth.
OnlyReplayOverfills ==
    [][Depth' > Depth /\ Depth' > MaxDepth => replays' > replays]_queueVars

\* The transport implements the at-least-once promise.
Promise == INSTANCE DeliveryLog WITH
    Message <- 1..MaxRows, accepted <- DOMAIN log, owed <- Ready, dead <- With("dead")

ImplementsDeliveryLog == Promise!Spec

\* No accepted message stays unsettled forever: crashes, failures and replays
\* included, a ready row is eventually scored or dead-lettered.
EverythingSettles ==
    \A i \in 1..MaxRows : (i \in Ready) ~> (i \notin Ready)

\* "IDEMPOTENT publish (dedupe by key), so a retry from the client cannot
\* double-enqueue": however often a key is published, at most one row of it is
\* waiting or scored. (A dead row is no duplicate: see README, Findings.)
KeyEnqueuedOnce ==
    \A i, j \in DOMAIN log \ With("dead") :
        log[i].key = log[j].key /\ log[i].key # NoKey => i = j
=============================================================================
