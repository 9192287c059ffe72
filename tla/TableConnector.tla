--------------------------- MODULE TableConnector ---------------------------
(***************************************************************************)
(* POST /connectors/db/poll and DBConnector of core/connectors.py: source  *)
(* tables are read past a watermark, projected on the fields the request   *)
(* maps, validated and published.  Requests run in threads of the server,  *)
(* each with a connector of its own; what they share is the checkpoint of  *)
(* the connector's id, in the store.                                       *)
(*                                                                         *)
(* The transport is StreamQueue's: here a row may be queued once, and the  *)
(* queue may refuse at any time.                                           *)
(***************************************************************************)
EXTENDS Integers, FiniteSets, FiniteSetsExt

CONSTANTS
    Table,          \* tables of one name in source databases
    MaxRowId,       \* bound on the rows of a table
    PollRequest,    \* requests: [table, connector, mapped], the id as sent or defaulted,
                    \* and whether the field map covers what the schema requires
    Poller,         \* handler threads
    Batch,          \* rows of one poll
    MaxPollCrashes  \* bound on process crashes

ASSUME TableAssumption ==
    /\ {MaxRowId, MaxPollCrashes} \subseteq Nat
    /\ Batch \in Nat \ {0}
    /\ \A r \in PollRequest : r.table \in Table

VARIABLES
    begun,          \* per table, the ids its writers have taken
    committed,      \* per table, the ids a reader can see
    watermark,      \* per connector id, the stored checkpoint
    poll,           \* per thread, the locals of its poll
    queued,         \* rows the transport has, as <<table, id>>
    rejected,       \* rows the schema refused
    late,           \* history: rows committed after one with a higher id
    pollCrashes     \* counter of the bound

tableVars ==
    <<begun, committed, watermark, poll, queued, rejected, late, pollCrashes>>

ConnectorId == {r.connector : r \in PollRequest}
NoTablePoll == [running |-> FALSE]

TableInit ==
    /\ begun = [t \in Table |-> {}]
    /\ committed = [t \in Table |-> {}]
    /\ watermark = [c \in ConnectorId |-> 0]
    /\ poll = [p \in Poller |-> NoTablePoll]
    /\ queued = {} /\ rejected = {} /\ late = {}
    /\ pollCrashes = 0

-----------------------------------------------------------------------------
(* The source: an id is taken when the row is inserted and seen when the    *)
(* writer commits.                                                          *)

Insert(t) ==
    /\ Cardinality(begun[t]) < MaxRowId
    /\ begun' = [begun EXCEPT ![t] = @ \cup {Cardinality(@) + 1}]
    /\ UNCHANGED <<committed, watermark, poll, queued, rejected, late, pollCrashes>>

Commit(t) ==
    /\ \E id \in begun[t] \ committed[t] :
          /\ committed' = [committed EXCEPT ![t] = @ \cup {id}]
          /\ late' = IF \E other \in committed[t] : other > id THEN late \cup {<<t, id>>} ELSE late
    /\ UNCHANGED <<begun, watermark, poll, queued, rejected, pollCrashes>>

-----------------------------------------------------------------------------
(* One poll.                                                               *)

\* WHERE id > ? ORDER BY id LIMIT ?
Selected(t, since) ==
    LET newer == {id \in committed[t] : id > since}
    IN  {id \in newer : Cardinality({other \in newer : other <= id}) <= Batch}

\* The query sees one snapshot of the source.
Select(p) ==
    /\ ~poll[p].running
    /\ \E r \in PollRequest :
          LET since == watermark[r.connector]
          IN  poll' = [poll EXCEPT ![p] =
                          [running |-> TRUE, request |-> r, start |-> since, last |-> since,
                           rows |-> Selected(r.table, since)]]
    /\ UNCHANGED <<begun, committed, watermark, queued, rejected, late, pollCrashes>>

FirstRow(p) == Min(poll[p].rows)

\* The poll past its first row.
Past(p) == [poll[p] EXCEPT !.last = FirstRow(p), !.rows = @ \ {FirstRow(p)}]

\* Mutant: the row in hand counts as consumed before the queue has it.
PublishRow_CountsFirst(p) ==
    /\ poll[p].running /\ poll[p].rows # {}
    /\ LET row == <<poll[p].request.table, FirstRow(p)>>
       IN  IF ~poll[p].request.mapped
           THEN rejected' = rejected \cup {row} /\ UNCHANGED queued
           ELSE queued' \in {queued, queued \cup {row}} /\ UNCHANGED rejected
    /\ poll' = [poll EXCEPT ![p] = Past(p)]
    /\ UNCHANGED <<begun, committed, watermark, late, pollCrashes>>

\* A row whose mapped fields the schema refuses is counted and passed over.
PublishRow(p) ==
    /\ poll[p].running /\ poll[p].rows # {}
    /\ LET row == <<poll[p].request.table, FirstRow(p)>>
       IN  IF ~poll[p].request.mapped
           THEN rejected' = rejected \cup {row} /\ UNCHANGED queued
           ELSE queued' = queued \cup {row} /\ UNCHANGED rejected
    /\ poll' = [poll EXCEPT ![p] = Past(p)]
    /\ UNCHANGED <<begun, committed, watermark, late, pollCrashes>>

\* BackpressureError: the loop stops before the row in hand.
RefuseRow(p) ==
    /\ poll[p].running /\ poll[p].rows # {} /\ poll[p].request.mapped
    /\ poll' = [poll EXCEPT ![p].rows = {}]
    /\ UNCHANGED <<begun, committed, watermark, queued, rejected, late, pollCrashes>>

\* set_checkpoint overwrites, unless the poll has not moved.
SaveWatermark(p) ==
    /\ poll[p].running /\ poll[p].rows = {}
    /\ watermark' = IF poll[p].last = poll[p].start THEN watermark
                    ELSE [watermark EXCEPT ![poll[p].request.connector] = poll[p].last]
    /\ poll' = [poll EXCEPT ![p] = NoTablePoll]
    /\ UNCHANGED <<begun, committed, queued, rejected, late, pollCrashes>>

\* The process stops: the stores keep what they have.
StopPolls ==
    /\ pollCrashes < MaxPollCrashes
    /\ \E p \in Poller : poll[p].running
    /\ poll' = [p \in Poller |-> NoTablePoll]
    /\ pollCrashes' = pollCrashes + 1
    /\ UNCHANGED <<begun, committed, watermark, queued, rejected, late>>

TableNext ==
    \/ \E t \in Table : Insert(t) \/ Commit(t)
    \/ \E p \in Poller : Select(p) \/ PublishRow(p) \/ RefuseRow(p) \/ SaveWatermark(p)
    \/ StopPolls

TableSpec == TableInit /\ [][TableNext]_tableVars

-----------------------------------------------------------------------------

\* Ids only one table is polled under.
Own(c) == \A q, r \in PollRequest : q.connector = c /\ r.connector = c => q.table = r.table

\* The rows a checkpoint has been moved past, though no pipeline stage has them.
PassedOver(r) ==
    {id \in committed[r.table] \cap 1..watermark[r.connector] :
        <<r.table, id>> \notin queued \cup rejected}

\* "Idempotent (transport dedupe) and resumable (durable offset)": with two
\* polls at once, refusals and crashes, a checkpoint that belongs to one table
\* stands past no row of it that the pipeline did not get, as long as rows
\* become visible in the order of their ids.
NoRowInOrderIsPassedOver ==
    \A r \in PollRequest : Own(r.connector) =>
        \A id \in PassedOver(r) : <<r.table, id>> \in late

\* "Incremental by a monotonic watermark, so it only ever ingests what is new",
\* without that proviso, and for whatever id a request leaves the connector.
NoRowIsPassedOver == \A r \in PollRequest : PassedOver(r) = {}
=============================================================================
