--------------------------- MODULE SourceConnector ---------------------------
(***************************************************************************)
(* The pull side of ingestion, core/connectors.py, in front of the         *)
(* transport of StreamQueue: a source somebody else appends to, its        *)
(* durable checkpoint, and the polls that read from the checkpoint on,     *)
(* publish, and write the checkpoint back.                                 *)
(*                                                                         *)
(* FileConnector.read counts lines with enumerate over the open file.  A   *)
(* line its writer has not finished is read as far as it goes and takes a  *)
(* line number; if the writer goes on before the next readline, what is    *)
(* left of the line is read as a line of its own and takes another.  The   *)
(* line numbers of that poll, and so its checkpoint, are then ahead of the *)
(* file.                                                                   *)
(*                                                                         *)
(* Nothing serialises two polls of one connector: the background loop and  *)
(* POST /connectors/file/poll run on different threads.  The checkpoint is *)
(* in the store's database, the log in the queue's, so a poll is a step    *)
(* per record, and a crash can fall between any two of them.               *)
(***************************************************************************)
EXTENDS StreamQueue

CONSTANTS
    Poller,         \* threads that may call poll()
    BackgroundLoop, \* the one of _connector_poll_loop
    Junk,           \* a blank, malformed or invalid record: read, not published
    MaxEvents,      \* max_events of one poll
    MaxRecords,     \* bound on the length of the source
    Chunks,         \* writes a line may take, the newline being in the last: 1 if
                    \* lines are appended whole
    TextAt          \* the write that completes the line's text

ASSUME ConnectorAssumption ==
    /\ BackgroundLoop \in Poller
    /\ Junk \notin Key
    /\ MaxEvents \in Nat \ {0} /\ MaxRecords \in Nat
    /\ Chunks \in Nat \ {0} /\ TextAt \in 1..Chunks

VARIABLES
    source,         \* the drop file: the key of each line's record, or Junk
    written,        \* how much of its last line is in the file
    checkpoint,     \* the connector's row in the checkpoints table
    poll,           \* per thread, the locals of its call of poll() and of read()
    spent           \* history: fragments read by the polls that moved the checkpoint

connectorVars == <<source, written, checkpoint, poll, spent>>
vars == <<queueVars, connectorVars>>

\* idx is enumerate's counter; at and mid say where the file really is read up
\* to; fragments counts the reads that returned less than a line.
NoPoll == [running |-> FALSE, start |-> 0, idx |-> 0, at |-> 0, mid |-> 0, fragments |-> 0]

Published(k) == \E i \in DOMAIN log : log[i].key = k

-----------------------------------------------------------------------------
(* The processor that writes the drop file.                                *)

Written(o) == IF o = Len(source) THEN written ELSE Chunks

WriteRecord ==
    /\ Len(source) < MaxRecords /\ written = Chunks
    /\ \E r \in Key \cup {Junk} : source' = Append(source, r)
    /\ written' \in 1..Chunks
    /\ UNCHANGED <<queueVars, checkpoint, poll, spent>>

WriteOn ==
    /\ written' \in written + 1..Chunks
    /\ UNCHANGED <<queueVars, source, checkpoint, poll, spent>>

-----------------------------------------------------------------------------
(* poll().                                                                 *)

StartPoll(p) ==
    /\ ~poll[p].running
    /\ poll' = [poll EXCEPT ![p] =
                  [running |-> TRUE, start |-> checkpoint, idx |-> 0, at |-> 0, mid |-> 0,
                   fragments |-> 0]]
    /\ UNCHANGED <<queueVars, source, written, checkpoint, spent>>

\* The next readline would return something.
Readable(p) ==
    /\ poll[p].running
    /\ poll[p].at < Len(source) /\ poll[p].mid < Written(poll[p].at + 1)

\* The line in hand has a number the checkpoint covers: read() skips it.
Skipping(p) == Readable(p) /\ poll[p].idx < poll[p].start

MoreToRead(p) ==
    Readable(p) /\ poll[p].idx \in poll[p].start .. poll[p].start + MaxEvents - 1

\* The record read() yields.  It is there once the line's text is, with or
\* without a newline; a fragment is malformed JSON, which read() turns into {}
\* for the schema to reject.
NextRecord(p) ==
    LET o == poll[p].at + 1
    IN  IF poll[p].mid = 0 /\ Written(o) >= TextAt THEN source[o] ELSE Junk

Refused(p) == MoreToRead(p) /\ NextRecord(p) # Junk
                /\ ~Duplicate(NextRecord(p)) /\ AtCapacity

\* A poll that has read what there is of line c.at + 1, up to its chunk w.
Onward(c, w) ==
    LET piece == IF c.mid = 0 /\ w = Chunks THEN 0 ELSE 1
    IN  [running |-> c.running, start |-> c.start, idx |-> c.idx + 1,
         at |-> IF w = Chunks THEN c.at + 1 ELSE c.at,
         mid |-> IF w = Chunks THEN 0 ELSE w,
         fragments |-> c.fragments + piece]

ReadLine(p) == poll' = [poll EXCEPT ![p] = Onward(@, Written(@.at + 1))]

SkipLine(p) ==
    /\ Skipping(p)
    /\ ReadLine(p)
    /\ UNCHANGED <<queueVars, source, written, checkpoint, spent>>

\* Mutant: a record the full queue refused is passed like any other.
PollRecord_DropsRefused(p) ==
    /\ MoreToRead(p)
    /\ IF NextRecord(p) = Junk THEN UNCHANGED log ELSE publish(NextRecord(p))
    /\ ReadLine(p)
    /\ UNCHANGED <<consumerVars, attempted, scored, stops, replays,
                   source, written, checkpoint, spent>>

\* Junk is counted and passed; a record is published, or recognised as a
\* duplicate, and passed.
PollRecord(p) ==
    /\ MoreToRead(p) /\ ~Refused(p)
    /\ IF NextRecord(p) = Junk THEN UNCHANGED log ELSE publish(NextRecord(p))
    /\ ReadLine(p)
    /\ UNCHANGED <<consumerVars, attempted, scored, stops, replays,
                   source, written, checkpoint, spent>>

\* last_offset: the number of the last line yielded and not refused.
LastOffset(p) == IF poll[p].idx > poll[p].start THEN poll[p].idx ELSE poll[p].start

\* End of the file, of max_events, or BackpressureError.
Exhausted(p) == poll[p].running /\ ~Skipping(p) /\ (~MoreToRead(p) \/ Refused(p))

\* Mutant: the checkpoint is past the refused record.
FinishPoll_PastRefused(p) ==
    /\ Exhausted(p)
    /\ LET last == IF Refused(p) THEN LastOffset(p) + 1 ELSE LastOffset(p)
       IN  IF last # poll[p].start
           THEN checkpoint' = last /\ spent' = spent + poll[p].fragments
           ELSE UNCHANGED <<checkpoint, spent>>
    /\ poll' = [poll EXCEPT ![p] = NoPoll]
    /\ UNCHANGED <<queueVars, source, written>>

\* The checkpoint is set to the last number passed, without looking at what it
\* is by now.
FinishPoll(p) ==
    /\ Exhausted(p)
    /\ IF LastOffset(p) # poll[p].start
       THEN checkpoint' = LastOffset(p) /\ spent' = spent + poll[p].fragments
       ELSE UNCHANGED <<checkpoint, spent>>
    /\ poll' = [poll EXCEPT ![p] = NoPoll]
    /\ UNCHANGED <<queueVars, source, written>>

Poll(p) == StartPoll(p) \/ SkipLine(p) \/ PollRecord(p) \/ FinishPoll(p)

\* A database error out of publish or set_checkpoint ends this poll alone,
\* before its checkpoint.
Abandon(p) ==
    /\ poll[p].running
    /\ stops < MaxStops
    /\ stops' = stops + 1
    /\ poll' = [poll EXCEPT ![p] = NoPoll]
    /\ UNCHANGED <<log, consumerVars, attempted, scored, replays,
                   source, written, checkpoint, spent>>

\* The process stops: every poll is cut short before its checkpoint.
Crash ==
    /\ \E p \in Poller : poll[p].running
    /\ Forget
    /\ poll' = [p \in Poller |-> NoPoll]
    /\ UNCHANGED <<source, written, checkpoint, spent>>

-----------------------------------------------------------------------------

ConnectorInit ==
    /\ Init
    /\ source = <<>> /\ written = Chunks /\ checkpoint = 0
    /\ poll = [p \in Poller |-> NoPoll]
    /\ spent = 0

QueueStep == (Replay \/ Consume \/ Stop) /\ UNCHANGED connectorVars

ConnectorNext ==
    \/ QueueStep
    \/ WriteRecord \/ WriteOn
    \/ \E p \in Poller : Poll(p) \/ Abandon(p)
    \/ Crash

ConnectorSpec == ConnectorInit /\ [][ConnectorNext]_vars

\* Both background loops run forever; what the other threads, the source's
\* writer and the operator do is up to them.
FairConnectorSpec ==
    /\ ConnectorSpec
    /\ WF_vars(Consume /\ UNCHANGED connectorVars)
    /\ WF_vars(Poll(BackgroundLoop))

-----------------------------------------------------------------------------
(* Properties.                                                             *)

ConnectorTypeOK ==
    /\ TypeOK
    /\ source \in Seq(Key \cup {Junk})
    /\ written \in 1..Chunks
    /\ checkpoint \in Nat /\ spent \in Nat
    /\ poll \in [Poller -> [running: BOOLEAN, start: Nat, idx: Nat, at: Nat, mid: Nat,
                           fragments: Nat]]
    /\ \A p \in Poller : poll[p].at <= Len(source) /\ poll[p].mid < Chunks

\* Line numbers the transport has nothing of: of a record nobody published, or
\* of a line that is still to come.
Outstanding(o) == o \in DOMAIN source => source[o] # Junk /\ ~Published(source[o])

PassedOver == {o \in 1..checkpoint : Outstanding(o)}

\* What the checkpoint has passed and the transport was not given, whatever
\* crashes, backpressure and overlapping polls (which may move the checkpoint
\* back) happened meanwhile: at most as many line numbers, written or still to
\* be written, as polls have read fragments of unfinished lines.
LossIsBounded == Cardinality(PassedOver) <= spent

\* A pull connector must "not lose the tail": every record the checkpoint has
\* passed reached the transport, once its writer is done with it.
TailNotLost ==
    \A o \in DOMAIN source \cap 1..checkpoint :
        source[o] # Junk /\ Written(o) = Chunks => Published(source[o])

\* "BACKPRESSURE ... so it is retried next poll rather than dropped": in the
\* end as many records of the source are missing from the transport as the
\* fragments can account for, none if there were none.
EveryRecordArrives ==
    []<>(Cardinality({o \in DOMAIN source : Outstanding(o)}) <= spent)
=============================================================================
