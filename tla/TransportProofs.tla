---------------------------- MODULE TransportProofs ---------------------------
(***************************************************************************)
(* Proofs about StreamQueue, for every set of keys, every capacity, batch  *)
(* size and retry limit, and any number of rows, crashes and replays; and  *)
(* about SourceConnector, for any number of overlapping polls and any      *)
(* source: every step a poll takes is a step the queue's invariant         *)
(* survives, so what is shown of the log holds behind the connector, and   *)
(* what a checkpoint passes without the transport having it is bounded by  *)
(* the fragments of unfinished lines that were read.                       *)
(***************************************************************************)
EXTENDS SourceConnector, SequenceTheorems, FiniteSetTheorems, TLAPS

USE QueueAssumption

\* The log is a table indexed by seq.
LEMMA LogRows ==
  ASSUME TypeOK
  PROVE  /\ Len(log) \in Nat
         /\ DOMAIN log = 1..Len(log)
         /\ \A i \in DOMAIN log : log[i] \in Row
BY LenProperties, ElementOfSeq DEF TypeOK

\* The rows the batch SELECT leaves out are younger than those it takes.
LEMMA OldestFirst ==
  ASSUME TypeOK, NEW i \in Oldest, NEW j \in Ready, j < i
  PROVE  j \in Oldest
<1> DEFINE UpTo(n) == {k \in Ready : k <= n}
<1>1. Ready \subseteq 1..Len(log) /\ Len(log) \in Nat
  BY LogRows DEF Ready, With
<1>2. IsFiniteSet(1..Len(log))
  BY <1>1, FS_Interval
<1>3. IsFiniteSet(UpTo(i)) /\ IsFiniteSet(UpTo(j))
  BY <1>1, <1>2, FS_Subset
<1>4. UpTo(j) \subseteq UpTo(i)
  <2>1. i \in 1..Len(log) /\ j \in 1..Len(log)
    BY <1>1 DEF Oldest
  <2>2. \A k \in Ready : k <= j => k <= i
    BY <1>1, <2>1
  <2>3. QED
    BY <2>2
<1>5. Cardinality(UpTo(j)) <= Cardinality(UpTo(i))
  BY <1>3, <1>4, FS_Subset
<1>6. Cardinality(UpTo(j)) \in Nat /\ Cardinality(UpTo(i)) \in Nat
  BY <1>3, FS_CardinalityType
<1>7. QED
  BY <1>5, <1>6 DEF Oldest

-----------------------------------------------------------------------------
(* The effect of each writer on the table.                                 *)

LEMMA PublishEffect ==
  ASSUME TypeOK, NEW k \in Key \cup {NoKey}, publish(k), log' # log
  PROVE  /\ log' \in Seq(Row)
         /\ DOMAIN log' = DOMAIN log \cup {Len(log) + 1}
         /\ \A i \in DOMAIN log : log'[i] = log[i]
         /\ log'[Len(log) + 1] = [key |-> k, status |-> "ready", attempts |-> 0]
<1> DEFINE row == [key |-> k, status |-> "ready", attempts |-> 0]
<1>1. row \in Row
  BY DEF Row, Status
<1>2. log' = Append(log, row)
  BY DEF publish
<1>3. /\ log' \in Seq(Row) /\ Len(log') = Len(log) + 1
      /\ \A i \in 1..Len(log) : log'[i] = log[i]
      /\ log'[Len(log) + 1] = row
  BY <1>1, <1>2, AppendProperties DEF TypeOK
<1>4. DOMAIN log' = 1..(Len(log) + 1)
  BY <1>3, LenProperties
<1>5. QED
  BY <1>3, <1>4, LogRows

LEMMA ReplayEffect ==
  ASSUME TypeOK, NEW which \in {"dead", "done"}, replay(which)
  PROVE  /\ log' \in Seq(Row)
         /\ DOMAIN log' = DOMAIN log
         /\ \A i \in DOMAIN log :
              IF log[i].status = which
              THEN log'[i] = Marked(log[i], "ready", 0)
              ELSE log'[i] = log[i]
<1>1. DOMAIN log' = 1..Len(log) /\ Len(log) \in Nat
  BY LogRows DEF replay
<1>2. \A i \in DOMAIN log :
         IF log[i].status = which
         THEN log'[i] = Marked(log[i], "ready", 0)
         ELSE log'[i] = log[i]
  BY LogRows DEF replay
<1>3. \A i \in 1..Len(log) : log'[i] \in Row
  <2>1. \A row \in Row : Marked(row, "ready", 0) \in Row
    BY DEF Marked, Row, Status
  <2>2. QED
    BY <1>2, <2>1, LogRows
<1>4. log' \in Seq(Row)
  <2>1. log' = [i \in 1..Len(log) |-> log'[i]]
    BY <1>1 DEF replay
  <2>2. QED
    BY <1>1, <1>3, <2>1, IsASeq
<1>5. QED
  BY <1>1, <1>2, <1>4, LogRows

LEMMA SettleEffect ==
  ASSUME TypeOK, current \in DOMAIN log,
         NEW status \in Status, NEW attempts \in Nat,
         log' = [log EXCEPT ![current] = Marked(@, status, attempts)]
  PROVE  /\ log' \in Seq(Row)
         /\ DOMAIN log' = DOMAIN log
         /\ \A i \in DOMAIN log \ {current} : log'[i] = log[i]
         /\ log'[current] = Marked(log[current], status, attempts)
<1>1. Marked(log[current], status, attempts) \in Row
  BY LogRows DEF Row, Marked
<1>2. QED
  BY <1>1, LogRows, ExceptSeq DEF TypeOK

-----------------------------------------------------------------------------
(* The inductive step, one lemma per kind of action.                       *)

LEMMA InitIInv == Init => IInv
BY EmptySeq DEF Init, IInv, TypeOK, SnapshotFresh, RetriesCapped, SettledWasAttempted,
                BatchPassesNothingOver, FirstAttemptsInOrder, InHand

\* Publishing adds a ready row, younger than every other, whoever publishes.
LEMMA AppendIInv ==
  ASSUME IInv, NEW k \in Key \cup {NoKey}, publish(k),
         UNCHANGED <<batch, current, phase, attempted, scored, stops, replays>>
  PROVE  IInv'
<1>1. CASE log' = log
  BY <1>1 DEF IInv, TypeOK, SnapshotFresh, RetriesCapped, SettledWasAttempted,
              BatchPassesNothingOver, FirstAttemptsInOrder, InHand
<1>2. CASE log' # log
  <2>1. /\ log' \in Seq(Row)
        /\ DOMAIN log' = DOMAIN log \cup {Len(log) + 1}
        /\ \A i \in DOMAIN log : log'[i] = log[i]
        /\ log'[Len(log) + 1] = [key |-> k, status |-> "ready", attempts |-> 0]
    BY <1>2, PublishEffect DEF IInv
  <2>2. DOMAIN log = 1..Len(log) /\ Len(log) \in Nat
    BY LogRows DEF IInv
  <2>3. TypeOK'
    BY <2>1 DEF IInv, TypeOK
  <2>4. SnapshotFresh'
    BY <2>1 DEF IInv, TypeOK, SnapshotFresh
  <2>5. RetriesCapped'
    BY <2>1 DEF IInv, RetriesCapped
  <2>6. SettledWasAttempted'
    BY <2>1 DEF IInv, SettledWasAttempted
  <2>7. BatchPassesNothingOver'
    BY <2>1, <2>2 DEF IInv, TypeOK, BatchPassesNothingOver
  <2>8. FirstAttemptsInOrder'
    BY <2>1, <2>2 DEF IInv, TypeOK, FirstAttemptsInOrder
  <2>9. InHand'
    BY DEF IInv, InHand
  <2>10. QED
    BY <2>3, <2>4, <2>5, <2>6, <2>7, <2>8, <2>9 DEF IInv
<1>3. QED
  BY <1>1, <1>2

LEMMA PublishIInv == ASSUME IInv, Publish PROVE IInv'
<1>1. PICK k \in Key \cup {NoKey} : publish(k)
  BY DEF Publish
<1>2. UNCHANGED <<batch, current, phase, attempted, scored, stops, replays>>
  BY DEF Publish, consumerVars
<1>3. QED
  BY <1>1, <1>2, AppendIInv

\* A replay touches settled rows only, so none that is in the batch.
LEMMA ReplayIInv == ASSUME IInv, Replay PROVE IInv'
<1>1. PICK which \in {"dead", "done"} : replay(which)
  BY DEF Replay
<1>2. UNCHANGED <<batch, current, phase, attempted, scored, stops>> /\ replays' = replays + 1
  BY DEF Replay, consumerVars
<1>3. /\ log' \in Seq(Row)
      /\ DOMAIN log' = DOMAIN log
      /\ \A i \in DOMAIN log :
           IF log[i].status = which
           THEN log'[i] = Marked(log[i], "ready", 0)
           ELSE log'[i] = log[i]
  BY <1>1, ReplayEffect DEF IInv
<1>4. TypeOK'
  BY <1>2, <1>3 DEF IInv, TypeOK
<1>5. SnapshotFresh'
  BY <1>2, <1>3 DEF IInv, TypeOK, SnapshotFresh
<1>6. RetriesCapped'
  BY <1>3 DEF IInv, RetriesCapped, Marked
<1>7. SettledWasAttempted'
  BY <1>2, <1>3 DEF IInv, SettledWasAttempted, Marked
<1>8. (BatchPassesNothingOver /\ FirstAttemptsInOrder /\ InHand)'
  BY <1>2, <1>3 DEF IInv, BatchPassesNothingOver, FirstAttemptsInOrder, InHand
<1>9. QED
  BY <1>4, <1>5, <1>6, <1>7, <1>8 DEF IInv

\* What the batch leaves out of the rows before it was settled, so attempted.
LEMMA TakeBatchIInv == ASSUME IInv, TakeBatch PROVE IInv'
<1>1. /\ phase = "idle" /\ batch' = [i \in Oldest |-> log[i].attempts]
      /\ UNCHANGED <<log, current, phase, attempted, scored, stops, replays>>
  BY DEF TakeBatch
<1>2. Oldest \subseteq Ready /\ Ready \subseteq DOMAIN log
  BY DEF Oldest, Ready, With
<1>3. \A i \in DOMAIN log : log[i] \in Row
  BY LogRows DEF IInv
<1>4. TypeOK'
  BY <1>1, <1>2, <1>3 DEF IInv, TypeOK, Row
<1>5. SnapshotFresh'
  BY <1>1, <1>2 DEF SnapshotFresh, Ready, With
<1>6. BatchPassesNothingOver'
  <2>1. ASSUME NEW i \in Oldest, NEW j \in DOMAIN log \ Oldest, j < i PROVE j \in attempted
    <3>1. j \notin Ready
      BY <2>1, OldestFirst DEF IInv
    <3>2. QED
      BY <2>1, <3>1 DEF IInv, SettledWasAttempted, Ready, With
  <2>2. QED
    BY <1>1, <2>1 DEF BatchPassesNothingOver
<1>7. (RetriesCapped /\ SettledWasAttempted /\ FirstAttemptsInOrder /\ InHand)'
  BY <1>1 DEF IInv, RetriesCapped, SettledWasAttempted, FirstAttemptsInOrder, InHand
<1>8. QED
  BY <1>4, <1>5, <1>6, <1>7 DEF IInv

\* The handler is called with the oldest row left: all before it were called.
LEMMA CallHandlerIInv == ASSUME IInv, CallHandler PROVE IInv'
<1>1. PICK i \in DOMAIN batch :
         /\ \A j \in DOMAIN batch : i <= j
         /\ current' = i
         /\ attempted' = attempted \cup {i}
  BY DEF CallHandler
<1>2. phase' = "handling" /\ UNCHANGED <<log, batch, scored, stops, replays>>
  BY DEF CallHandler
<1>3. DOMAIN log = 1..Len(log) /\ Len(log) \in Nat /\ DOMAIN batch \subseteq DOMAIN log
  BY LogRows DEF IInv, TypeOK
<1>4. TypeOK'
  BY <1>1, <1>2 DEF IInv, TypeOK
<1>5. FirstAttemptsInOrder'
  <2>1. ASSUME NEW j \in DOMAIN log, j < i PROVE j \in attempted
    <3>1. j \notin DOMAIN batch
      BY <1>1, <1>3, <2>1
    <3>2. QED
      BY <1>1, <2>1, <3>1 DEF IInv, BatchPassesNothingOver
  <2>2. QED
    BY <1>1, <1>2, <2>1 DEF IInv, FirstAttemptsInOrder
<1>6. (SettledWasAttempted /\ BatchPassesNothingOver)'
  BY <1>1, <1>2 DEF IInv, SettledWasAttempted, BatchPassesNothingOver
<1>7. (SnapshotFresh /\ RetriesCapped /\ InHand)'
  BY <1>1, <1>2 DEF IInv, SnapshotFresh, RetriesCapped, InHand
<1>8. QED
  BY <1>4, <1>5, <1>6, <1>7 DEF IInv

LEMMA OutcomeIInv == ASSUME IInv, HandlerReturns \/ Raised PROVE IInv'
<1>1. /\ phase # "idle" /\ phase' \in {"scored", "raised"}
      /\ scored' \in {scored, scored \cup {current}}
      /\ phase' = "scored" => current \in scored'
      /\ UNCHANGED <<log, batch, current, attempted, stops, replays>>
  BY DEF HandlerReturns, Raised
<1>2. TypeOK'
  BY <1>1 DEF IInv, TypeOK, InHand
<1>3. InHand'
  BY <1>1 DEF IInv, InHand
<1>4. (SnapshotFresh /\ RetriesCapped /\ SettledWasAttempted
        /\ BatchPassesNothingOver /\ FirstAttemptsInOrder)'
  BY <1>1 DEF IInv, SnapshotFresh, RetriesCapped, SettledWasAttempted,
              BatchPassesNothingOver, FirstAttemptsInOrder
<1>5. QED
  BY <1>2, <1>3, <1>4 DEF IInv

Settles(status, attempts) ==
    /\ log' = [log EXCEPT ![current] = Marked(@, status, attempts)]
    /\ attempts <= MaxAttempts
    /\ status = "dead" <=> attempts = MaxAttempts
    /\ status = "done" => current \in scored

\* Settling writes the row in hand, from attempts the snapshot still shows.
LEMMA SettleStep ==
  ASSUME IInv, MarkDone \/ MarkFailed
  PROVE  /\ current \in DOMAIN batch /\ current \in DOMAIN log
         /\ \E status \in Status, attempts \in Nat : Settles(status, attempts)
<1>1. current \in DOMAIN batch /\ current \in DOMAIN log /\ batch[current] \in Nat
  BY DEF IInv, TypeOK, MarkDone, MarkFailed
<1>2. log[current].attempts = batch[current] /\ batch[current] < MaxAttempts
  <2>1. log[current].status = "ready" /\ log[current].attempts = batch[current]
    BY <1>1 DEF IInv, SnapshotFresh
  <2>2. QED
    BY <1>1, <2>1 DEF IInv, RetriesCapped
<1>3. CASE MarkDone
  <2>1. /\ "done" \in Status
        /\ log' = [log EXCEPT ![current] = Marked(@, "done", batch[current])]
        /\ current \in scored
    BY <1>2, <1>3 DEF MarkDone, Status, IInv, InHand
  <2>2. Settles("done", batch[current])
    BY <1>1, <1>2, <2>1 DEF Settles
  <2>3. QED
    BY <1>1, <2>1, <2>2
<1>4. CASE MarkFailed
  <2>1. Retried(batch[current] + 1) \in {"dead", "ready"}
        /\ (Retried(batch[current] + 1) = "dead" <=> batch[current] + 1 = MaxAttempts)
    BY <1>1, <1>2 DEF Retried
  <2>2. /\ Retried(batch[current] + 1) \in Status
        /\ log' = [log EXCEPT ![current] =
                      Marked(@, Retried(batch[current] + 1), batch[current] + 1)]
    BY <1>4, <2>1 DEF MarkFailed, Status
  <2>3. batch[current] + 1 \in Nat /\ batch[current] + 1 <= MaxAttempts
    BY <1>1, <1>2
  <2>4. Settles(Retried(batch[current] + 1), batch[current] + 1)
    BY <2>1, <2>2, <2>3 DEF Settles
  <2>5. QED
    BY <1>1, <2>2, <2>3, <2>4
<1>5. QED
  BY <1>3, <1>4

LEMMA SettleIInv == ASSUME IInv, MarkDone \/ MarkFailed PROVE IInv'
<1>1. current \in DOMAIN batch /\ current \in DOMAIN log
  BY SettleStep
<1>2. PICK status \in Status, attempts \in Nat : Settles(status, attempts)
  BY SettleStep
<1>3. /\ log' \in Seq(Row)
      /\ DOMAIN log' = DOMAIN log
      /\ \A i \in DOMAIN log \ {current} : log'[i] = log[i]
      /\ log'[current] = Marked(log[current], status, attempts)
  BY <1>1, <1>2, SettleEffect DEF Settles, IInv
<1>4. /\ phase # "idle"
      /\ batch' = [i \in DOMAIN batch \ {current} |-> batch[i]]
      /\ current' = 0 /\ phase' = "idle"
      /\ UNCHANGED <<attempted, scored, stops, replays>>
  BY DEF MarkDone, MarkFailed, NextRow
<1>5. current \in attempted
  BY <1>4 DEF IInv, InHand
<1>6. TypeOK'
  BY <1>3, <1>4 DEF IInv, TypeOK
<1>7. SnapshotFresh'
  BY <1>3, <1>4 DEF IInv, TypeOK, SnapshotFresh
<1>8. RetriesCapped'
  BY <1>2, <1>3 DEF IInv, RetriesCapped, Settles, Marked
<1>9. SettledWasAttempted'
  BY <1>3, <1>4, <1>5 DEF IInv, SettledWasAttempted
<1>10. BatchPassesNothingOver'
  BY <1>3, <1>4, <1>5 DEF IInv, BatchPassesNothingOver
<1>11. (FirstAttemptsInOrder /\ InHand)'
  BY <1>3, <1>4 DEF IInv, FirstAttemptsInOrder, InHand
<1>12. QED
  BY <1>6, <1>7, <1>8, <1>9, <1>10, <1>11 DEF IInv

LEMMA StopIInv == ASSUME IInv, Forget PROVE IInv'
<1>1. /\ DOMAIN batch' = {} /\ current' = 0 /\ phase' = "idle" /\ stops' = stops + 1
      /\ UNCHANGED <<log, attempted, scored, replays>>
  BY DEF Forget
<1>2. QED
  BY <1>1 DEF IInv, TypeOK, SnapshotFresh, RetriesCapped, SettledWasAttempted,
              BatchPassesNothingOver, FirstAttemptsInOrder, InHand

LEMMA NextIInv == IInv /\ [Next]_queueVars => IInv'
<1> SUFFICES ASSUME IInv, [Next]_queueVars PROVE IInv'
  OBVIOUS
<1>1. CASE Next
  BY <1>1, PublishIInv, ReplayIInv, TakeBatchIInv, CallHandlerIInv, OutcomeIInv,
     SettleIInv, StopIInv DEF Next, Consume, Stop
<1>2. CASE UNCHANGED queueVars
  BY <1>2 DEF queueVars, IInv, TypeOK, SnapshotFresh, RetriesCapped, SettledWasAttempted,
              BatchPassesNothingOver, FirstAttemptsInOrder, InHand
<1>3. QED
  BY <1>1, <1>2

-----------------------------------------------------------------------------
(* The theorems.                                                           *)

\* The inductive invariant of the transport and its consumer.
THEOREM Inductive == Spec => []IInv
<1>1. Init => IInv
  BY InitIInv
<1>2. IInv /\ [Next]_queueVars => IInv'
  BY NextIInv
<1>3. QED
  BY <1>1, <1>2, PTL DEF Spec

\* The log, the batch in memory and the message in hand stay well formed.
THEOREM TypeCorrect == Spec => []TypeOK
<1>1. IInv => TypeOK
  BY DEF IInv
<1>2. QED
  BY <1>1, Inductive, PTL

\* The attempts a batch row was read with are still those of the table, and
\* the row is still ready, when consume_batch comes to settle it.
THEOREM SnapshotStaysFresh == Spec => []SnapshotFresh
<1>1. IInv => SnapshotFresh
  BY DEF IInv
<1>2. QED
  BY <1>1, Inductive, PTL

\* No message is retried past max_attempts, none is dead before.
THEOREM RetriesAreCapped == Spec => []RetriesCapped
<1>1. IInv => RetriesCapped
  BY DEF IInv
<1>2. QED
  BY <1>1, Inductive, PTL

\* Messages reach the handler for the first time in the order of their seq.
THEOREM FirstAttemptsAreFIFO == Spec => []FirstAttemptsInOrder
<1>1. IInv => FirstAttemptsInOrder
  BY DEF IInv
<1>2. QED
  BY <1>1, Inductive, PTL

-----------------------------------------------------------------------------
(* Refinement: which step of the promise each step of the transport takes. *)

\* An accepted message gets a seq of its own and waits under it.
LEMMA AppendWaits ==
  ASSUME IInv, NEW k \in Key \cup {NoKey}, publish(k), log' # log
  PROVE  /\ Len(log) + 1 \notin DOMAIN log
         /\ DOMAIN log' = DOMAIN log \cup {Len(log) + 1}
         /\ Ready' = Ready \cup {Len(log) + 1}
         /\ With("dead")' = With("dead")
<1>1. /\ DOMAIN log' = DOMAIN log \cup {Len(log) + 1}
      /\ \A i \in DOMAIN log : log'[i] = log[i]
      /\ log'[Len(log) + 1] = [key |-> k, status |-> "ready", attempts |-> 0]
  <2>1. TypeOK
    BY DEF IInv
  <2>2. QED
    BY <2>1, PublishEffect
<1>2. Len(log) + 1 \notin DOMAIN log
  BY LogRows DEF IInv
<1>3. Ready' = Ready \cup {Len(log) + 1} /\ With("dead")' = With("dead")
  BY <1>1, <1>2 DEF Ready, With
<1>4. QED
  BY <1>1, <1>2, <1>3

LEMMA PublishKeepsPromise ==
  ASSUME IInv, Publish, log' # log
  PROVE  Promise!Accept(Len(log) + 1) /\ Len(log) + 1 \in 1..MaxRows
<1>1. PICK k \in Key \cup {NoKey} : publish(k)
  BY DEF Publish
<1>2. Promise!Accept(Len(log) + 1)
  BY <1>1, AppendWaits DEF Publish, Promise!Accept
<1>3. Len(log) + 1 \in 1..MaxRows
  BY LogRows DEF Publish, IInv
<1>4. QED
  BY <1>2, <1>3

LEMMA ReplayKeepsPromise ==
  ASSUME IInv, Replay
  PROVE  \E ms \in SUBSET DOMAIN log : Promise!Restore(ms)
<1>1. PICK which \in {"dead", "done"} : replay(which)
  BY DEF Replay
<1>2. /\ DOMAIN log' = DOMAIN log
      /\ \A i \in DOMAIN log :
           IF log[i].status = which
           THEN log'[i] = Marked(log[i], "ready", 0)
           ELSE log'[i] = log[i]
  BY <1>1, ReplayEffect DEF IInv
<1>3. \A i \in DOMAIN log : log'[i].status = IF log[i].status = which THEN "ready"
                                             ELSE log[i].status
  BY <1>2 DEF Marked
<1>4. With(which) \subseteq DOMAIN log \ Ready
  BY DEF With, Ready
<1>5. Ready' = Ready \cup With(which)
  BY <1>2, <1>3 DEF Ready, With
<1>6. With("dead")' = With("dead") \ With(which)
  BY <1>2, <1>3 DEF With
<1>7. UNCHANGED scored
  BY DEF Replay
<1>8. Promise!Restore(With(which))
  BY <1>2, <1>4, <1>5, <1>6, <1>7 DEF Promise!Restore
<1>9. QED
  BY <1>4, <1>8

LEMMA ScoreKeepsPromise ==
  ASSUME IInv, HandlerReturns
  PROVE  Promise!Score(current) /\ current \in DOMAIN log
<1>1. current \in DOMAIN batch /\ current \in DOMAIN log
  BY DEF IInv, TypeOK, HandlerReturns
<1>2. current \in Ready
  BY <1>1 DEF IInv, SnapshotFresh, Ready, With
<1>3. scored' = scored \cup {current} /\ log' = log
  BY DEF HandlerReturns
<1>4. QED
  BY <1>1, <1>2, <1>3 DEF Promise!Score, Ready, With

LEMMA SettleKeepsPromise ==
  ASSUME IInv, MarkDone \/ MarkFailed
  PROVE  /\ current \in DOMAIN log
         /\ \/ Promise!Acknowledge(current)
            \/ Promise!GiveUp(current)
            \/ UNCHANGED <<DOMAIN log, Ready, scored, With("dead")>>
<1>1. current \in DOMAIN batch /\ current \in DOMAIN log
  BY SettleStep
<1>2. PICK status \in Status, attempts \in Nat : Settles(status, attempts)
  BY SettleStep
<1>3. /\ DOMAIN log' = DOMAIN log
      /\ \A i \in DOMAIN log \ {current} : log'[i] = log[i]
      /\ log'[current] = Marked(log[current], status, attempts)
  BY <1>1, <1>2, SettleEffect DEF Settles, IInv
<1>4. log'[current].status = status
  BY <1>3 DEF Marked
<1>5. current \in Ready /\ UNCHANGED scored
  BY <1>1 DEF IInv, SnapshotFresh, Ready, With, MarkDone, MarkFailed
<1>6. CASE status = "done"
  <2>1. Ready' = Ready \ {current} /\ With("dead")' = With("dead")
    BY <1>1, <1>3, <1>4, <1>5, <1>6 DEF Ready, With
  <2>2. current \in scored
    BY <1>2, <1>6 DEF Settles
  <2>3. QED
    BY <1>1, <1>3, <1>5, <2>1, <2>2 DEF Promise!Acknowledge
<1>7. CASE status = "dead"
  <2>1. Ready' = Ready \ {current} /\ With("dead")' = With("dead") \cup {current}
    BY <1>1, <1>3, <1>4, <1>5, <1>7 DEF Ready, With
  <2>2. QED
    BY <1>1, <1>3, <1>5, <2>1 DEF Promise!GiveUp
<1>8. CASE status = "ready"
  <2>1. Ready' = Ready /\ With("dead")' = With("dead")
    BY <1>1, <1>3, <1>4, <1>5, <1>8 DEF Ready, With
  <2>2. QED
    BY <1>1, <1>3, <1>5, <2>1
<1>9. QED
  BY <1>6, <1>7, <1>8 DEF Status

\* The exploration's bound on the log, which the transport itself has not.
WithinBound == DOMAIN log \subseteq 1..MaxRows

LEMMA BoundKept == Spec => []WithinBound
<1>1. Init => WithinBound
  BY EmptySeq DEF Init, WithinBound
<1>2. ASSUME IInv, WithinBound, [Next]_queueVars PROVE WithinBound'
  <2>1. CASE Publish /\ log' # log
    BY <1>2, <2>1, PublishKeepsPromise DEF Promise!Accept, WithinBound
  <2>2. CASE Replay
    BY <1>2, <2>2, ReplayEffect DEF Replay, IInv, WithinBound
  <2>3. CASE MarkDone \/ MarkFailed
    BY <1>2, <2>3 DEF MarkDone, MarkFailed, WithinBound
  <2>4. CASE UNCHANGED log
    BY <1>2, <2>4 DEF WithinBound
  <2>5. QED
    BY <1>2, <2>1, <2>2, <2>3, <2>4
       DEF Next, Consume, Publish, TakeBatch, CallHandler, HandlerReturns, Raised, Stop,
           Forget, queueVars
<1>3. QED
  BY <1>1, <1>2, Inductive, PTL DEF Spec

\* Every accepted message is owed to the scorer until it has been scored or
\* openly given up, whatever crashes, failures and replays intervene.
THEOREM AtLeastOnce == Spec => ImplementsDeliveryLog
<1>1. ASSUME Init PROVE Promise!Init
  <2>1. log = <<>> /\ scored = {}
    BY <1>1 DEF Init
  <2>2. DOMAIN log = {}
    BY <2>1
  <2>3. QED
    BY <2>1, <2>2 DEF Promise!Init, Ready, With
<1>2. ASSUME IInv, WithinBound, [Next]_queueVars
      PROVE  [Promise!Next]_<<DOMAIN log, Ready, scored, With("dead")>>
  <2>1. CASE UNCHANGED <<log, scored>>
    BY <2>1 DEF Ready, With
  <2>2. CASE Publish /\ log' # log
    BY <1>2, <2>2, PublishKeepsPromise DEF Promise!Next
  <2>3. CASE Replay
    BY <1>2, <2>3, ReplayKeepsPromise DEF Promise!Next
  <2>4. CASE HandlerReturns
    <3>1. current \in 1..MaxRows
      BY <1>2, <2>4, ScoreKeepsPromise DEF WithinBound
    <3>2. QED
      BY <1>2, <2>4, <3>1, ScoreKeepsPromise DEF Promise!Next
  <2>5. CASE MarkDone \/ MarkFailed
    <3>1. current \in 1..MaxRows
      BY <1>2, <2>5, SettleKeepsPromise DEF WithinBound
    <3>2. QED
      BY <1>2, <2>5, <3>1, SettleKeepsPromise DEF Promise!Next
  <2>6. QED
    BY <1>2, <2>1, <2>2, <2>3, <2>4, <2>5
       DEF Next, Consume, Publish, TakeBatch, CallHandler, Raised, Stop, Forget, queueVars
<1>3. QED
  BY <1>1, <1>2, Inductive, BoundKept, PTL DEF Spec, ImplementsDeliveryLog, Promise!Spec

-----------------------------------------------------------------------------
(* Backpressure.                                                           *)

LEMMA ReadyIsFinite == ASSUME TypeOK PROVE IsFiniteSet(Ready) /\ Depth \in Nat
<1>1. IsFiniteSet(1..Len(log)) /\ Ready \subseteq 1..Len(log)
  BY LogRows, FS_Interval DEF Ready, With
<1>2. IsFiniteSet(Ready)
  BY <1>1, FS_Subset
<1>3. QED
  BY <1>2, FS_CardinalityType DEF Depth

\* An accepted message finds room, and takes one place of it.
LEMMA AppendDepth ==
  ASSUME IInv, NEW k \in Key \cup {NoKey}, publish(k), log' # log
  PROVE  Depth' = Depth + 1 /\ Depth' <= MaxDepth /\ Depth \in Nat
<1>1. ~AtCapacity
  BY DEF publish
<1>2. Depth \in Nat /\ Depth < MaxDepth /\ IsFiniteSet(Ready)
  BY <1>1, ReadyIsFinite DEF AtCapacity, IInv
<1>3. Ready' = Ready \cup {Len(log) + 1} /\ Len(log) + 1 \notin Ready
  <2>1. Ready \subseteq DOMAIN log
    BY DEF Ready, With
  <2>2. QED
    BY <2>1, AppendWaits
<1>4. Depth' = Depth + 1
  BY <1>2, <1>3, FS_AddElement DEF Depth
<1>5. QED
  BY <1>2, <1>4

\* Nothing else adds to what is waiting, an operator's replay excepted.
LEMMA DepthShrinks ==
  ASSUME IInv, \/ UNCHANGED log
               \/ MarkDone \/ MarkFailed
  PROVE  Depth' <= Depth /\ Depth \in Nat /\ Depth' \in Nat
<1>1. Ready' \subseteq Ready
  <2>1. CASE MarkDone \/ MarkFailed
    <3>1. current \in DOMAIN batch /\ current \in DOMAIN log
      BY <2>1, SettleStep
    <3>2. PICK status \in Status, attempts \in Nat : Settles(status, attempts)
      BY <2>1, SettleStep
    <3>3. /\ DOMAIN log' = DOMAIN log
          /\ \A i \in DOMAIN log \ {current} : log'[i] = log[i]
      BY <3>1, <3>2, SettleEffect DEF Settles, IInv
    <3>4. current \in Ready
      BY <3>1 DEF IInv, SnapshotFresh, Ready, With
    <3>5. QED
      BY <3>3, <3>4 DEF Ready, With
  <2>2. CASE UNCHANGED log
    BY <2>2 DEF Ready, With
  <2>3. QED
    BY <2>1, <2>2
<1>2. IsFiniteSet(Ready) /\ IsFiniteSet(Ready')
  BY <1>1, ReadyIsFinite, FS_Subset DEF IInv
<1>3. Cardinality(Ready') <= Cardinality(Ready)
  BY <1>1, <1>2, FS_Subset
<1>4. QED
  BY <1>2, <1>3, FS_CardinalityType DEF Depth

\* Producers alone never push the ready depth past max_depth, however many
\* of them publish while messages fail and are retried.
THEOREM BackpressureHolds == Spec => OnlyReplayOverfills
<1> DEFINE Guarded == Depth' > Depth /\ Depth' > MaxDepth => replays' > replays
<1>1. ASSUME IInv, [Next]_queueVars PROVE [Guarded]_queueVars
  <2>1. CASE UNCHANGED log \/ MarkDone \/ MarkFailed
    BY <1>1, <2>1, DepthShrinks
  <2>2. CASE Replay
    BY <1>1, <2>2 DEF Replay, IInv, TypeOK
  <2>3. CASE Publish /\ log' # log
    <3>1. PICK k \in Key \cup {NoKey} : publish(k)
      BY <2>3 DEF Publish
    <3>2. QED
      BY <1>1, <2>3, <3>1, AppendDepth
  <2>4. QED
    BY <1>1, <2>1, <2>2, <2>3
       DEF Next, Consume, Publish, TakeBatch, CallHandler, HandlerReturns, Raised, Stop,
           Forget, queueVars
<1>2. QED
  BY <1>1, Inductive, PTL DEF Spec, OnlyReplayOverfills, Guarded

-----------------------------------------------------------------------------
(* Idempotent publishing.                                                  *)

\* Rows that count as one of their key: a dead one does not.
KeyedOnce == replays = 0 => KeyEnqueuedOnce

LEMMA AppendKeyedOnce ==
  ASSUME IInv, KeyedOnce, NEW k \in Key \cup {NoKey}, publish(k), UNCHANGED replays
  PROVE  KeyedOnce'
<1>1. CASE log' = log
  BY <1>1 DEF KeyedOnce, KeyEnqueuedOnce, With
<1>2. CASE log' # log
  <2>1. /\ DOMAIN log' = DOMAIN log \cup {Len(log) + 1}
        /\ \A i \in DOMAIN log : log'[i] = log[i]
        /\ log'[Len(log) + 1] = [key |-> k, status |-> "ready", attempts |-> 0]
    BY <1>2, PublishEffect DEF IInv
  <2>2. \A i \in DOMAIN log : log[i] \in Row
    BY LogRows DEF IInv
  <2>3. ~Duplicate(k)
    BY <1>2 DEF publish
  <2>4. \A i \in DOMAIN log \ With("dead") : k # NoKey => log[i].key # k
    BY <2>2, <2>3 DEF Duplicate, With, Row, Status
  <2>5. QED
    BY <2>1, <2>4 DEF KeyedOnce, KeyEnqueuedOnce, With
<1>3. QED
  BY <1>1, <1>2

LEMMA SettleKeyedOnce ==
  ASSUME IInv, KeyedOnce, MarkDone \/ MarkFailed
  PROVE  KeyedOnce'
<1>1. current \in DOMAIN batch /\ current \in DOMAIN log
  BY SettleStep
<1>2. PICK status \in Status, attempts \in Nat : Settles(status, attempts)
  BY SettleStep
<1>3. /\ DOMAIN log' = DOMAIN log
      /\ \A i \in DOMAIN log \ {current} : log'[i] = log[i]
      /\ log'[current] = Marked(log[current], status, attempts)
  BY <1>1, <1>2, SettleEffect DEF Settles, IInv
<1>4. log[current].status = "ready"
  BY <1>1 DEF IInv, SnapshotFresh
<1>5. \A i \in DOMAIN log : log'[i].key = log[i].key
  BY <1>3 DEF Marked
<1>6. DOMAIN log' \ With("dead")' \subseteq DOMAIN log \ With("dead")
  BY <1>3, <1>4 DEF With
<1>7. UNCHANGED replays
  BY DEF MarkDone, MarkFailed
<1>8. QED
  BY <1>3, <1>5, <1>6, <1>7 DEF KeyedOnce, KeyEnqueuedOnce

\* A step of the consumer, or its stop, enqueues nothing.
LEMMA ConsumeKeyedOnce ==
  ASSUME IInv, KeyedOnce, Consume \/ Forget
  PROVE  KeyedOnce'
<1>1. CASE MarkDone \/ MarkFailed
  BY <1>1, SettleKeyedOnce
<1>2. CASE UNCHANGED <<log, replays>>
  BY <1>2 DEF KeyedOnce, KeyEnqueuedOnce, With
<1>3. QED
  BY <1>1, <1>2 DEF Consume, TakeBatch, CallHandler, HandlerReturns, Raised, Forget

\* A client's retries never double-enqueue: until an operator replays, a key
\* has at most one row that waits or was scored, whatever failed and crashed
\* in between.
THEOREM PublishIsIdempotent == Spec => [](replays = 0 => KeyEnqueuedOnce)
<1>1. Init => KeyedOnce
  BY EmptySeq DEF Init, KeyedOnce, KeyEnqueuedOnce
<1>2. ASSUME IInv, KeyedOnce, [Next]_queueVars PROVE KeyedOnce'
  <2>1. CASE Publish
    <3>1. PICK k \in Key \cup {NoKey} : publish(k)
      BY <2>1 DEF Publish
    <3>2. QED
      BY <1>2, <2>1, <3>1, AppendKeyedOnce DEF Publish
  <2>2. CASE Replay
    BY <1>2, <2>2 DEF Replay, KeyedOnce, IInv, TypeOK
  <2>3. CASE Consume \/ Stop
    BY <1>2, <2>3, ConsumeKeyedOnce DEF Stop
  <2>4. CASE UNCHANGED queueVars
    BY <1>2, <2>4 DEF queueVars, KeyedOnce, KeyEnqueuedOnce, With
  <2>5. QED
    BY <1>2, <2>1, <2>2, <2>3, <2>4 DEF Next
<1>3. QED
  BY <1>1, <1>2, Inductive, PTL DEF Spec, KeyedOnce

USE ConnectorAssumption

-----------------------------------------------------------------------------
(* The inductive invariant.  A poll may have passed line numbers of which  *)
(* the transport has nothing: those of lines it read in pieces, and those  *)
(* its count is ahead of the file.  It has read a fragment for each.       *)

PollShape ==
    [running: BOOLEAN, start: Nat, idx: Nat, at: Nat, mid: Nat, fragments: Nat]

Gap(a, b) == {o \in a..b : Outstanding(o)}

SourceInv ==
    /\ source \in Seq(Key \cup {Junk})
    /\ written \in 1..Chunks
    /\ checkpoint \in Nat /\ spent \in Nat
    /\ poll \in [Poller -> PollShape]
    /\ \A p \in Poller : /\ poll[p].at <= Len(source) /\ poll[p].at <= poll[p].idx
                         /\ poll[p].mid < Chunks

CheckpointPaid == Cardinality(Gap(1, checkpoint)) <= spent

StartPaid(p) == Cardinality(Gap(1, poll[p].start)) <= spent

ProgressPaid(p) ==
    Cardinality(Gap(poll[p].start + 1, poll[p].at)) + (poll[p].idx - poll[p].at)
        <= poll[p].fragments

ConnectorInv ==
    /\ IInv
    /\ SourceInv
    /\ CheckpointPaid
    /\ \A p \in Poller : StartPaid(p) /\ ProgressPaid(p)

\* The source is a table indexed by line.
LEMMA SourceRows ==
  ASSUME SourceInv
  PROVE  /\ Len(source) \in Nat /\ DOMAIN source = 1..Len(source)
         /\ \A o \in DOMAIN source : source[o] \in Key \cup {Junk}
BY LenProperties, ElementOfSeq DEF SourceInv

\* The locals of a poll, typed.
LEMMA PollRows ==
  ASSUME SourceInv, NEW p \in Poller
  PROVE  /\ poll[p] \in PollShape
         /\ poll[p].start \in Nat /\ poll[p].idx \in Nat /\ poll[p].at \in Nat
         /\ poll[p].mid \in Nat /\ poll[p].fragments \in Nat
BY DEF SourceInv, PollShape

LEMMA GapIsFinite ==
  ASSUME NEW a \in Int, NEW b \in Int
  PROVE  /\ IsFiniteSet(Gap(a, b)) /\ Cardinality(Gap(a, b)) \in Nat
         /\ a > b => Cardinality(Gap(a, b)) = 0
<1>1. IsFiniteSet(a..b) /\ Gap(a, b) \subseteq a..b
  BY FS_Interval DEF Gap
<1>2. IsFiniteSet(Gap(a, b))
  BY <1>1, FS_Subset
<1>3. a > b => Gap(a, b) = {}
  BY DEF Gap
<1>4. QED
  BY <1>2, <1>3, FS_CardinalityType, FS_EmptySet

\* What was outstanding and is published, or was never there, counts no more.
LEMMA GapShrinks ==
  ASSUME NEW a \in Int, NEW b \in Int, \A o \in a..b : Outstanding(o)' => Outstanding(o)
  PROVE  /\ Cardinality(Gap(a, b))' <= Cardinality(Gap(a, b))
         /\ Cardinality(Gap(a, b))' \in Nat /\ Cardinality(Gap(a, b)) \in Nat
<1>1. Gap(a, b)' \subseteq Gap(a, b)
  BY DEF Gap
<1>2. IsFiniteSet(Gap(a, b)) /\ Cardinality(Gap(a, b)) \in Nat
  BY GapIsFinite
<1>3. /\ IsFiniteSet(Gap(a, b)') /\ Cardinality(Gap(a, b)') <= Cardinality(Gap(a, b))
  BY <1>1, <1>2, FS_Subset
<1>4. QED
  BY <1>2, <1>3, FS_CardinalityType

\* A settled or stopped message keeps its row, and a row keeps its key.
LEMMA QueueKeepsKeys ==
  ASSUME IInv, Replay \/ Consume \/ Forget
  PROVE  DOMAIN log' = DOMAIN log /\ \A i \in DOMAIN log : log'[i].key = log[i].key
<1>1. CASE Replay
  <2>1. PICK which \in {"dead", "done"} : replay(which)
    BY <1>1 DEF Replay
  <2>2. TypeOK
    BY DEF IInv
  <2>3. DOMAIN log' = DOMAIN log
    BY <2>1, <2>2, ReplayEffect
  <2>4. ASSUME NEW i \in DOMAIN log PROVE log'[i].key = log[i].key
    <3>1. log'[i] = Marked(log[i], "ready", 0) \/ log'[i] = log[i]
      BY <2>1, <2>2, ReplayEffect
    <3>2. QED
      BY <3>1 DEF Marked
  <2>5. QED
    BY <2>3, <2>4
<1>2. CASE MarkDone \/ MarkFailed
  <2>1. current \in DOMAIN log
    BY <1>2, SettleStep
  <2>2. PICK status \in Status, attempts \in Nat : Settles(status, attempts)
    BY <1>2, SettleStep
  <2>3. QED
    BY <2>1, <2>2, SettleEffect DEF Settles, Marked, IInv
<1>3. CASE UNCHANGED log
  BY <1>3
<1>4. QED
  BY <1>1, <1>2, <1>3 DEF Consume, TakeBatch, CallHandler, HandlerReturns, Raised, Forget

LEMMA QueueKeepsIInv ==
  ASSUME IInv, Replay \/ Consume \/ Forget
  PROVE  IInv'
BY ReplayIInv, TakeBatchIInv, CallHandlerIInv, OutcomeIInv, SettleIInv, StopIInv DEF Consume

\* What was published stays published.
LEMMA PublishKeepsKeys ==
  ASSUME IInv, NEW k \in Key \cup {NoKey}, publish(k)
  PROVE  DOMAIN log \subseteq DOMAIN log' /\ \A i \in DOMAIN log : log'[i].key = log[i].key
BY PublishEffect DEF IInv

\* Once publish has not refused a key, the transport has it.
LEMMA GivenIsPublished ==
  ASSUME IInv, NEW k \in Key, publish(k), Duplicate(k) \/ ~AtCapacity
  PROVE  Published(k)'
<1>1. CASE Duplicate(k)
  <2>1. log' = log
    BY <1>1 DEF publish
  <2>2. QED
    BY <1>1, <2>1 DEF Duplicate, Published
<1>2. CASE ~Duplicate(k)
  <2>1. log' = Append(log, [key |-> k, status |-> "ready", attempts |-> 0])
    BY <1>2 DEF publish
  <2>2. Len(log) \in Nat /\ log \in Seq(Row)
    BY LogRows DEF IInv, TypeOK
  <2>3. Len(log) + 1 \in DOMAIN log' /\ log'[Len(log) + 1].key = k
    BY <2>1, <2>2
  <2>4. QED
    BY <2>3 DEF Published
<1>3. QED
  BY <1>1, <1>2

-----------------------------------------------------------------------------
(* What a step can do to the queue, to the source and to what is           *)
(* outstanding.                                                            *)

\* A poll's record is junk or a key.
LEMMA RecordRead ==
  ASSUME SourceInv, NEW p \in Poller, MoreToRead(p)
  PROVE  NextRecord(p) \in Key \cup {Junk}
<1>1. poll[p].at + 1 \in DOMAIN source
  BY SourceRows, PollRows DEF MoreToRead, Readable
<1>2. QED
  BY <1>1, SourceRows DEF NextRecord

\* What a poll does to the log is one publish, or nothing.
LEMMA PollPublishes ==
  ASSUME SourceInv, NEW p \in Poller, Poll(p) \/ Abandon(p)
  PROVE  /\ UNCHANGED <<batch, current, phase, attempted, scored, replays>>
         /\ stops' \in {stops, stops + 1}
         /\ \/ UNCHANGED log
            \/ \E k \in Key : publish(k)
<1>1. CASE PollRecord(p)
  <2>1. PICK k \in Key \cup {Junk} : k = NextRecord(p)
    BY <1>1, RecordRead DEF PollRecord
  <2>2. CASE k = Junk
    BY <1>1, <2>1, <2>2 DEF PollRecord, consumerVars
  <2>3. CASE k # Junk
    BY <1>1, <2>1, <2>3 DEF PollRecord, consumerVars
  <2>4. QED
    BY <2>2, <2>3
<1>2. CASE StartPoll(p) \/ SkipLine(p) \/ FinishPoll(p) \/ Abandon(p)
  BY <1>2 DEF StartPoll, SkipLine, FinishPoll, Abandon, queueVars, consumerVars
<1>3. QED
  BY <1>1, <1>2 DEF Poll

\* The invariant of the transport does not mention stops but for its type.
LEMMA IdleIInv ==
  ASSUME IInv, UNCHANGED <<log, batch, current, phase, attempted, scored, replays>>,
         stops' \in {stops, stops + 1}
  PROVE  IInv'
<1>1. stops' \in Nat
  BY DEF IInv, TypeOK
<1>2. QED
  BY <1>1 DEF IInv, TypeOK, SnapshotFresh, RetriesCapped, SettledWasAttempted,
              BatchPassesNothingOver, FirstAttemptsInOrder, InHand, Ready, With

LEMMA PollIInv ==
  ASSUME IInv, SourceInv, NEW p \in Poller, Poll(p) \/ Abandon(p)
  PROVE  IInv'
<1>1. CASE UNCHANGED log
  BY <1>1, PollPublishes, IdleIInv
<1>2. CASE log' # log
  <2>1. PICK k \in Key : publish(k)
    BY <1>2, PollPublishes
  <2>2. PollRecord(p)
    BY <1>2 DEF Poll, StartPoll, SkipLine, FinishPoll, Abandon, queueVars
  <2>3. UNCHANGED <<batch, current, phase, attempted, scored, stops, replays>>
    BY <2>2 DEF PollRecord, consumerVars
  <2>4. QED
    BY <2>1, <2>3, AppendIInv
<1>3. QED
  BY <1>1, <1>2

\* The transport's invariant holds behind the connector.
LEMMA BehindConnectorIInv == ASSUME IInv, SourceInv, [ConnectorNext]_vars PROVE IInv'
<1>1. CASE QueueStep \/ Crash
  BY <1>1, QueueKeepsIInv DEF QueueStep, Stop, Crash
<1>2. CASE WriteRecord \/ WriteOn \/ UNCHANGED vars
  BY <1>2, IdleIInv DEF WriteRecord, WriteOn, vars, queueVars
<1>3. ASSUME NEW p \in Poller, Poll(p) \/ Abandon(p) PROVE IInv'
  BY <1>3, PollIInv
<1>4. QED
  BY <1>1, <1>2, <1>3 DEF ConnectorNext

\* The source is appended to.
LEMMA SourceGrows ==
  ASSUME SourceInv, [ConnectorNext]_vars
  PROVE  /\ source' \in Seq(Key \cup {Junk}) /\ written' \in 1..Chunks
         /\ Len(source) <= Len(source') /\ Len(source') \in Nat /\ Len(source) \in Nat
         /\ \A o \in 1..Len(source) : source'[o] = source[o]
<1>0. /\ source \in Seq(Key \cup {Junk}) /\ written \in 1..Chunks
      /\ Len(source) <= Len(source) /\ Len(source) \in Nat
  BY SourceRows DEF SourceInv
<1>1. CASE WriteRecord
  <2>1. PICK r \in Key \cup {Junk} : source' = Append(source, r)
    BY <1>1 DEF WriteRecord
  <2>2. /\ source' \in Seq(Key \cup {Junk})
        /\ Len(source') = Len(source) + 1
        /\ \A o \in 1..Len(source) : source'[o] = source[o]
    BY <1>0, <2>1, AppendProperties
  <2>3. written' \in 1..Chunks
    BY <1>1 DEF WriteRecord
  <2>4. QED
    BY <1>0, <2>2, <2>3
<1>2. CASE WriteOn
  <2>1. source' = source /\ written' \in 1..Chunks
    BY <1>0, <1>2 DEF WriteOn
  <2>2. QED
    BY <1>0, <2>1, Zenon
<1>3. CASE UNCHANGED <<source, written>>
  BY <1>0, <1>3, Zenon
<1>4. ASSUME NEW p \in Poller, Poll(p) \/ Abandon(p) PROVE UNCHANGED <<source, written>>
  BY <1>4 DEF Poll, StartPoll, SkipLine, PollRecord, FinishPoll, Abandon
<1>5. QED
  BY <1>1, <1>2, <1>3, <1>4
     DEF ConnectorNext, QueueStep, Crash, vars, connectorVars

\* No row of the log is lost or gets another key.
LEMMA KeysAreKept ==
  ASSUME IInv, SourceInv, [ConnectorNext]_vars
  PROVE  DOMAIN log \subseteq DOMAIN log' /\ \A i \in DOMAIN log : log'[i].key = log[i].key
<1>1. CASE QueueStep \/ Crash
  BY <1>1, QueueKeepsKeys DEF QueueStep, Stop, Crash
<1>2. CASE WriteRecord \/ WriteOn \/ UNCHANGED vars
  BY <1>2 DEF WriteRecord, WriteOn, vars, queueVars
<1>3. ASSUME NEW p \in Poller, Poll(p) \/ Abandon(p)
      PROVE  /\ DOMAIN log \subseteq DOMAIN log'
             /\ \A i \in DOMAIN log : log'[i].key = log[i].key
  <2>1. CASE UNCHANGED log
    BY <2>1
  <2>2. CASE \E k \in Key : publish(k)
    BY <2>2, PublishKeepsKeys
  <2>3. QED
    BY <1>3, <2>1, <2>2, PollPublishes
<1>4. QED
  BY <1>1, <1>2, <1>3 DEF ConnectorNext

\* So a line number is outstanding only if it was before.
LEMMA OutstandingShrinks ==
  ASSUME IInv, SourceInv, [ConnectorNext]_vars, NEW o \in Nat, Outstanding(o)'
  PROVE  Outstanding(o)
<1> SUFFICES ASSUME o \in DOMAIN source PROVE source[o] # Junk /\ ~Published(source[o])
  BY DEF Outstanding
<1>1. source'[o] = source[o] /\ o \in DOMAIN source'
  <2>1. o \in 1..Len(source) /\ o \in 1..Len(source')
    BY SourceRows, SourceGrows
  <2>2. DOMAIN source' = 1..Len(source')
    BY SourceGrows, LenProperties
  <2>3. QED
    BY <2>1, <2>2, SourceGrows
<1>2. source[o] # Junk /\ ~Published(source[o])'
  BY <1>1 DEF Outstanding, Published
<1>3. Published(source[o]) => Published(source[o])'
  BY <1>1, KeysAreKept DEF Published
<1>4. QED
  BY <1>2, <1>3

-----------------------------------------------------------------------------
(* The inductive step, one lemma per kind of poll step.                    *)

\* A step that leaves a poll alone or ends it leaves what it passed paid for.
LEMMA OtherPollsPaid ==
  ASSUME ConnectorInv, [ConnectorNext]_vars, NEW q \in Poller, poll'[q] \in {poll[q], NoPoll},
         spent' \in Nat, spent <= spent'
  PROVE  StartPaid(q)' /\ ProgressPaid(q)'
<1>1. IInv /\ SourceInv /\ spent \in Nat
  BY DEF ConnectorInv, SourceInv
<1>2. CASE poll'[q] = NoPoll
  <2>1. /\ poll'[q].start = 0 /\ poll'[q].idx = 0 /\ poll'[q].at = 0
        /\ poll'[q].fragments = 0
    BY <1>2 DEF NoPoll
  <2>2. Gap(1, 0)' = {}
    BY DEF Gap
  <2>3. Cardinality(Gap(1, 0)') = 0
    BY <2>2, FS_EmptySet
  <2>4. QED
    BY <2>1, <2>3 DEF StartPaid, ProgressPaid
<1>3. CASE poll'[q] = poll[q]
  <2>1. PICK s \in Nat, i \in Nat, a \in Nat, f \in Nat :
           s = poll[q].start /\ i = poll[q].idx /\ a = poll[q].at /\ f = poll[q].fragments
    BY <1>1, PollRows
  <2>2. \A o \in Nat : Outstanding(o)' => Outstanding(o)
    BY <1>1, OutstandingShrinks
  <2>3. /\ Cardinality(Gap(1, s))' <= Cardinality(Gap(1, s))
        /\ Cardinality(Gap(1, s))' \in Nat /\ Cardinality(Gap(1, s)) \in Nat
    BY <2>2, GapShrinks
  <2>4. /\ Cardinality(Gap(s + 1, a))' <= Cardinality(Gap(s + 1, a))
        /\ Cardinality(Gap(s + 1, a))' \in Nat /\ Cardinality(Gap(s + 1, a)) \in Nat
    BY <2>2, GapShrinks
  <2>5. Cardinality(Gap(1, s)) <= spent /\ Cardinality(Gap(s + 1, a)) + (i - a) <= f
    BY <2>1 DEF ConnectorInv, StartPaid, ProgressPaid
  <2>6. /\ Cardinality(Gap(1, s))' <= spent'
        /\ Cardinality(Gap(s + 1, a))' + (i - a) <= f
    BY <1>1, <2>3, <2>4, <2>5
  <2>7. QED
    BY <1>3, <2>1, <2>6 DEF StartPaid, ProgressPaid
<1>4. QED
  BY <1>2, <1>3

LEMMA CheckpointStaysPaid ==
  ASSUME ConnectorInv, [ConnectorNext]_vars, UNCHANGED checkpoint, spent' \in Nat,
         spent <= spent'
  PROVE  CheckpointPaid'
<1>1. IInv /\ SourceInv /\ spent \in Nat
  BY DEF ConnectorInv, SourceInv
<1>2. PICK c \in Nat : c = checkpoint
  BY <1>1 DEF SourceInv
<1>3. /\ Cardinality(Gap(1, c))' <= Cardinality(Gap(1, c))
      /\ Cardinality(Gap(1, c))' \in Nat /\ Cardinality(Gap(1, c)) \in Nat
  BY <1>1, OutstandingShrinks, GapShrinks
<1>4. Cardinality(Gap(1, c)) <= spent
  BY <1>2 DEF ConnectorInv, CheckpointPaid
<1>5. Cardinality(Gap(1, c))' <= spent'
  BY <1>1, <1>3, <1>4
<1>6. QED
  BY <1>2, <1>5 DEF CheckpointPaid

LEMMA ConnectorStarts == ConnectorInit => ConnectorInv
<1> SUFFICES ASSUME ConnectorInit PROVE ConnectorInv
  OBVIOUS
<1>1. IInv
  BY InitIInv DEF ConnectorInit
<1>2. /\ source \in Seq(Key \cup {Junk}) /\ Len(source) = 0 /\ checkpoint = 0
      /\ written = Chunks /\ spent = 0
  BY EmptySeq DEF ConnectorInit
<1>3. NoPoll \in PollShape
  BY DEF NoPoll, PollShape
<1>4. poll \in [Poller -> PollShape] /\ \A p \in Poller : poll[p] = NoPoll
  BY <1>3 DEF ConnectorInit
<1>5. SourceInv
  <2>1. written \in 1..Chunks /\ checkpoint \in Nat /\ spent \in Nat
    BY <1>2
  <2>2. \A p \in Poller : poll[p].at <= Len(source) /\ poll[p].at <= poll[p].idx
                          /\ poll[p].mid < Chunks
    BY <1>2, <1>4 DEF NoPoll
  <2>3. QED
    BY <1>2, <1>4, <2>1, <2>2, Zenon DEF SourceInv
<1>6. Cardinality(Gap(1, 0)) = 0
  BY GapIsFinite
<1>7. CheckpointPaid
  BY <1>2, <1>6 DEF CheckpointPaid
<1>8. \A p \in Poller : StartPaid(p) /\ ProgressPaid(p)
  BY <1>2, <1>4, <1>6 DEF StartPaid, ProgressPaid, NoPoll
<1>9. QED
  BY <1>1, <1>5, <1>7, <1>8 DEF ConnectorInv

\* Steps of the queue, of the writer and of the process touch no poll but to
\* end it.
LEMMA OtherStepsInv ==
  ASSUME ConnectorInv,
         QueueStep \/ WriteRecord \/ WriteOn \/ Crash \/ UNCHANGED vars
  PROVE  ConnectorInv'
<1>1. [ConnectorNext]_vars /\ IInv /\ SourceInv
  BY DEF ConnectorNext, ConnectorInv
<1>2. /\ UNCHANGED <<checkpoint, spent>>
      /\ poll' = poll \/ poll' = [p \in Poller |-> NoPoll]
  BY DEF QueueStep, WriteRecord, WriteOn, Crash, vars, connectorVars
<1>3. \A q \in Poller : poll'[q] \in {poll[q], NoPoll}
  BY <1>2
<1>4. spent' \in Nat /\ spent <= spent'
  BY <1>1, <1>2 DEF SourceInv
<1>5. IInv'
  BY <1>1, BehindConnectorIInv
<1>6. SourceInv'
  <2>1. poll' \in [Poller -> PollShape]
    <3>1. NoPoll \in PollShape
      BY DEF NoPoll, PollShape
    <3>2. QED
      BY <1>1, <1>2, <3>1 DEF SourceInv
  <2>2. ASSUME NEW q \in Poller
        PROVE  poll'[q].at <= Len(source') /\ poll'[q].at <= poll'[q].idx
               /\ poll'[q].mid < Chunks
    <3>1. CASE poll'[q] = NoPoll
      BY <1>1, <3>1, SourceGrows DEF NoPoll
    <3>2. CASE poll'[q] = poll[q]
      BY <1>1, <3>2, SourceGrows, PollRows DEF SourceInv
    <3>3. QED
      BY <1>3, <3>1, <3>2
  <2>3. checkpoint' \in Nat
    BY <1>1, <1>2 DEF SourceInv
  <2>4. source' \in Seq(Key \cup {Junk}) /\ written' \in 1..Chunks
    BY <1>1, SourceGrows
  <2>5. QED
    BY <1>4, <2>1, <2>2, <2>3, <2>4, Zenon DEF SourceInv
<1>7. QED
  BY <1>1, <1>2, <1>3, <1>4, <1>5, <1>6, OtherPollsPaid, CheckpointStaysPaid DEF ConnectorInv

\* A poll that starts, or moves the checkpoint, starts from numbers paid for.
LEMMA GapSplit ==
  ASSUME NEW s \in Nat, NEW a \in Nat, NEW i \in Nat, a <= i
  PROVE  Cardinality(Gap(1, i))
            <= Cardinality(Gap(1, s)) + Cardinality(Gap(s + 1, a)) + (i - a)
<1> DEFINE A == Gap(1, s)
           B == Gap(s + 1, a)
           C == (a + 1)..i
<1>1. /\ IsFiniteSet(A) /\ Cardinality(A) \in Nat
      /\ IsFiniteSet(B) /\ Cardinality(B) \in Nat
  BY GapIsFinite
<1>2. IsFiniteSet(C) /\ Cardinality(C) = i - a
  <2>1. a + 1 \in Int /\ i \in Int
    OBVIOUS
  <2>2. IsFiniteSet((a + 1)..i)
        /\ Cardinality((a + 1)..i) = IF a + 1 > i THEN 0 ELSE i - (a + 1) + 1
    BY <2>1, FS_Interval
  <2>3. QED
    BY <2>2
<1>3. Gap(1, i) \subseteq (A \cup B) \cup C
  BY DEF Gap
<1> HIDE DEF A, B, C
<1>4. /\ IsFiniteSet(A \cup B) /\ Cardinality(A \cup B) \in Nat
      /\ Cardinality(A \cup B) <= Cardinality(A) + Cardinality(B)
  <2>1. IsFiniteSet(A \cap B) /\ Cardinality(A \cap B) \in Nat
    BY <1>1, FS_Subset, FS_CardinalityType
  <2>2. /\ IsFiniteSet(A \cup B)
        /\ Cardinality(A \cup B) = Cardinality(A) + Cardinality(B) - Cardinality(A \cap B)
    BY <1>1, FS_Union
  <2>3. QED
    BY <1>1, <2>1, <2>2, FS_CardinalityType
<1>5. /\ IsFiniteSet((A \cup B) \cup C)
      /\ Cardinality((A \cup B) \cup C) <= Cardinality(A \cup B) + (i - a)
  <2>1. IsFiniteSet((A \cup B) \cap C) /\ Cardinality((A \cup B) \cap C) \in Nat
    BY <1>4, FS_Subset, FS_CardinalityType
  <2>2. /\ IsFiniteSet((A \cup B) \cup C)
        /\ Cardinality((A \cup B) \cup C)
              = Cardinality(A \cup B) + Cardinality(C) - Cardinality((A \cup B) \cap C)
    BY <1>2, <1>4, FS_Union
  <2>3. QED
    BY <1>2, <1>4, <2>1, <2>2
<1>6. /\ Cardinality(Gap(1, i)) <= Cardinality((A \cup B) \cup C)
      /\ Cardinality(Gap(1, i)) \in Nat /\ Cardinality((A \cup B) \cup C) \in Nat
  BY <1>3, <1>5, FS_Subset, FS_CardinalityType
<1>7. Cardinality(Gap(1, i)) <= Cardinality(A) + Cardinality(B) + (i - a)
  BY <1>1, <1>4, <1>5, <1>6
<1>8. QED
  BY <1>7 DEF A, B

\* Starting, finishing and abandoning a poll touch neither log nor source.
LEMMA PollEndsInv ==
  ASSUME ConnectorInv, NEW p \in Poller, StartPoll(p) \/ FinishPoll(p) \/ Abandon(p)
  PROVE  ConnectorInv'
<1>1. [ConnectorNext]_vars /\ IInv /\ SourceInv
  BY DEF ConnectorNext, Poll, ConnectorInv
<1>2. PICK s \in Nat, i \in Nat, a \in Nat, f \in Nat, c \in Nat, t \in Nat :
         /\ s = poll[p].start /\ i = poll[p].idx /\ a = poll[p].at /\ f = poll[p].fragments
         /\ c = checkpoint /\ t = spent /\ a <= i
  BY <1>1, PollRows DEF SourceInv
<1> DEFINE fresh == [running |-> TRUE, start |-> checkpoint, idx |-> 0, at |-> 0, mid |-> 0,
                     fragments |-> 0]
<1>3. fresh \in PollShape /\ NoPoll \in PollShape
  BY <1>1 DEF NoPoll, PollShape, SourceInv
<1>4. /\ \/ UNCHANGED <<checkpoint, spent>>
         \/ checkpoint' = i /\ spent' = t + f
      /\ \/ poll' = [poll EXCEPT ![p] = NoPoll]
         \/ poll' = [poll EXCEPT ![p] = fresh] /\ UNCHANGED <<checkpoint, spent>>
      /\ UNCHANGED <<source, written>>
  <2>1. CASE StartPoll(p)
    BY <2>1 DEF StartPoll
  <2>2. CASE FinishPoll(p)
    BY <1>2, <2>2 DEF FinishPoll, LastOffset
  <2>3. CASE Abandon(p)
    BY <2>3 DEF Abandon
  <2>4. QED
    BY <2>1, <2>2, <2>3
<1>5. /\ poll' \in [Poller -> PollShape]
      /\ \A q \in Poller \ {p} : poll'[q] = poll[q]
      /\ \/ poll'[p] = NoPoll
         \/ poll'[p] = fresh /\ UNCHANGED <<checkpoint, spent>>
  <2>1. poll \in [Poller -> PollShape]
    BY <1>1 DEF SourceInv
  <2> HIDE DEF fresh
  <2>2. QED
    BY <1>3, <1>4, <2>1
<1>6. spent' \in Nat /\ spent <= spent' /\ checkpoint' \in Nat
  BY <1>2, <1>4
<1>7. SourceInv'
  <2>1. ASSUME NEW q \in Poller
        PROVE  poll'[q].at <= Len(source') /\ poll'[q].at <= poll'[q].idx
               /\ poll'[q].mid < Chunks
    <3>1. CASE q # p
      BY <1>1, <1>4, <1>5, <3>1 DEF SourceInv
    <3>2. CASE q = p
      BY <1>1, <1>4, <1>5, <3>2, SourceRows DEF NoPoll
    <3>3. QED
      BY <3>1, <3>2
  <2>2. source' \in Seq(Key \cup {Junk}) /\ written' \in 1..Chunks
    BY <1>1, SourceGrows
  <2>3. QED
    BY <1>5, <1>6, <2>1, <2>2, Zenon DEF SourceInv
<1>8. CheckpointPaid'
  <2>1. CASE UNCHANGED checkpoint
    BY <1>1, <1>6, <2>1, CheckpointStaysPaid
  <2>2. CASE checkpoint' = i /\ spent' = t + f
    <3>1. /\ Cardinality(Gap(1, i)) <= Cardinality(Gap(1, s)) + Cardinality(Gap(s + 1, a)) + (i - a)
          /\ Cardinality(Gap(1, s)) \in Nat /\ Cardinality(Gap(s + 1, a)) \in Nat
      <4>1. 1 \in Int /\ s \in Int /\ s + 1 \in Int /\ a \in Int
        OBVIOUS
      <4>2. Cardinality(Gap(1, s)) \in Nat /\ Cardinality(Gap(s + 1, a)) \in Nat
        BY <4>1, GapIsFinite
      <4>3. QED
        BY <1>2, <4>2, GapSplit
    <3>2. Cardinality(Gap(1, s)) <= t /\ Cardinality(Gap(s + 1, a)) + (i - a) <= f
      BY <1>2 DEF ConnectorInv, StartPaid, ProgressPaid
    <3>3. /\ Cardinality(Gap(1, i))' <= Cardinality(Gap(1, i))
          /\ Cardinality(Gap(1, i))' \in Nat /\ Cardinality(Gap(1, i)) \in Nat
      BY <1>1, OutstandingShrinks, GapShrinks
    <3>4. Cardinality(Gap(1, i))' <= t + f
      BY <1>2, <3>1, <3>2, <3>3
    <3>5. QED
      BY <2>2, <3>4 DEF CheckpointPaid
  <2>3. QED
    BY <1>4, <2>1, <2>2
<1>9. \A q \in Poller : StartPaid(q)' /\ ProgressPaid(q)'
  <2>1. ASSUME NEW q \in Poller, poll'[q] \in {poll[q], NoPoll}
        PROVE  StartPaid(q)' /\ ProgressPaid(q)'
    BY <1>1, <1>6, <2>1, OtherPollsPaid
  <2>2. CASE poll'[p] = fresh /\ UNCHANGED <<checkpoint, spent>>
    <3>1. /\ poll'[p].start = c /\ poll'[p].idx = 0 /\ poll'[p].at = 0
          /\ poll'[p].fragments = 0
      BY <1>2, <2>2
    <3>2. Cardinality(Gap(1, c))' <= spent'
      BY <1>2, <1>8, <2>2 DEF CheckpointPaid
    <3>3. Gap(c + 1, 0)' = {}
      BY DEF Gap
    <3>4. Cardinality(Gap(c + 1, 0)') = 0
      BY <3>3, FS_EmptySet
    <3>5. StartPaid(p)' /\ ProgressPaid(p)'
      BY <3>1, <3>2, <3>4 DEF StartPaid, ProgressPaid
    <3>6. QED
      BY <1>5, <2>1, <3>5
  <2>3. QED
    BY <1>5, <2>1, <2>2
<1>10. IInv'
  BY <1>1, BehindConnectorIInv
<1>11. QED
  BY <1>7, <1>8, <1>9, <1>10 DEF ConnectorInv

\* One line more, in the next state: outstanding or not.
LEMMA GapOneMore ==
  ASSUME NEW a \in Int, NEW b \in Int
  PROVE  /\ Cardinality(Gap(a, b + 1))' \in Nat /\ Cardinality(Gap(a, b))' \in Nat
         /\ Cardinality(Gap(a, b + 1))' <= Cardinality(Gap(a, b))' + 1
         /\ ~Outstanding(b + 1)' => Cardinality(Gap(a, b + 1))' <= Cardinality(Gap(a, b))'
<1>1. IsFiniteSet(a..b) /\ Gap(a, b)' \subseteq a..b
  BY FS_Interval DEF Gap
<1>2. IsFiniteSet(Gap(a, b)') /\ Cardinality(Gap(a, b)') \in Nat
  BY <1>1, FS_Subset, FS_CardinalityType
<1>3. /\ IsFiniteSet(Gap(a, b)' \cup {b + 1})
      /\ Cardinality(Gap(a, b)' \cup {b + 1}) <= Cardinality(Gap(a, b)') + 1
      /\ Cardinality(Gap(a, b)' \cup {b + 1}) \in Nat
  BY <1>2, FS_AddElement
<1>4. /\ Gap(a, b + 1)' \subseteq Gap(a, b)' \cup {b + 1}
      /\ ~Outstanding(b + 1)' => Gap(a, b + 1)' \subseteq Gap(a, b)'
  BY DEF Gap
<1>5. IsFiniteSet(Gap(a, b + 1)')
      /\ Cardinality(Gap(a, b + 1)') <= Cardinality(Gap(a, b)' \cup {b + 1})
  BY <1>3, <1>4, FS_Subset
<1>6. Cardinality(Gap(a, b + 1)') \in Nat
  BY <1>5, FS_CardinalityType
<1>7. ~Outstanding(b + 1)' => Cardinality(Gap(a, b + 1)') <= Cardinality(Gap(a, b)')
  BY <1>2, <1>4, FS_Subset
<1>8. QED
  BY <1>2, <1>3, <1>5, <1>6, <1>7

\* A record read whole is junk, or the transport has it now.
LEMMA WholeRecordIsGiven ==
  ASSUME IInv, SourceInv, NEW p \in Poller, PollRecord(p), poll[p].mid = 0,
         NEW o \in Nat, o = poll[p].at + 1, Written(o) = Chunks
  PROVE  ~Outstanding(o)'
<1>2. o \in DOMAIN source /\ source' = source
  BY SourceRows, PollRows DEF PollRecord, MoreToRead, Readable
<1>3. PICK k \in Key \cup {Junk} : k = source[o]
  BY <1>2, SourceRows
<1>4. NextRecord(p) = k
  BY <1>3 DEF NextRecord
<1>5. k # Junk => publish(k) /\ (Duplicate(k) \/ ~AtCapacity)
  BY <1>4 DEF PollRecord, Refused
<1>6. k # Junk => Published(k)'
  BY <1>5, GivenIsPublished
<1>7. CASE k = Junk
  BY <1>2, <1>3, <1>7 DEF Outstanding
<1>8. CASE Published(k)'
  BY <1>2, <1>3, <1>8 DEF Outstanding, Published
<1>9. QED
  BY <1>6, <1>7, <1>8

\* A poll that reads on pays for what it passes: a line read whole costs
\* nothing, for it is published or was passed before; a fragment costs one.
LEMMA LineReadInv ==
  ASSUME ConnectorInv, NEW p \in Poller, SkipLine(p) \/ PollRecord(p)
  PROVE  ConnectorInv'
<1>1. [ConnectorNext]_vars /\ IInv /\ SourceInv
  BY DEF ConnectorNext, Poll, ConnectorInv
<1>2. PICK s \in Nat, i \in Nat, a \in Nat, m \in Nat, f \in Nat :
         /\ s = poll[p].start /\ i = poll[p].idx /\ a = poll[p].at /\ m = poll[p].mid
         /\ f = poll[p].fragments /\ a <= i
  BY <1>1, PollRows DEF SourceInv
<1>3. PICK w \in 1..Chunks : w = Written(a + 1)
  BY <1>1 DEF Written, SourceInv
<1>4. /\ UNCHANGED <<source, written, checkpoint, spent>>
      /\ poll' = [poll EXCEPT ![p] = Onward(poll[p], w)]
      /\ a + 1 <= Len(source)
      /\ SkipLine(p) => i < s
  <2>1. ReadLine(p) /\ Readable(p)
    BY DEF SkipLine, PollRecord, Skipping, MoreToRead
  <2>2. a + 1 <= Len(source)
    BY <1>1, <1>2, <2>1, SourceRows DEF Readable
  <2>3. QED
    BY <1>2, <1>3, <2>1, <2>2 DEF SkipLine, PollRecord, Skipping, ReadLine
<1> DEFINE a1 == IF w = Chunks THEN a + 1 ELSE a
           m1 == IF w = Chunks THEN 0 ELSE w
           f1 == f + (IF m = 0 /\ w = Chunks THEN 0 ELSE 1)
           read == [running |-> poll[p].running, start |-> s, idx |-> i + 1, at |-> a1,
                    mid |-> m1, fragments |-> f1]
<1>5. Onward(poll[p], w) = read
  BY <1>2 DEF Onward
<1>6. /\ read \in PollShape /\ a1 \in Nat /\ m1 < Chunks /\ a1 <= i + 1 /\ a1 <= Len(source)
  <2>1. poll[p].running \in BOOLEAN
    BY <1>1, PollRows DEF PollShape
  <2>2. a1 \in Nat /\ m1 \in Nat /\ f1 \in Nat /\ i + 1 \in Nat
    OBVIOUS
  <2>3. read \in PollShape
    <3> HIDE DEF a1, m1, f1
    <3>1. QED
      BY <2>1, <2>2 DEF PollShape
  <2>4. m1 < Chunks /\ a1 <= i + 1 /\ a1 <= Len(source)
    BY <1>1, <1>2, <1>4, SourceRows
  <2>5. QED
    BY <2>2, <2>3, <2>4
<1>7. /\ poll' \in [Poller -> PollShape]
      /\ \A q \in Poller \ {p} : poll'[q] = poll[q]
      /\ poll'[p] = read
  <2>1. poll \in [Poller -> PollShape]
    BY <1>1 DEF SourceInv
  <2> HIDE DEF read
  <2>2. QED
    BY <1>4, <1>5, <1>6, <2>1
<1>8. spent' \in Nat /\ spent <= spent' /\ checkpoint' \in Nat
  BY <1>1, <1>4 DEF SourceInv
<1>9. SourceInv'
  <2>1. ASSUME NEW q \in Poller
        PROVE  poll'[q].at <= Len(source') /\ poll'[q].at <= poll'[q].idx
               /\ poll'[q].mid < Chunks
    <3>1. CASE q # p
      BY <1>1, <1>4, <1>7, <3>1 DEF SourceInv
    <3>2. CASE q = p
      <4> HIDE DEF a1, m1, f1
      <4>1. QED
        BY <1>4, <1>6, <1>7, <3>2
    <3>3. QED
      BY <3>1, <3>2
  <2>2. source' \in Seq(Key \cup {Junk}) /\ written' \in 1..Chunks
    BY <1>1, SourceGrows
  <2>3. QED
    BY <1>7, <1>8, <2>1, <2>2, Zenon DEF SourceInv
<1>10. CheckpointPaid'
  BY <1>1, <1>4, <1>8, CheckpointStaysPaid
<1>11. StartPaid(p)' /\ ProgressPaid(p)'
  <2>1. /\ poll'[p].start = s /\ poll'[p].idx = i + 1 /\ poll'[p].at = a1
        /\ poll'[p].fragments = f1
    BY <1>7
  <2>2. /\ Cardinality(Gap(1, s))' <= Cardinality(Gap(1, s))
        /\ Cardinality(Gap(1, s))' \in Nat /\ Cardinality(Gap(1, s)) \in Nat
    BY <1>1, OutstandingShrinks, GapShrinks
  <2>3. /\ Cardinality(Gap(s + 1, a))' <= Cardinality(Gap(s + 1, a))
        /\ Cardinality(Gap(s + 1, a))' \in Nat /\ Cardinality(Gap(s + 1, a)) \in Nat
    BY <1>1, OutstandingShrinks, GapShrinks
  <2>4. /\ Cardinality(Gap(1, s)) <= spent
        /\ Cardinality(Gap(s + 1, a)) + (i - a) <= f
    BY <1>2 DEF ConnectorInv, StartPaid, ProgressPaid
  <2>5. StartPaid(p)'
    <3>1. Cardinality(Gap(1, s))' <= spent'
      BY <1>4, <1>8, <2>2, <2>4
    <3>2. QED
      BY <2>1, <3>1 DEF StartPaid
  <2>6. /\ Cardinality(Gap(s + 1, a + 1))' \in Nat
        /\ Cardinality(Gap(s + 1, a + 1))' <= Cardinality(Gap(s + 1, a))' + 1
        /\ ~Outstanding(a + 1)'
              => Cardinality(Gap(s + 1, a + 1))' <= Cardinality(Gap(s + 1, a))'
    BY GapOneMore
  <2>7. Cardinality(Gap(s + 1, a1))' + ((i + 1) - a1) <= f1
    <3>1. CASE w # Chunks
      <4>1. a1 = a /\ f1 = f + 1
        BY <3>1
      <4>2. Cardinality(Gap(s + 1, a))' + ((i + 1) - a) <= f + 1
        BY <2>3, <2>4
      <4>3. QED
        BY <4>1, <4>2
    <3>2. CASE w = Chunks /\ m # 0
      <4>1. a1 = a + 1 /\ f1 = f + 1
        BY <3>2
      <4>2. Cardinality(Gap(s + 1, a + 1))' + ((i + 1) - (a + 1)) <= f + 1
        BY <2>3, <2>4, <2>6
      <4>3. QED
        BY <4>1, <4>2
    <3>3. CASE w = Chunks /\ m = 0
      <4>1. a1 = a + 1 /\ f1 = f
        BY <3>3
      <4>2. CASE SkipLine(p)
        <5>1. a + 1 <= s
          BY <1>2, <1>4, <4>2
        <5>2. Gap(s + 1, a + 1)' = {}
          BY <5>1 DEF Gap
        <5>3. Cardinality(Gap(s + 1, a + 1)') = 0
          BY <5>2, FS_EmptySet
        <5>4. Cardinality(Gap(s + 1, a + 1))' + ((i + 1) - (a + 1)) <= f
          BY <2>3, <2>4, <5>3
        <5>5. QED
          BY <4>1, <5>4
      <4>3. CASE PollRecord(p)
        <5>1. a + 1 \in Nat /\ a + 1 = poll[p].at + 1 /\ poll[p].mid = 0
          BY <1>2, <3>3
        <5>2. ~Outstanding(a + 1)'
          BY <1>1, <1>3, <3>3, <4>3, <5>1, WholeRecordIsGiven
        <5>3. Cardinality(Gap(s + 1, a + 1))' + ((i + 1) - (a + 1)) <= f
          BY <2>3, <2>4, <2>6, <5>2
        <5>4. QED
          BY <4>1, <5>3
      <4>4. QED
        BY <4>2, <4>3
    <3>4. QED
      BY <3>1, <3>2, <3>3
  <2> HIDE DEF a1, f1
  <2>8. QED
    BY <2>1, <2>5, <2>7 DEF ProgressPaid
<1>12. \A q \in Poller \ {p} : StartPaid(q)' /\ ProgressPaid(q)'
  BY <1>1, <1>7, <1>8, OtherPollsPaid
<1>13. IInv'
  BY <1>1, BehindConnectorIInv
<1>14. QED
  BY <1>9, <1>10, <1>11, <1>12, <1>13 DEF ConnectorInv

LEMMA ConnectorStep == ConnectorInv /\ [ConnectorNext]_vars => ConnectorInv'
BY OtherStepsInv, PollEndsInv, LineReadInv DEF ConnectorNext, Poll

-----------------------------------------------------------------------------
(* The theorems.                                                           *)

\* The invariant holds in every reachable state of transport and connector.
THEOREM ConnectorInductive == ConnectorSpec => []ConnectorInv
<1>1. ConnectorInit => ConnectorInv
  BY ConnectorStarts
<1>2. ConnectorInv /\ [ConnectorNext]_vars => ConnectorInv'
  BY ConnectorStep
<1>3. QED
  BY <1>1, <1>2, PTL DEF ConnectorSpec

\* Every variable of the connector and of the transport behind it keeps its
\* range: no poll has read more lines than the source has.
THEOREM ConnectorTyped == ConnectorSpec => []ConnectorTypeOK
<1>1. ConnectorInv => ConnectorTypeOK
  BY DEF ConnectorInv, SourceInv, PollShape, IInv, ConnectorTypeOK
<1>2. QED
  BY <1>1, ConnectorInductive, PTL

\* The checkpoint has passed at most as many line numbers the transport was not
\* given as polls have read fragments of unfinished lines, for any number of
\* overlapping polls, crashes and refusals and any way of writing lines.
THEOREM FragmentsPayForLoss == ConnectorSpec => []LossIsBounded
<1>1. ConnectorInv => LossIsBounded
  BY DEF ConnectorInv, CheckpointPaid, Gap, LossIsBounded, PassedOver
<1>2. QED
  BY <1>1, ConnectorInductive, PTL

-----------------------------------------------------------------------------
(* A source that is written in whole lines loses nothing.                  *)

NoFragments == spent = 0 /\ \A p \in Poller : poll[p].fragments = 0

LEMMA NoFragmentsStep ==
  ASSUME Chunks = 1, ConnectorInv, NoFragments, [ConnectorNext]_vars
  PROVE  NoFragments'
<1>1. SourceInv /\ poll \in [Poller -> PollShape]
  BY DEF ConnectorInv, SourceInv
<1>2. NoPoll.fragments = 0
  BY DEF NoPoll
<1>3. CASE QueueStep \/ WriteRecord \/ WriteOn \/ Crash \/ UNCHANGED vars
  <2>1. UNCHANGED spent /\ (poll' = poll \/ poll' = [p \in Poller |-> NoPoll])
    BY <1>3 DEF QueueStep, WriteRecord, WriteOn, Crash, vars, connectorVars
  <2>2. QED
    BY <1>2, <2>1 DEF NoFragments
<1>4. ASSUME NEW p \in Poller, Poll(p) \/ Abandon(p) PROVE NoFragments'
  <2>1. CASE SkipLine(p) \/ PollRecord(p)
    <3>1. UNCHANGED spent /\ poll' = [poll EXCEPT ![p] = Onward(@, Written(@.at + 1))]
      BY <2>1 DEF SkipLine, PollRecord, ReadLine
    <3>2. Written(poll[p].at + 1) = 1 /\ poll[p].mid = 0
      BY <1>1, PollRows DEF SourceInv, Written
    <3>3. Onward(poll[p], Written(poll[p].at + 1)).fragments = 0
      BY <3>2 DEF Onward, NoFragments
    <3>4. QED
      BY <1>1, <3>1, <3>3 DEF NoFragments
  <2>2. CASE StartPoll(p)
    BY <1>1, <2>2 DEF StartPoll, NoFragments
  <2>3. CASE FinishPoll(p) \/ Abandon(p)
    <3>1. spent' = 0
      BY <2>3 DEF FinishPoll, Abandon, NoFragments
    <3>2. poll' = [poll EXCEPT ![p] = NoPoll]
      BY <2>3 DEF FinishPoll, Abandon
    <3>3. QED
      BY <1>1, <1>2, <3>1, <3>2 DEF NoFragments
  <2>4. QED
    BY <1>4, <2>1, <2>2, <2>3 DEF Poll
<1>5. QED
  BY <1>3, <1>4 DEF ConnectorNext

\* "Not lose the tail", as connectors.py states it: behind a source that
\* appends whole lines, every record the checkpoint has passed was published.
THEOREM TailIsNotLost == Chunks = 1 /\ ConnectorSpec => []TailNotLost
<1> SUFFICES ASSUME Chunks = 1 PROVE ConnectorSpec => []TailNotLost
  OBVIOUS
<1>1. ConnectorInit => NoFragments
  BY DEF ConnectorInit, NoFragments, NoPoll
<1>2. ConnectorInv /\ NoFragments /\ [ConnectorNext]_vars => NoFragments'
  BY NoFragmentsStep
<1>3. ConnectorInv /\ NoFragments => TailNotLost
  <2> SUFFICES ASSUME ConnectorInv, NoFragments PROVE TailNotLost
    OBVIOUS
  <2>1. PICK c \in Nat : c = checkpoint
    BY DEF ConnectorInv, SourceInv
  <2>2. IsFiniteSet(Gap(1, c)) /\ Cardinality(Gap(1, c)) \in Nat /\ Cardinality(Gap(1, c)) <= 0
    BY <2>1, GapIsFinite DEF ConnectorInv, CheckpointPaid, NoFragments
  <2>3. Gap(1, c) = {}
    BY <2>2, FS_EmptySet
  <2>4. QED
    BY <2>1, <2>3 DEF Gap, Outstanding, TailNotLost
<1>4. QED
  BY <1>1, <1>2, <1>3, ConnectorInductive, PTL DEF ConnectorSpec

-----------------------------------------------------------------------------
(* Publishing is idempotent behind the connector too.                      *)

LEMMA PollKeyedOnce ==
  ASSUME ConnectorInv, KeyedOnce, NEW p \in Poller, Poll(p) \/ Abandon(p)
  PROVE  KeyedOnce'
<1>1. SourceInv /\ IInv
  BY DEF ConnectorInv
<1>2. UNCHANGED replays
  BY <1>1, PollPublishes
<1>3. CASE UNCHANGED log
  BY <1>2, <1>3 DEF KeyedOnce, KeyEnqueuedOnce, With
<1>4. CASE \E k \in Key : publish(k)
  BY <1>1, <1>2, <1>4, AppendKeyedOnce
<1>5. QED
  BY <1>1, <1>3, <1>4, PollPublishes

\* Records read twice, by overlapping polls or after a crash, are enqueued
\* once, until an operator replays.
THEOREM RereadIsIdempotent == ConnectorSpec => [](replays = 0 => KeyEnqueuedOnce)
<1>1. ConnectorInit => KeyedOnce
  BY EmptySeq DEF ConnectorInit, Init, KeyedOnce, KeyEnqueuedOnce
<1>2. ASSUME ConnectorInv, KeyedOnce, [ConnectorNext]_vars PROVE KeyedOnce'
  <2>1. CASE QueueStep
    <3>1. CASE Replay
      BY <1>2, <3>1 DEF Replay, KeyedOnce, ConnectorInv, IInv, TypeOK
    <3>2. CASE Consume \/ Stop
      BY <1>2, <3>2, ConsumeKeyedOnce DEF Stop, ConnectorInv
    <3>3. QED
      BY <2>1, <3>1, <3>2 DEF QueueStep
  <2>2. CASE Crash
    BY <1>2, <2>2, ConsumeKeyedOnce DEF Crash, ConnectorInv
  <2>3. ASSUME NEW p \in Poller, Poll(p) \/ Abandon(p) PROVE KeyedOnce'
    BY <1>2, <2>3, PollKeyedOnce
  <2>4. CASE WriteRecord \/ WriteOn \/ UNCHANGED vars
    BY <1>2, <2>4 DEF WriteRecord, WriteOn, vars, queueVars, KeyedOnce,
                      KeyEnqueuedOnce, With
  <2>5. QED
    BY <1>2, <2>1, <2>2, <2>3, <2>4 DEF ConnectorNext
<1>3. QED
  BY <1>1, <1>2, ConnectorInductive, PTL DEF ConnectorSpec, KeyedOnce

-----------------------------------------------------------------------------
(* The promise behind the connector.  Here nothing bounds the log: a poll  *)
(* publishes as long as there is source to read.                           *)

Delivery == INSTANCE DeliveryLog WITH
    Message <- Nat \ {0}, accepted <- DOMAIN log, owed <- Ready, dead <- With("dead")

\* A step of transport and connector is one of these, as the log sees it.
LEMMA ConnectorStepKinds ==
  ASSUME ConnectorInv, [ConnectorNext]_vars
  PROVE  \/ Replay \/ HandlerReturns \/ MarkDone \/ MarkFailed
         \/ UNCHANGED <<log, scored, replays>>
         \/ /\ UNCHANGED <<scored, replays>>
            /\ log' # log
            /\ \E k \in Key : publish(k)
<1>1. CASE QueueStep
  BY <1>1 DEF QueueStep, Consume, TakeBatch, CallHandler, Raised, Stop, Forget
<1>2. CASE Crash \/ WriteRecord \/ WriteOn \/ UNCHANGED vars
  BY <1>2 DEF Crash, Forget, WriteRecord, WriteOn, vars, queueVars
<1>3. ASSUME NEW p \in Poller, Poll(p) \/ Abandon(p)
      PROVE  \/ UNCHANGED <<log, scored, replays>>
             \/ /\ UNCHANGED <<scored, replays>>
                /\ log' # log
                /\ \E k \in Key : publish(k)
  BY <1>3, PollPublishes DEF ConnectorInv
<1>4. QED
  BY <1>1, <1>2, <1>3 DEF ConnectorNext

\* Connector and transport together implement at-least-once delivery: overlapping
\* polls, re-read records, abandoned polls and crashes between a publish and the
\* checkpoint neither settle, lose nor forge a message.
THEOREM AtLeastOnceBehindConnector == ConnectorSpec => Delivery!Spec
<1>1. ASSUME ConnectorInit PROVE Delivery!Init
  <2>1. log = <<>> /\ scored = {}
    BY <1>1 DEF ConnectorInit, Init
  <2>2. DOMAIN log = {}
    BY <2>1
  <2>3. QED
    BY <2>1, <2>2 DEF Delivery!Init, Ready, With
<1>2. ASSUME ConnectorInv, [ConnectorNext]_vars
      PROVE  [Delivery!Next]_<<DOMAIN log, Ready, scored, With("dead")>>
  <2>0. IInv /\ DOMAIN log = 1..Len(log) /\ Len(log) \in Nat
    BY <1>2, LogRows DEF ConnectorInv, IInv
  <2>1. CASE UNCHANGED <<log, scored, replays>>
    BY <2>1 DEF Ready, With
  <2>2. CASE UNCHANGED scored /\ log' # log /\ \E k \in Key : publish(k)
    <3>1. Delivery!Accept(Len(log) + 1)
      BY <2>0, <2>2, AppendWaits DEF Delivery!Accept
    <3>2. Len(log) + 1 \in Nat \ {0}
      BY <2>0
    <3>3. QED
      BY <3>1, <3>2 DEF Delivery!Next
  <2>3. CASE Replay
    BY <2>0, <2>3, ReplayKeepsPromise DEF Promise!Restore, Delivery!Restore, Delivery!Next
  <2>4. CASE HandlerReturns
    <3>1. Delivery!Score(current) /\ current \in DOMAIN log
      BY <2>0, <2>4, ScoreKeepsPromise DEF Promise!Score, Delivery!Score
    <3>2. current \in Nat \ {0}
      BY <2>0, <3>1
    <3>3. QED
      BY <3>1, <3>2 DEF Delivery!Next
  <2>5. CASE MarkDone \/ MarkFailed
    <3>1. /\ current \in DOMAIN log
          /\ \/ Delivery!Acknowledge(current)
             \/ Delivery!GiveUp(current)
             \/ UNCHANGED <<DOMAIN log, Ready, scored, With("dead")>>
      BY <2>0, <2>5, SettleKeepsPromise
         DEF Promise!Acknowledge, Delivery!Acknowledge, Promise!GiveUp, Delivery!GiveUp
    <3>2. current \in Nat \ {0}
      BY <2>0, <3>1
    <3>3. QED
      BY <3>1, <3>2 DEF Delivery!Next
  <2>6. QED
    BY <1>2, <2>1, <2>2, <2>3, <2>4, <2>5, ConnectorStepKinds
<1>3. QED
  BY <1>1, <1>2, ConnectorInductive, PTL DEF ConnectorSpec, Delivery!Spec

\* Backpressure holds behind the connector too: however many polls publish at
\* once, only a replay drives the ready depth past max_depth.
THEOREM PollsNeverOverfill ==
  ConnectorSpec => [][Depth' > Depth /\ Depth' > MaxDepth => replays' > replays]_vars
<1>1. ASSUME ConnectorInv, [ConnectorNext]_vars
      PROVE  Depth' > Depth /\ Depth' > MaxDepth => replays' > replays
  <2>0. IInv /\ replays \in Nat
    BY <1>1 DEF ConnectorInv, IInv, TypeOK
  <2>1. CASE UNCHANGED log \/ MarkDone \/ MarkFailed
    BY <2>0, <2>1, DepthShrinks
  <2>2. CASE log' # log /\ \E k \in Key : publish(k)
    BY <2>0, <2>2, AppendDepth
  <2>3. CASE Replay
    BY <2>0, <2>3 DEF Replay
  <2>4. QED
    BY <1>1, <2>1, <2>2, <2>3, ConnectorStepKinds DEF HandlerReturns
<1>2. QED
  BY <1>1, ConnectorInductive, PTL DEF ConnectorSpec

-----------------------------------------------------------------------------
(* From the source to the scorer.                                          *)

DoneWasScored == \A i \in DOMAIN log : log[i].status = "done" => i \in scored

\* What became of a record the checkpoint stands past.
AnsweredFor(o) ==
    \E i \in DOMAIN log :
        /\ log[i].key = source[o]
        /\ i \in Ready \cup scored \cup With("dead")

PassedUnanswered ==
    {o \in 1..checkpoint : o \in DOMAIN source => source[o] # Junk /\ ~AnsweredFor(o)}

TailAnsweredFor == Cardinality(PassedUnanswered) <= spent

LEMMA ConnectorKeepsScored ==
  ASSUME ConnectorInv, DoneWasScored, [ConnectorNext]_vars
  PROVE  DoneWasScored'
<1>0. IInv /\ TypeOK
  BY DEF ConnectorInv, IInv
<1>1. CASE UNCHANGED <<log, scored, replays>>
  BY <1>1 DEF DoneWasScored
<1>2. CASE UNCHANGED scored /\ log' # log /\ \E k \in Key : publish(k)
  <2>1. PICK k \in Key : publish(k)
    BY <1>2
  <2>2. /\ DOMAIN log' = DOMAIN log \cup {Len(log) + 1}
        /\ \A i \in DOMAIN log : log'[i] = log[i]
        /\ log'[Len(log) + 1] = [key |-> k, status |-> "ready", attempts |-> 0]
    <3>1. k \in Key \cup {NoKey}
      OBVIOUS
    <3>2. QED
      BY <1>0, <1>2, <2>1, <3>1, PublishEffect
  <2>3. QED
    BY <1>2, <2>2 DEF DoneWasScored
<1>3. CASE Replay
  <2>1. PICK which \in {"dead", "done"} : replay(which)
    BY <1>3 DEF Replay
  <2>2. /\ DOMAIN log' = DOMAIN log
        /\ \A i \in DOMAIN log : log'[i] \in {Marked(log[i], "ready", 0), log[i]}
    BY <1>0, <2>1, ReplayEffect
  <2>3. UNCHANGED scored
    BY <1>3 DEF Replay
  <2>4. QED
    BY <2>2, <2>3 DEF DoneWasScored, Marked
<1>4. CASE HandlerReturns
  BY <1>4 DEF HandlerReturns, DoneWasScored
<1>5. CASE MarkDone \/ MarkFailed
  <2>1. current \in DOMAIN log
    BY <1>0, <1>5, SettleStep
  <2>2. PICK status \in Status, attempts \in Nat : Settles(status, attempts)
    BY <1>0, <1>5, SettleStep
  <2>3. /\ DOMAIN log' = DOMAIN log
        /\ \A i \in DOMAIN log \ {current} : log'[i] = log[i]
        /\ log'[current].status = status
        /\ status = "done" => current \in scored
    BY <1>0, <2>1, <2>2, SettleEffect DEF Settles, Marked
  <2>4. UNCHANGED scored
    BY <1>5 DEF MarkDone, MarkFailed
  <2>5. QED
    BY <2>3, <2>4 DEF DoneWasScored
<1>6. QED
  BY <1>1, <1>2, <1>3, <1>4, <1>5, ConnectorStepKinds

\* End to end: but for at most as many line numbers as fragments were read,
\* every record the checkpoint has passed is waiting for the scorer, was scored,
\* or lies openly among the dead letters, whatever overlapped, crashed, failed or
\* was replayed since.
THEOREM PassedIsAnsweredFor == ConnectorSpec => []TailAnsweredFor
<1>1. ConnectorInit => DoneWasScored
  <2>1. ASSUME ConnectorInit PROVE DOMAIN log = {}
    BY <2>1, EmptySeq DEF ConnectorInit, Init
  <2>2. QED
    BY <2>1 DEF DoneWasScored
<1>2. ConnectorInv /\ DoneWasScored /\ [ConnectorNext]_vars => DoneWasScored'
  BY ConnectorKeepsScored
<1>3. ConnectorInv /\ DoneWasScored => TailAnsweredFor
  <2> SUFFICES ASSUME ConnectorInv, DoneWasScored PROVE TailAnsweredFor
    OBVIOUS
  <2>1. ASSUME NEW o \in DOMAIN source, Published(source[o]) PROVE AnsweredFor(o)
    <3>1. PICK i \in DOMAIN log : log[i].key = source[o]
      BY <2>1 DEF Published
    <3>2. log[i].status \in Status
      BY LogRows DEF ConnectorInv, IInv, Row
    <3>3. i \in Ready \cup scored \cup With("dead")
      BY <3>2 DEF DoneWasScored, Status, Ready, With
    <3>4. QED
      BY <3>1, <3>3 DEF AnsweredFor
  <2>2. PICK c \in Nat, t \in Nat : c = checkpoint /\ t = spent
    BY DEF ConnectorInv, SourceInv
  <2>3. PassedUnanswered \subseteq Gap(1, c)
    BY <2>1, <2>2 DEF PassedUnanswered, Gap, Outstanding
  <2>4. /\ IsFiniteSet(Gap(1, c)) /\ Cardinality(Gap(1, c)) \in Nat
        /\ Cardinality(Gap(1, c)) <= t
    BY <2>2, GapIsFinite DEF ConnectorInv, CheckpointPaid
  <2>5. /\ IsFiniteSet(PassedUnanswered)
        /\ Cardinality(PassedUnanswered) <= Cardinality(Gap(1, c))
    BY <2>3, <2>4, FS_Subset
  <2>6. QED
    BY <2>2, <2>4, <2>5, FS_CardinalityType DEF TailAnsweredFor
<1>4. QED
  BY <1>1, <1>2, <1>3, ConnectorInductive, PTL DEF ConnectorSpec
=============================================================================
