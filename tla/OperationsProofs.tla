--------------------------- MODULE OperationsProofs --------------------------
(***************************************************************************)
(* Proofs about the components around the decision path, which share no    *)
(* state with one another.  Each section opens with the inductive          *)
(* invariant of its component.                                             *)
(***************************************************************************)
EXTENDS StoreTxn, TableConnector, CardHistory, GraphTables, RateLimiter, DriftMonitor,
        ModelRegistry, ScoreLadder, DisputeDesk, InvestigationEnv, ActorRead,
        NetworkIQ,
        FiniteSetTheorems, SequenceTheorems, WellFoundedInduction, TLAPS

-----------------------------------------------------------------------------
(* StoreTxn, for any number of threads, labels, nested batches and crashes. *)
(* The working image is never behind what is durable, what an open batch    *)
(* added is in the image and not yet durable, and between the two           *)
(* statements of add_label the one id that rows point to without a row is   *)
(* the one being written.                                                   *)

Rows == [LabelId -> {"absent", "current"} \cup LabelId]

TxnShape ==
    [holder: Writer \cup {Nobody}, depth: Nat, writing: LabelId \cup {Nobody},
     added: SUBSET LabelId]

TxnTypeOK ==
    /\ image \in Rows /\ durable \in Rows
    /\ txn \in TxnShape
    /\ returned \subseteq LabelId /\ rolledBack \subseteq LabelId
    /\ broken \in BOOLEAN

ImageAhead ==
    /\ Present(durable) \subseteq Present(image)
    /\ txn.added \subseteq Present(image) \ Present(durable)
    /\ txn.depth = 0 => txn.added = {}
    /\ txn.writing # Nobody => txn.writing \notin Present(image) \cup returned \cup rolledBack

Whole(rows) ==
    /\ Dangling(rows) = {}
    /\ Present(rows) # {} => \E l \in LabelId : {m \in LabelId : rows[m] = "current"} = {l}

\* The UPDATE has run and the INSERT of l has not.
HalfWritten(rows, l) ==
    /\ rows[l] = "absent"
    /\ \A m \in LabelId : rows[m] # "current"
    /\ \A m \in LabelId : rows[m] \in LabelId /\ rows[m] # l => rows[rows[m]] # "absent"

ImageWhole ==
    ~broken => /\ Whole(durable)
               /\ txn.writing = Nobody => Whole(image)
               /\ txn.writing # Nobody => HalfWritten(image, txn.writing)

TxnInv ==
    TxnTypeOK /\ ImageAhead /\ ReturnedIsDurable /\ FailedBatchLeavesNothing /\ ImageWhole

LEMMA FreeShape == Free \in TxnShape /\ Free.added = {} /\ Free.writing = Nobody /\ Free.depth = 0
BY DEF Free, TxnShape

\* The INSERT completes what the UPDATE began.
LEMMA InsertMakesWhole ==
  ASSUME NEW rows \in Rows, NEW l \in LabelId, HalfWritten(rows, l)
  PROVE  Whole([rows EXCEPT ![l] = "current"])
<1> DEFINE after == [rows EXCEPT ![l] = "current"]
<1>1. after[l] = "current" /\ \A m \in LabelId : m # l => after[m] = rows[m]
  BY DEF Rows
<1>2. Dangling(after) = {}
  BY <1>1, TxnAssumption DEF Dangling, HalfWritten, Rows
<1>3. {m \in LabelId : after[m] = "current"} = {l}
  BY <1>1 DEF HalfWritten
<1>4. QED
  BY <1>2, <1>3 DEF Whole

LEMMA SupersedingHalfWrites ==
  ASSUME NEW l \in LabelId, image \in Rows, image[l] = "absent", Whole(image)
  PROVE  HalfWritten(Superseding(l), l)
<1> DEFINE after == Superseding(l)
<1>1. \A m \in LabelId : after[m] = IF image[m] = "current" THEN l ELSE image[m]
  BY DEF Superseding
<1>2. after[l] = "absent" /\ \A m \in LabelId : after[m] # "current"
  BY <1>1, TxnAssumption DEF Rows
<1>3. ASSUME NEW m \in LabelId, after[m] \in LabelId, after[m] # l
      PROVE  after[after[m]] # "absent"
  <2>1. image[m] \in LabelId /\ after[m] = image[m]
    BY <1>1, <1>3
  <2>2. image[image[m]] # "absent"
    BY <2>1 DEF Whole, Dangling
  <2>3. QED
    BY <1>1, <2>1, <2>2, TxnAssumption
<1>4. QED
  BY <1>2, <1>3 DEF HalfWritten

LEMMA SupersedeTxnInv ==
  ASSUME TxnInv, NEW w \in Writer, NEW l \in LabelId, Supersede(w, l)
  PROVE  TxnInv'
<1>1. /\ image' = Superseding(l) /\ image' \in Rows
      /\ Present(image') = Present(image)
  BY TxnAssumption DEF Supersede, Superseding, TxnInv, TxnTypeOK, Rows, Present
<1>2. /\ txn' \in TxnShape
      /\ txn'.writing = l /\ txn'.depth = txn.depth /\ txn'.added = txn.added
  BY DEF Supersede, TxnInv, TxnTypeOK, TxnShape
<1>3. txn.writing = Nobody /\ l # Nobody
  BY TxnAssumption DEF Supersede, CanUse
<1>4. UNCHANGED <<durable, returned, rolledBack, broken>>
  BY DEF Supersede
<1>5. TxnTypeOK'
  BY <1>1, <1>2, <1>4 DEF TxnInv, TxnTypeOK
<1>6. ImageAhead'
  BY <1>1, <1>2, <1>4 DEF Supersede, TxnInv, ImageAhead, Present
<1>7. ReturnedIsDurable' /\ FailedBatchLeavesNothing'
  BY <1>1, <1>4 DEF TxnInv, ReturnedIsDurable, FailedBatchLeavesNothing, Present
<1>8. ImageWhole'
  <2>1. ~broken => HalfWritten(image', l)
    BY <1>1, <1>3, SupersedingHalfWrites DEF Supersede, TxnInv, TxnTypeOK, ImageWhole
  <2>2. QED
    BY <1>2, <1>3, <1>4, <2>1 DEF TxnInv, ImageWhole, Whole, Present, Dangling, HalfWritten
<1>9. QED
  BY <1>5, <1>6, <1>7, <1>8 DEF TxnInv

LEMMA InsertTxnInv ==
  ASSUME TxnInv, NEW w \in Writer, InsertLabel(w)
  PROVE  TxnInv'
<1> DEFINE l == txn.writing
<1>1. l \in LabelId /\ l # Nobody /\ txn.holder = w
  BY DEF InsertLabel, TxnInv, TxnTypeOK, TxnShape
<1>2. /\ image' = [image EXCEPT ![l] = "current"] /\ image' \in Rows
      /\ Present(image') = Present(image) \cup {l}
  BY <1>1, TxnAssumption DEF InsertLabel, TxnInv, TxnTypeOK, Rows, Present
<1>3. UNCHANGED <<rolledBack, broken>>
  BY DEF InsertLabel
<1>4. ~broken => Whole(image')
  BY <1>1, <1>2, InsertMakesWhole DEF TxnInv, TxnTypeOK, ImageWhole
<1>5. l \notin Present(image) \cup returned \cup rolledBack
  BY <1>1 DEF TxnInv, ImageAhead
<1>6. CASE txn.depth = 0
  <2>1. durable' = image' /\ txn' = Free /\ returned' = returned \cup {l}
    BY <1>6 DEF InsertLabel, Commits
  <2>2. TxnTypeOK'
    BY <1>1, <1>2, <1>3, <2>1, FreeShape DEF TxnInv, TxnTypeOK
  <2>3. ImageAhead'
    BY <2>1, FreeShape DEF ImageAhead
  <2>4. ReturnedIsDurable' /\ FailedBatchLeavesNothing'
    BY <1>2, <1>3, <1>5, <2>1
    DEF TxnInv, ImageAhead, ReturnedIsDurable, FailedBatchLeavesNothing, Present
  <2>5. ImageWhole'
    BY <1>3, <1>4, <2>1, FreeShape DEF ImageWhole, Whole, Present, Dangling
  <2>6. QED
    BY <2>2, <2>3, <2>4, <2>5 DEF TxnInv
<1>7. CASE txn.depth # 0
  <2>1. /\ durable' = durable /\ returned' = returned
        /\ txn' = [txn EXCEPT !.writing = Nobody, !.added = @ \cup {l}]
    BY <1>7 DEF InsertLabel, Commits
  <2>2. /\ txn' \in TxnShape
        /\ txn'.writing = Nobody /\ txn'.depth = txn.depth /\ txn'.added = txn.added \cup {l}
    BY <1>1, <2>1 DEF TxnInv, TxnTypeOK, TxnShape
  <2>3. TxnTypeOK'
    BY <1>1, <1>2, <1>3, <2>1, <2>2 DEF TxnInv, TxnTypeOK
  <2>4. ImageAhead'
    BY <1>2, <1>5, <1>7, <2>1, <2>2 DEF TxnInv, ImageAhead, Present
  <2>5. ReturnedIsDurable' /\ FailedBatchLeavesNothing'
    BY <1>2, <1>3, <1>5, <2>1
    DEF TxnInv, ReturnedIsDurable, FailedBatchLeavesNothing, Present
  <2>6. ImageWhole'
    BY <1>3, <1>4, <2>1, <2>2 DEF TxnInv, ImageWhole, Whole, Present, Dangling
  <2>7. QED
    BY <2>3, <2>4, <2>5, <2>6 DEF TxnInv
<1>8. QED
  BY <1>6, <1>7

LEMMA InsertFailsTxnInv ==
  ASSUME TxnInv, NEW w \in Writer, InsertFails(w)
  PROVE  TxnInv'
<1>1. UNCHANGED <<image, durable, returned, rolledBack>> /\ broken'
  BY DEF InsertFails
<1>2. /\ txn' \in TxnShape
      /\ txn'.writing = Nobody /\ txn'.added \subseteq txn.added
      /\ txn'.depth = 0 => txn'.added = {}
  BY FreeShape DEF InsertFails, TxnInv, TxnTypeOK, TxnShape, ImageAhead
<1>3. QED
  BY <1>1, <1>2 DEF TxnInv, TxnTypeOK, ImageAhead, ImageWhole, ReturnedIsDurable,
                    FailedBatchLeavesNothing, Present

\* Opening a batch, and closing or failing one that is nested, only move the depth.
LEMMA DepthTxnInv ==
  ASSUME TxnInv, txn' \in TxnShape, txn'.added = txn.added, txn.writing = Nobody,
         txn'.writing = Nobody, txn'.depth # 0,
         UNCHANGED <<image, durable, returned, rolledBack, broken>>
  PROVE  TxnInv'
BY DEF TxnInv, TxnTypeOK, ImageAhead, ImageWhole, ReturnedIsDurable,
       FailedBatchLeavesNothing, Present, Whole, Dangling

LEMMA BeginBatchTxnInv ==
  ASSUME TxnInv, NEW w \in Writer, BeginBatch(w)
  PROVE  TxnInv'
<1>1. /\ txn.writing = Nobody
      /\ txn.depth + 1 \in Nat /\ txn.depth + 1 # 0
  BY DEF BeginBatch, CanUse, TxnInv, TxnTypeOK, TxnShape
<1> DEFINE deeper == txn.depth + 1
<1> HIDE DEF deeper
<1>2. /\ txn' \in TxnShape
      /\ txn'.added = txn.added /\ txn'.writing = Nobody /\ txn'.depth = deeper
  <2>1. txn' = [txn EXCEPT !.holder = w, !.depth = deeper]
    BY DEF BeginBatch, deeper
  <2>2. deeper \in Nat
    BY <1>1 DEF deeper
  <2>3. QED
    BY <1>1, <2>1, <2>2 DEF TxnInv, TxnTypeOK, TxnShape
<1>3. deeper # 0
  BY <1>1 DEF deeper
<1>4. QED
  BY <1>1, <1>2, <1>3, DepthTxnInv DEF BeginBatch

LEMMA InnerBatch ==
  ASSUME TxnInv, txn.writing = Nobody, txn.depth > 0, txn.depth # 1,
         txn' = [txn EXCEPT !.depth = @ - 1]
  PROVE  txn' \in TxnShape /\ txn'.added = txn.added /\ txn'.writing = Nobody /\ txn'.depth # 0
<1>1. txn.depth \in Nat /\ txn.depth - 1 \in Nat /\ txn.depth - 1 # 0
  BY DEF TxnInv, TxnTypeOK, TxnShape
<1>2. QED
  BY <1>1 DEF TxnInv, TxnTypeOK, TxnShape

LEMMA EndBatchTxnInv ==
  ASSUME TxnInv, NEW w \in Writer, EndBatch(w)
  PROVE  TxnInv'
<1>1. CASE txn.depth = 1
  <2>1. /\ durable' = image /\ txn' = Free /\ returned' = returned \cup txn.added
        /\ UNCHANGED <<image, rolledBack, broken>> /\ txn.writing = Nobody
    BY <1>1 DEF EndBatch
  <2>2. TxnTypeOK'
    BY <2>1, FreeShape DEF TxnInv, TxnTypeOK, TxnShape
  <2>3. ImageAhead'
    BY <2>1, FreeShape DEF ImageAhead
  <2>4. ReturnedIsDurable' /\ FailedBatchLeavesNothing'
    BY <2>1 DEF TxnInv, ImageAhead, ReturnedIsDurable, FailedBatchLeavesNothing, Present
  <2>5. ImageWhole'
    BY <2>1, FreeShape DEF TxnInv, ImageWhole, Whole, Present, Dangling
  <2>6. QED
    BY <2>2, <2>3, <2>4, <2>5 DEF TxnInv
<1>2. CASE txn.depth # 1
  BY <1>2, InnerBatch, DepthTxnInv DEF EndBatch
<1>3. QED
  BY <1>1, <1>2

LEMMA FailBatchTxnInv ==
  ASSUME TxnInv, NEW w \in Writer, NEW isException \in BOOLEAN, FailBatch(w, isException)
  PROVE  TxnInv'
<1>1. CASE txn.depth = 1
  <2>1. /\ image' = (IF isException THEN durable ELSE image) /\ durable' = durable
        /\ rolledBack' = (IF isException THEN rolledBack \cup txn.added ELSE rolledBack)
        /\ broken' = (broken \/ ~isException)
        /\ txn' = Free /\ returned' = returned
    BY <1>1 DEF FailBatch, RollsBack
  <2>2. TxnTypeOK'
    BY <2>1, FreeShape DEF TxnInv, TxnTypeOK, TxnShape
  <2>3. ImageAhead'
    BY <2>1, FreeShape DEF TxnInv, ImageAhead, Present
  <2>4. ReturnedIsDurable' /\ FailedBatchLeavesNothing'
    BY <2>1 DEF TxnInv, ImageAhead, ReturnedIsDurable, FailedBatchLeavesNothing, Present
  <2>5. ImageWhole'
    BY <2>1, FreeShape DEF TxnInv, ImageWhole, Whole, Present, Dangling
  <2>6. QED
    BY <2>2, <2>3, <2>4, <2>5 DEF TxnInv
<1>2. CASE txn.depth # 1
  <2>1. broken' = broken
    BY <1>2 DEF FailBatch, TxnInv, TxnTypeOK
  <2>2. QED
    BY <1>2, <2>1, InnerBatch, DepthTxnInv DEF FailBatch, RollsBack
<1>3. QED
  BY <1>1, <1>2

LEMMA CrashTxnInv ==
  ASSUME TxnInv, ProcessCrash
  PROVE  TxnInv'
<1>1. image' = durable /\ txn' = Free /\ UNCHANGED <<durable, returned, rolledBack, broken>>
  BY DEF ProcessCrash
<1>2. TxnTypeOK' /\ ImageAhead'
  BY <1>1, FreeShape DEF TxnInv, TxnTypeOK, ImageAhead
<1>3. ReturnedIsDurable' /\ FailedBatchLeavesNothing'
  BY <1>1 DEF TxnInv, ReturnedIsDurable, FailedBatchLeavesNothing, Present
<1>4. ImageWhole'
  BY <1>1, FreeShape DEF TxnInv, ImageWhole, Whole, Present, Dangling
<1>5. QED
  BY <1>2, <1>3, <1>4 DEF TxnInv

\* The transactions' invariant, for every schedule of the threads: the working
\* image and the durable rows stay in the relation stated above.
THEOREM TxnInductive == TxnSpec => []TxnInv
<1>1. TxnInit => TxnInv
  <2>1. ASSUME TxnInit PROVE TxnInv
    <3>1. /\ image = [l \in LabelId |-> "absent"] /\ durable = image /\ txn = Free
          /\ returned = {} /\ rolledBack = {} /\ broken = FALSE
      BY <2>1 DEF TxnInit
    <3>2. TxnTypeOK /\ ImageAhead /\ ReturnedIsDurable /\ FailedBatchLeavesNothing
      BY <3>1, FreeShape
      DEF TxnTypeOK, Rows, ImageAhead, ReturnedIsDurable, FailedBatchLeavesNothing
    <3>3. ImageWhole
      BY <3>1, FreeShape, TxnAssumption DEF ImageWhole, Whole, Present, Dangling
    <3>4. QED
      BY <3>2, <3>3 DEF TxnInv
  <2>2. QED
    BY <2>1
<1>2. TxnInv /\ [TxnNext]_txnVars => TxnInv'
  <2>1. CASE TxnNext
    BY <2>1, SupersedeTxnInv, InsertTxnInv, InsertFailsTxnInv, BeginBatchTxnInv,
       EndBatchTxnInv, FailBatchTxnInv, CrashTxnInv DEF TxnNext
  <2>2. CASE UNCHANGED txnVars
    BY <2>2 DEF txnVars, TxnInv, TxnTypeOK, ImageAhead, ReturnedIsDurable,
                FailedBatchLeavesNothing, ImageWhole, Whole, Present, Dangling, HalfWritten
  <2>3. QED
    BY <2>1, <2>2
<1>3. QED
  BY <1>1, <1>2, PTL DEF TxnSpec

\* What a finished call or batch reported written is durable from then on,
\* whatever crashes or fails after it.
THEOREM ReportedIsDurable == TxnSpec => []ReturnedIsDurable
<1>1. TxnInv => ReturnedIsDurable
  BY DEF TxnInv
<1>2. QED
  BY <1>1, TxnInductive, PTL

\* A batch whose exception reached its outermost block leaves none of its
\* labels, in the image or on disk, whoever commits next.
THEOREM FailedBatchIsUndone == TxnSpec => []FailedBatchLeavesNothing
<1>1. TxnInv => FailedBatchLeavesNothing
  BY DEF TxnInv
<1>2. QED
  BY <1>1, TxnInductive, PTL

\* Until an exception leaves statements behind, a crash at any moment finds
\* durable rows that are whole: add_label is never half committed.
THEOREM CommitsAreWhole == TxnSpec => []DurableIsWhole
<1>1. TxnInv => DurableIsWhole
  BY DEF TxnInv, ImageWhole, Whole, DurableIsWhole
<1>2. QED
  BY <1>1, TxnInductive, PTL

-----------------------------------------------------------------------------
(* TableConnector, for any number of tables, requests and overlapping polls. *)
(* A checkpoint, and the place a poll has reached, is the id of a row that    *)
(* can be seen, and every row before it reached the pipeline or became        *)
(* visible out of order.  A row seen out of order needs a later one already   *)
(* there, which is why the checkpoint has to be the id of a row.              *)

TablePollShape ==
    [running: {TRUE}, request: PollRequest, start: Nat, last: Nat, rows: SUBSET Nat]

TableTypeOK ==
    /\ begun \in [Table -> SUBSET Nat] /\ committed \in [Table -> SUBSET Nat]
    /\ \A t \in Table : \E n \in Nat : begun[t] = 1..n /\ committed[t] \subseteq 1..n
    /\ watermark \in [ConnectorId -> Nat]
    /\ poll \in [Poller -> {NoTablePoll} \cup TablePollShape]

\* n is the id of a row that can be seen, or none has been read,
\* and no row of the table up to n was left out.
ReadUpTo(t, n) ==
    /\ n = 0 \/ n \in committed[t]
    /\ \A id \in committed[t] : id <= n => <<t, id>> \in queued \cup rejected \cup late

\* The rows in hand are the next ones, but for those seen out of order.
RowsInHand(q) ==
    LET t == q.request.table
    IN  /\ q.rows \subseteq committed[t]
        /\ \A row \in q.rows : q.last < row
        /\ \A id \in committed[t] : \A row \in q.rows :
               q.last < id /\ id < row /\ id \notin q.rows => <<t, id>> \in late

PollsInOrder ==
    \A p \in Poller : poll[p].running =>
        /\ RowsInHand(poll[p])
        /\ Own(poll[p].request.connector) => ReadUpTo(poll[p].request.table, poll[p].last)

CheckpointsInOrder ==
    \A r \in PollRequest : Own(r.connector) => ReadUpTo(r.table, watermark[r.connector])

TableInv == TableTypeOK /\ CheckpointsInOrder /\ PollsInOrder

LEMMA LeastId ==
  ASSUME NEW T, T \subseteq Nat, T # {}
  PROVE  Min(T) \in T /\ \A y \in T : Min(T) <= y
<1>1. PICK x \in T : \A y \in T : ~ (<<y, x>> \in OpToRel(<, Nat))
  BY NatLessThanWellFounded, WFMin
<1>2. OpToRel(<, Nat) = {ss \in Nat \X Nat : ss[1] < ss[2]}
  BY Zenon DEF OpToRel
<1>3. ASSUME NEW y \in T PROVE x <= y
  <2>1. x \in Nat /\ y \in Nat /\ <<y, x>> \in Nat \X Nat
    OBVIOUS
  <2>2. ~(y < x)
    BY <1>1, <1>2, <2>1
  <2>3. QED
    BY <2>1, <2>2
<1>4. QED
  BY <1>3 DEF Min

LEMMA RunningShape ==
  ASSUME TableTypeOK, NEW p \in Poller, poll[p].running
  PROVE  /\ poll[p] \in TablePollShape
         /\ poll[p].request \in PollRequest /\ poll[p].request.table \in Table
         /\ poll[p].last \in Nat /\ poll[p].start \in Nat /\ poll[p].rows \subseteq Nat
<1>1. poll[p] \in {NoTablePoll} \cup TablePollShape
  BY DEF TableTypeOK
<1>2. ~NoTablePoll.running
  BY DEF NoTablePoll
<1>3. poll[p] \in TablePollShape
  BY <1>1, <1>2
<1>4. QED
  BY <1>3, TableAssumption DEF TablePollShape

\* The LIMIT takes the first rows of the order: none is skipped.
LEMMA SelectedIsPrefix ==
  ASSUME TableTypeOK, NEW t \in Table, NEW since \in Nat,
         NEW row \in Selected(t, since), NEW id \in committed[t], since < id, id < row
  PROVE  id \in Selected(t, since)
<1> DEFINE newer == {x \in committed[t] : x > since}
           upTo(n) == {other \in newer : other <= n}
<1>1. PICK n \in Nat : committed[t] \subseteq 1..n
  BY DEF TableTypeOK
<1>2. row \in newer /\ Cardinality(upTo(row)) <= Batch
  BY DEF Selected
<1>3. newer \subseteq 1..n /\ id \in newer /\ id \in Nat /\ row \in Nat
  BY <1>1, <1>2
<1>4. IsFiniteSet(newer)
  <2>1. 1 \in Int /\ n \in Int
    OBVIOUS
  <2>2. IsFiniteSet(1..n)
    BY <2>1, FS_Interval
  <2>3. newer \in SUBSET (1..n)
    BY <1>3
  <2>4. QED
    BY <2>2, <2>3, FS_Subset
<1>5. upTo(id) \in SUBSET upTo(row) /\ upTo(row) \in SUBSET newer
  BY <1>3
<1>6. /\ IsFiniteSet(upTo(id)) /\ IsFiniteSet(upTo(row))
      /\ Cardinality(upTo(id)) <= Cardinality(upTo(row))
  BY <1>4, <1>5, FS_Subset
<1>7. Cardinality(upTo(id)) \in Nat /\ Cardinality(upTo(row)) \in Nat /\ Batch \in Nat
  BY <1>6, FS_CardinalityType, TableAssumption
<1> HIDE DEF upTo
<1>8. Cardinality(upTo(id)) <= Batch
  BY <1>2, <1>6, <1>7
<1>9. QED
  BY <1>3, <1>8 DEF Selected, upTo

\* What is read stays read while rows only reach more places.
LEMMA ReadKept ==
  ASSUME NEW t, NEW n, ReadUpTo(t, n), committed' = committed, queued \subseteq queued',
         rejected \subseteq rejected', late \subseteq late'
  PROVE  ReadUpTo(t, n)'
BY DEF ReadUpTo

LEMMA RowsKept ==
  ASSUME NEW q, RowsInHand(q), committed' = committed, late' = late
  PROVE  RowsInHand(q)'
BY DEF RowsInHand

\* A writer's commit below a row that can be seen is out of order.
LEMMA CommitTableInv ==
  ASSUME TableInv, NEW t \in Table, Commit(t)
  PROVE  TableInv'
<1>1. PICK id \in begun[t] \ committed[t] :
         /\ committed' = [committed EXCEPT ![t] = @ \cup {id}]
         /\ late' = IF \E other \in committed[t] : other > id THEN late \cup {<<t, id>>} ELSE late
  BY DEF Commit
<1>2. UNCHANGED <<begun, watermark, poll, queued, rejected, pollCrashes>>
  BY DEF Commit
<1>3. /\ committed \in [Table -> SUBSET Nat] /\ begun \in [Table -> SUBSET Nat]
      /\ id \in Nat /\ id > 0
  BY DEF TableInv, TableTypeOK
<1>4. TableTypeOK'
  <2>1. committed' \in [Table -> SUBSET Nat]
    BY <1>1, <1>3
  <2>2. ASSUME NEW u \in Table
        PROVE  \E n \in Nat : begun'[u] = 1..n /\ committed'[u] \subseteq 1..n
    BY <1>1, <1>2, <1>3 DEF TableInv, TableTypeOK
  <2>3. QED
    BY <1>2, <2>1, <2>2 DEF TableInv, TableTypeOK
<1>5. ASSUME NEW u \in Table, NEW n \in Nat, ReadUpTo(u, n)
      PROVE  ReadUpTo(u, n)'
  <2>1. n = 0 \/ n \in committed'[u]
    BY <1>1, <1>3, <1>5 DEF ReadUpTo
  <2>2. ASSUME NEW x \in committed'[u], x <= n
        PROVE  <<u, x>> \in queued' \cup rejected' \cup late'
    <3>1. CASE x \in committed[u]
      BY <1>1, <1>2, <1>5, <2>2, <3>1 DEF ReadUpTo
    <3>2. CASE x \notin committed[u]
      <4>1. u = t /\ x = id
        BY <1>1, <1>3, <3>2
      <4>2. n \in committed[t] /\ n > id
        BY <1>3, <1>5, <2>2, <4>1 DEF ReadUpTo
      <4>3. <<t, id>> \in late'
        BY <1>1, <4>2
      <4>4. QED
        BY <4>1, <4>3
    <3>3. QED
      BY <3>1, <3>2
  <2>3. QED
    BY <2>1, <2>2 DEF ReadUpTo
<1>6. ASSUME NEW q \in TablePollShape, q.request.table \in Table, RowsInHand(q)
      PROVE  RowsInHand(q)'
  BY <1>1, <1>2, <1>3, <1>6 DEF RowsInHand, TablePollShape
<1>7. CheckpointsInOrder'
  <2>1. ASSUME NEW r \in PollRequest
        PROVE  r.table \in Table /\ watermark[r.connector] \in Nat
    BY TableAssumption DEF TableInv, TableTypeOK, ConnectorId
  <2>2. QED
    BY <1>2, <1>5, <2>1 DEF TableInv, CheckpointsInOrder, Own
<1>8. PollsInOrder'
  <2>1. ASSUME NEW p \in Poller, poll[p].running
        PROVE  poll[p] \in TablePollShape /\ poll[p].request.table \in Table /\ poll[p].last \in Nat
    BY <2>1, RunningShape DEF TableInv
  <2>2. QED
    BY <1>2, <1>5, <1>6, <2>1 DEF TableInv, PollsInOrder, Own
<1>9. QED
  BY <1>4, <1>7, <1>8 DEF TableInv

LEMMA SelectTableInv ==
  ASSUME TableInv, NEW p \in Poller, Select(p)
  PROVE  TableInv'
<1>1. UNCHANGED <<begun, committed, watermark, queued, rejected, late>>
  BY DEF Select
<1>2. PICK r \in PollRequest :
         poll' = [poll EXCEPT ![p] =
                    [running |-> TRUE, request |-> r, start |-> watermark[r.connector],
                     last |-> watermark[r.connector],
                     rows |-> Selected(r.table, watermark[r.connector])]]
  BY DEF Select
<1> DEFINE since == watermark[r.connector]
           q == [running |-> TRUE, request |-> r, start |-> since, last |-> since,
                 rows |-> Selected(r.table, since)]
<1>3. r.table \in Table /\ r.connector \in ConnectorId /\ since \in Nat
  BY TableAssumption DEF ConnectorId, TableInv, TableTypeOK
<1>4. Selected(r.table, since) \subseteq committed[r.table] /\ committed[r.table] \subseteq Nat
  BY <1>3 DEF Selected, TableInv, TableTypeOK
<1>5. poll' = [poll EXCEPT ![p] = q] /\ q \in TablePollShape
  BY <1>2, <1>3, <1>4 DEF TablePollShape
<1>6. TableTypeOK'
  BY <1>1, <1>5 DEF TableInv, TableTypeOK
<1>7. RowsInHand(q)
  <2>1. ASSUME NEW id \in committed[r.table], NEW row \in Selected(r.table, since),
               since < id, id < row, id \notin Selected(r.table, since)
        PROVE  FALSE
    BY <1>3, <2>1, SelectedIsPrefix DEF TableInv
  <2>2. \A row \in Selected(r.table, since) : since < row
    BY <1>3 DEF Selected, TableInv, TableTypeOK
  <2>3. QED
    BY <1>4, <2>1, <2>2 DEF RowsInHand
<1>8. Own(r.connector) => ReadUpTo(r.table, since)
  BY DEF TableInv, CheckpointsInOrder
<1> HIDE DEF q
<1>9. q.request = r /\ q.last = since
  BY DEF q
<1>10. PollsInOrder'
  <2>1. \A o \in Poller : poll'[o] = IF o = p THEN q ELSE poll[o]
    BY <1>5 DEF TableInv, TableTypeOK
  <2>2. QED
    BY <1>1, <1>7, <1>8, <1>9, <2>1, RowsKept, ReadKept
    DEF TableInv, PollsInOrder, Own
<1>11. CheckpointsInOrder'
  BY <1>1, ReadKept DEF TableInv, CheckpointsInOrder, Own
<1>12. QED
  BY <1>6, <1>10, <1>11 DEF TableInv

LEMMA PublishTableInv ==
  ASSUME TableInv, NEW p \in Poller, PublishRow(p)
  PROVE  TableInv'
<1>0. PICK t, row, q, r : t = poll[p].request.table /\ row = FirstRow(p) /\ q = Past(p)
                          /\ r = poll[p].request
  OBVIOUS
<1>1. /\ UNCHANGED <<begun, committed, watermark, late>>
      /\ poll' = [poll EXCEPT ![p] = q] /\ poll[p].running /\ poll[p].rows # {}
      /\ queued \subseteq queued' /\ rejected \subseteq rejected'
      /\ <<t, row>> \in queued' \cup rejected'
  BY <1>0 DEF PublishRow
<1>2. /\ poll[p] \in TablePollShape /\ t \in Table
      /\ poll[p].last \in Nat /\ poll[p].rows \subseteq Nat
  BY <1>0, <1>1, RunningShape DEF TableInv
<1>3. row \in poll[p].rows /\ \A other \in poll[p].rows : row <= other
  BY <1>0, <1>1, <1>2, LeastId DEF FirstRow
<1>4. RowsInHand(poll[p]) /\ (Own(r.connector) => ReadUpTo(t, poll[p].last))
  BY <1>0, <1>1 DEF TableInv, PollsInOrder
<1>5. /\ q \in TablePollShape /\ q.request = r /\ r.table = t
      /\ q.last = row /\ q.rows = poll[p].rows \ {row}
  BY <1>0, <1>2, <1>3 DEF Past, TablePollShape
<1>6. row \in committed[t] /\ committed[t] \subseteq Nat
  BY <1>0, <1>2, <1>3, <1>4 DEF RowsInHand, TableInv, TableTypeOK
<1>7. TableTypeOK'
  BY <1>1, <1>5 DEF TableInv, TableTypeOK
<1>8. RowsInHand(q)'
  <2>1. q.rows \subseteq committed[t]
    BY <1>0, <1>4, <1>5 DEF RowsInHand
  <2>2. ASSUME NEW id \in committed[t], NEW other \in q.rows, q.last < id, id < other,
               id \notin q.rows
        PROVE  <<t, id>> \in late
    <3>1. id \notin poll[p].rows /\ other \in poll[p].rows
      BY <1>5, <1>6, <2>2
    <3>2. poll[p].last < row /\ row < id
      BY <1>3, <1>4, <1>5, <2>2 DEF RowsInHand
    <3>3. poll[p].last < id
      BY <1>2, <1>6, <3>2
    <3>4. QED
      BY <1>0, <1>4, <2>2, <3>1, <3>3 DEF RowsInHand
  <2>3. \A other \in q.rows : q.last < other
    BY <1>2, <1>3, <1>5
  <2>4. QED
    BY <1>1, <1>5, <2>1, <2>2, <2>3 DEF RowsInHand
<1>9. Own(r.connector) => ReadUpTo(t, row)'
  <2> SUFFICES ASSUME Own(r.connector) PROVE ReadUpTo(t, row)'
    OBVIOUS
  <2>1. ASSUME NEW id \in committed[t], id <= row
        PROVE  <<t, id>> \in queued' \cup rejected' \cup late'
    <3>1. CASE id = row
      BY <1>1, <3>1
    <3>2. CASE id <= poll[p].last
      BY <1>1, <1>4, <3>2 DEF ReadUpTo
    <3>3. CASE id # row /\ ~(id <= poll[p].last)
      <4>1. id < row /\ poll[p].last < id
        BY <1>2, <1>6, <2>1, <3>3
      <4>2. id \notin poll[p].rows
        BY <1>2, <1>3, <1>6, <4>1
      <4>3. <<t, id>> \in late
        BY <1>0, <1>3, <1>4, <4>1, <4>2 DEF RowsInHand
      <4>4. QED
        BY <1>1, <4>3
    <3>4. QED
      BY <3>1, <3>2, <3>3
  <2>2. QED
    BY <1>1, <1>6, <2>1 DEF ReadUpTo
<1>10. PollsInOrder'
  <2>1. \A o \in Poller : poll'[o] = IF o = p THEN q ELSE poll[o]
    BY <1>1 DEF TableInv, TableTypeOK
  <2>2. ASSUME NEW o \in Poller, o # p, poll[o].running
        PROVE  /\ RowsInHand(poll[o])'
               /\ Own(poll[o].request.connector) => ReadUpTo(poll[o].request.table, poll[o].last)'
    <3> DEFINE other == poll[o]
               u == other.request.table
               n == other.last
    <3>1. poll'[o] = poll[o]
      BY <2>1, <2>2
    <3>2. RowsInHand(other) /\ (Own(other.request.connector) => ReadUpTo(u, n))
      BY <2>2 DEF TableInv, PollsInOrder
    <3>3. RowsInHand(poll[o])'
      BY <1>1, <3>1, <3>2 DEF RowsInHand
    <3>4. ReadUpTo(u, n) => ReadUpTo(poll[o].request.table, poll[o].last)'
      BY <1>1, <3>1 DEF ReadUpTo
    <3>5. QED
      BY <3>1, <3>2, <3>3, <3>4
  <2>3. RowsInHand(poll[p])' /\ (Own(poll[p].request.connector)' => ReadUpTo(poll[p].request.table, poll[p].last)')
    <3>1. poll'[p] = q
      BY <2>1
    <3>2. RowsInHand(poll[p])'
      BY <1>8, <3>1 DEF RowsInHand
    <3>3. Own(poll[p].request.connector)' => ReadUpTo(poll[p].request.table, poll[p].last)'
      BY <1>5, <1>9, <3>1 DEF ReadUpTo, Own
    <3>4. QED
      BY <3>2, <3>3
  <2>4. QED
    BY <2>1, <2>2, <2>3 DEF PollsInOrder, Own
<1>11. CheckpointsInOrder'
  BY <1>1, ReadKept DEF TableInv, CheckpointsInOrder, Own
<1>12. QED
  BY <1>7, <1>10, <1>11 DEF TableInv

\* A poll that stops where it is, or ends, leaves the others as they were.
LEMMA OtherPollsKept ==
  ASSUME TableInv, NEW p \in Poller, NEW q, poll' = [poll EXCEPT ![p] = q],
         UNCHANGED <<committed, queued, rejected, late>>,
         q.running => RowsInHand(q) /\ q.request = poll[p].request /\ q.last = poll[p].last
                      /\ poll[p].running
  PROVE  PollsInOrder'
<1>1. ASSUME NEW o \in Poller PROVE poll'[o] = IF o = p THEN q ELSE poll[o]
  BY DEF TableInv, TableTypeOK
<1>2. ASSUME NEW o \in Poller, poll'[o].running
      PROVE  /\ RowsInHand(poll'[o]) /\ poll'[o].request = poll[o].request
             /\ poll'[o].last = poll[o].last /\ poll[o].running
  BY <1>1, <1>2 DEF TableInv, PollsInOrder
<1>3. ASSUME NEW o \in Poller, poll'[o].running
      PROVE  RowsInHand(poll[o])'
  BY <1>2, <1>3 DEF RowsInHand
<1>4. ASSUME NEW o \in Poller, poll'[o].running
      PROVE  (Own(poll[o].request.connector) => ReadUpTo(poll[o].request.table, poll[o].last))'
  <2>1. Own(poll[o].request.connector) => ReadUpTo(poll[o].request.table, poll[o].last)
    BY <1>2, <1>4 DEF TableInv, PollsInOrder
  <2>2. QED
    BY <1>2, <1>4, <2>1 DEF ReadUpTo, Own
<1>5. QED
  BY <1>3, <1>4 DEF PollsInOrder

LEMMA RefuseTableInv ==
  ASSUME TableInv, NEW p \in Poller, RefuseRow(p)
  PROVE  TableInv'
<1>1. PICK q : q = [poll[p] EXCEPT !.rows = {}]
  OBVIOUS
<1>2. /\ UNCHANGED <<begun, committed, watermark, queued, rejected, late>>
      /\ poll' = [poll EXCEPT ![p] = q] /\ poll[p].running
  BY <1>1 DEF RefuseRow
<1>3. poll[p] \in TablePollShape
  BY <1>2, RunningShape DEF TableInv
<1>4. /\ q \in TablePollShape /\ q.request = poll[p].request /\ q.last = poll[p].last
      /\ q.rows = {}
  BY <1>1, <1>3 DEF TablePollShape
<1>5. RowsInHand(q)
  BY <1>4 DEF RowsInHand
<1>6. TableTypeOK'
  BY <1>2, <1>4 DEF TableInv, TableTypeOK
<1>7. PollsInOrder'
  BY <1>2, <1>4, <1>5, OtherPollsKept
<1>8. CheckpointsInOrder'
  BY <1>2, ReadKept DEF TableInv, CheckpointsInOrder, Own
<1>9. QED
  BY <1>6, <1>7, <1>8 DEF TableInv

\* set_checkpoint: a request under an id of its own table names the poll's table.
LEMMA SaveTableInv ==
  ASSUME TableInv, NEW p \in Poller, SaveWatermark(p)
  PROVE  TableInv'
<1>1. /\ UNCHANGED <<begun, committed, queued, rejected, late>>
      /\ poll' = [poll EXCEPT ![p] = NoTablePoll] /\ poll[p].running
      /\ watermark' = watermark
           \/ watermark' = [watermark EXCEPT ![poll[p].request.connector] = poll[p].last]
  BY DEF SaveWatermark
<1>2. /\ poll[p].request \in PollRequest /\ poll[p].last \in Nat
  BY <1>1, RunningShape DEF TableInv
<1>3. TableTypeOK'
  BY <1>1, <1>2 DEF TableInv, TableTypeOK, ConnectorId
<1>4. ~NoTablePoll.running
  BY DEF NoTablePoll
<1>5. PollsInOrder'
  BY <1>1, <1>4, OtherPollsKept
<1>6. ASSUME NEW r \in PollRequest, Own(r.connector)
      PROVE  ReadUpTo(r.table, watermark[r.connector])'
  <2> DEFINE n == watermark'[r.connector]
  <2>1. ReadUpTo(r.table, n)
    <3>1. r.connector \in ConnectorId
      BY DEF ConnectorId
    <3>2. CASE n = watermark[r.connector]
      BY <1>6, <3>2 DEF TableInv, CheckpointsInOrder
    <3>3. CASE n # watermark[r.connector]
      <4>1. r.connector = poll[p].request.connector /\ n = poll[p].last
        BY <1>1, <3>1, <3>3 DEF TableInv, TableTypeOK
      <4>2. r.table = poll[p].request.table
        BY <1>2, <1>6, <4>1 DEF Own
      <4>3. QED
        BY <1>1, <1>6, <4>1, <4>2 DEF TableInv, PollsInOrder
    <3>4. QED
      BY <3>2, <3>3
  <2>2. QED
    BY <1>1, <2>1 DEF ReadUpTo
<1>7. QED
  BY <1>3, <1>5, <1>6 DEF TableInv, CheckpointsInOrder, Own

LEMMA QuietTableInv ==
  ASSUME TableInv, UNCHANGED <<committed, watermark, queued, rejected, late>>,
         TableTypeOK', poll' = poll \/ \A p \in Poller : poll'[p] = NoTablePoll
  PROVE  TableInv'
<1>1. CheckpointsInOrder'
  BY ReadKept DEF TableInv, CheckpointsInOrder, Own
<1>2. CASE poll' = poll
  BY <1>1, <1>2 DEF TableInv, PollsInOrder, RowsInHand, ReadUpTo, Own
<1>3. CASE \A p \in Poller : poll'[p] = NoTablePoll
  BY <1>1, <1>3 DEF TableInv, PollsInOrder, NoTablePoll
<1>4. QED
  BY <1>1, <1>2, <1>3 DEF TableInv

LEMMA InsertTableInv ==
  ASSUME TableInv, NEW t \in Table, Insert(t)
  PROVE  TableInv'
<1>1. PICK n \in Nat : begun[t] = 1..n /\ committed[t] \subseteq 1..n
  BY DEF TableInv, TableTypeOK
<1>2. Cardinality(begun[t]) = n
  BY <1>1, FS_Interval
<1>3. /\ begun' = [begun EXCEPT ![t] = 1..(n + 1)]
      /\ UNCHANGED <<committed, watermark, poll, queued, rejected, late>>
  <2>1. (1..n) \cup {n + 1} = 1..(n + 1)
    OBVIOUS
  <2>2. QED
    BY <1>1, <1>2, <2>1 DEF Insert
<1>4. TableTypeOK'
  BY <1>1, <1>3 DEF TableInv, TableTypeOK
<1>5. QED
  BY <1>3, <1>4, QuietTableInv

LEMMA StopTableInv ==
  ASSUME TableInv, StopPolls
  PROVE  TableInv'
<1>1. TableTypeOK'
  BY DEF StopPolls, TableInv, TableTypeOK
<1>2. QED
  BY <1>1, QuietTableInv DEF StopPolls

\* The invariant of the watermark, with any number of polls of any tables under
\* any ids at once, refusals, crashes, and writers that commit in any order.
THEOREM TablePollsInductive == TableSpec => []TableInv
<1>1. TableInit => TableInv
  <2> SUFFICES ASSUME TableInit PROVE TableInv
    OBVIOUS
  <2>1. TableTypeOK
    BY DEF TableInit, TableTypeOK
  <2>2. CheckpointsInOrder /\ PollsInOrder
    <3>1. \A r \in PollRequest : r.table \in Table /\ r.connector \in ConnectorId
      BY TableAssumption DEF ConnectorId
    <3>2. QED
      BY <3>1 DEF TableInit, CheckpointsInOrder, PollsInOrder, ReadUpTo, NoTablePoll
  <2>3. QED
    BY <2>1, <2>2 DEF TableInv
<1>2. TableInv /\ [TableNext]_tableVars => TableInv'
  <2> SUFFICES ASSUME TableInv, [TableNext]_tableVars PROVE TableInv'
    OBVIOUS
  <2>1. CASE TableNext
    BY <2>1, InsertTableInv, CommitTableInv, SelectTableInv, PublishTableInv, RefuseTableInv,
       SaveTableInv, StopTableInv DEF TableNext
  <2>2. CASE UNCHANGED tableVars
    <3>1. TableTypeOK'
      BY <2>2 DEF tableVars, TableInv, TableTypeOK
    <3>2. QED
      BY <2>2, <3>1, QuietTableInv DEF tableVars
  <2>3. QED
    BY <2>1, <2>2
<1>3. QED
  BY <1>1, <1>2, PTL DEF TableSpec

\* A checkpoint that belongs to one table stands past no row of it that the
\* pipeline did not get, but for rows that became visible out of order.
THEOREM InOrderRowsArrive == TableSpec => []NoRowInOrderIsPassedOver
<1>1. TableInv => NoRowInOrderIsPassedOver
  <2> SUFFICES ASSUME TableInv, NEW r \in PollRequest, Own(r.connector),
                      NEW id \in PassedOver(r)
               PROVE  <<r.table, id>> \in late
    BY DEF NoRowInOrderIsPassedOver
  <2>1. /\ id \in committed[r.table] /\ id \in 1..watermark[r.connector]
        /\ <<r.table, id>> \notin queued \cup rejected
    BY DEF PassedOver
  <2>2. id <= watermark[r.connector]
    BY <2>1
  <2>3. QED
    BY <2>1, <2>2 DEF TableInv, CheckpointsInOrder, ReadUpTo
<1>2. QED
  BY <1>1, TablePollsInductive, PTL

-----------------------------------------------------------------------------
(* CardHistory, for any messages whose identifiers each name one card, any   *)
(* salts and any number of handlers.  Every key a row of the trail is filed  *)
(* under is a digest of its card's identity, and every key the gate asks for *)
(* is one as well, or, behind the ingestion boundary, a digest of a digest.  *)

Salts == Salt \cup {NoSalt}

Redigests(m) == [prefix: {"tok_"}, salt: Salts, of: Digests(m)]

\* What the boundary makes of a message keeps its token, and loses the PAN
\* or has it replaced by its digest.
ComesFrom(event, msg) ==
    /\ event.token = msg.token
    /\ event.pan \in {msg.pan, NoPan}
    /\ event.card_key \in {msg.card_key} \cup Digests(msg)

Filed == \A r \in trail : \E m \in CardMessage : m.card = r.card /\ r.key \in Digests(m) \cup {NoKey}

CardInv ==
    /\ salt \in Salts /\ DOMAIN payment = Handler
    /\ Filed
    /\ \A q \in waiting : q.msg \in CardMessage /\ ComesFrom(q.event, q.msg)
    /\ \A d \in Handler : payment[d] # NoPayment => payment[d].msg \in CardMessage
    /\ HistoryIsThisCards

LEMMA KeyIsDigest ==
  ASSUME salt \in Salts, NEW msg \in CardMessage, NEW event, ComesFrom(event, msg)
  PROVE  card_key(event) \in Digests(msg) \cup Redigests(msg) \cup {NoKey}
<1>1. CASE event.token # NoToken
  <2>1. event.token \in Tokens(msg)
    BY <1>1 DEF ComesFrom, Tokens
  <2>2. card_key(event) = [prefix |-> "tok_", salt |-> salt, of |-> event.token]
    BY <1>1 DEF card_key, _hash
  <2>3. QED
    BY <2>1, <2>2 DEF Digests, Salts
<1>2. CASE event.token = NoToken /\ event.card_key # NoKey
  <2>1. card_key(event) = [prefix |-> "tok_", salt |-> salt, of |-> event.card_key]
    BY <1>2 DEF card_key, _hash
  <2>2. CASE event.card_key \in Digests(msg)
    BY <2>1, <2>2 DEF Redigests
  <2>3. CASE event.card_key = msg.card_key
    <3>1. event.card_key \in Tokens(msg)
      BY <1>2, <2>3 DEF Tokens
    <3>2. QED
      BY <2>1, <3>1 DEF Digests, Salts
  <2>4. QED
    BY <2>2, <2>3 DEF ComesFrom
<1>3. CASE event.token = NoToken /\ event.card_key = NoKey /\ event.pan # NoPan /\ salt # NoSalt
  <2>1. card_key(event) = [prefix |-> "pan_", salt |-> salt, of |-> event.pan]
    BY <1>3 DEF card_key, _hash
  <2>2. event.pan \in {msg.pan} \ {NoPan}
    BY <1>3 DEF ComesFrom
  <2>3. QED
    BY <2>1, <2>2 DEF Digests, Salts
<1>4. QED
  BY <1>1, <1>2, <1>3 DEF card_key

\* The key /authorize files a row under: nothing has been hashed before.
LEMMA OwnKeyIsDigest ==
  ASSUME salt \in Salts, NEW msg \in CardMessage
  PROVE  card_key(msg) \in Digests(msg) \cup {NoKey}
<1>1. CASE msg.token # NoToken
  BY <1>1 DEF card_key, _hash, Tokens, Digests, Salts
<1>2. CASE msg.token = NoToken /\ msg.card_key # NoKey
  BY <1>2 DEF card_key, _hash, Tokens, Digests, Salts
<1>3. CASE msg.token = NoToken /\ msg.card_key = NoKey
  BY <1>3 DEF card_key, _hash, Digests, Salts
<1>4. QED
  BY <1>1, <1>2, <1>3

LEMMA BoundaryKeepsIdentity ==
  ASSUME salt \in Salts, NEW msg \in CardMessage
  PROVE  ComesFrom(msg, msg) /\ ComesFrom(validate_event(msg).event, msg)
<1>1. ComesFrom(msg, msg)
  BY DEF ComesFrom
<1>2. validate_event(msg).event = Stripped(msg)
  BY DEF validate_event
<1>3. CASE msg.pan = NoPan
  BY <1>1, <1>2, <1>3 DEF Stripped
<1>4. CASE msg.pan # NoPan
  <2>1. PICK k : k = IF card_key(msg) = NoKey THEN msg.card_key ELSE card_key(msg)
    OBVIOUS
  <2>2. Stripped(msg) = [msg EXCEPT !.pan = NoPan, !.card_key = k]
    BY <1>4, <2>1 DEF Stripped
  <2>3. msg = [arn |-> msg.arn, card |-> msg.card, token |-> msg.token, pan |-> msg.pan,
               card_key |-> msg.card_key, amount |-> msg.amount]
    BY CardHistoryAssumption
  <2>4. /\ Stripped(msg).token = msg.token /\ Stripped(msg).pan = NoPan
        /\ Stripped(msg).card_key = k
    BY <2>2, <2>3
  <2>5. k \in {msg.card_key} \cup Digests(msg)
    BY <2>1, OwnKeyIsDigest
  <2>6. QED
    BY <1>1, <1>2, <2>4, <2>5 DEF ComesFrom
<1>5. QED
  BY <1>3, <1>4

\* Two messages that share a key are of one card.
LEMMA SharedKeySharedCard ==
  ASSUME NEW m \in CardMessage, NEW n \in CardMessage, NEW k \in Digests(m),
         k \in Digests(n) \cup Redigests(n)
  PROVE  m.card = n.card
<1>1. CASE k.prefix = "pan_"
  <2>1. k.of \in {m.pan} \ {NoPan}
    BY <1>1 DEF Digests
  <2>2. k.of \in {n.pan} \ {NoPan}
    BY <1>1 DEF Digests, Redigests
  <2>3. QED
    BY <2>1, <2>2, CardIdentityAssumption
<1>2. CASE k.prefix = "tok_"
  <2>1. k.of \in Tokens(m)
    BY <1>2 DEF Digests
  <2>2. k.of \in Tokens(n) \cup Digests(n)
    BY <1>2 DEF Digests, Redigests
  <2>3. QED
    BY <2>1, <2>2, CardIdentityAssumption
<1>3. k.prefix \in {"pan_", "tok_"}
  BY DEF Digests
<1>4. QED
  BY <1>1, <1>2, <1>3

\* The gate is shown rows of the payment's own card.
LEMMA WindowIsThisCards ==
  ASSUME CardInv, NEW msg \in CardMessage, NEW event, ComesFrom(event, msg),
         NEW r \in sequence_view(card_key(event))
  PROVE  r.card = msg.card
<1>1. r \in trail /\ r.key = card_key(event) /\ card_key(event) # NoKey
  BY DEF sequence_view
<1>2. PICK m \in CardMessage : m.card = r.card /\ r.key \in Digests(m)
  BY <1>1 DEF CardInv, Filed
<1>3. r.key \in Digests(msg) \cup Redigests(msg)
  BY <1>1, KeyIsDigest DEF CardInv
<1>4. QED
  BY <1>2, <1>3, SharedKeySharedCard

LEMMA TakeCardInv ==
  ASSUME CardInv, NEW d \in Handler, NEW door, NEW msg \in CardMessage, NEW key, NEW seen,
         Take(d, door, msg, key, seen), \A r \in seen : r.card = msg.card,
         waiting' \subseteq waiting
  PROVE  CardInv'
<1>1. PICK q : q = [door |-> door, msg |-> msg, key |-> key, seen |-> seen]
  OBVIOUS
<1>2. /\ payment' = [payment EXCEPT ![d] = q] /\ UNCHANGED <<trail, salt, tick>>
      /\ q.msg = msg /\ q.seen = seen
  BY <1>1 DEF Take
<1>3. DOMAIN payment' = Handler /\ \A o \in Handler : payment'[o] = IF o = d THEN q ELSE payment[o]
  BY <1>2 DEF CardInv
<1>4. Filed'
  BY <1>2 DEF CardInv, Filed, Digests
<1>5. \A w \in waiting' : w.msg \in CardMessage /\ ComesFrom(w.event, w.msg)
  BY DEF CardInv
<1>6. \A o \in Handler : payment'[o] # NoPayment => payment'[o].msg \in CardMessage
  BY <1>2, <1>3 DEF CardInv
<1>7. HistoryIsThisCards'
  BY <1>2, <1>3 DEF CardInv, HistoryIsThisCards
<1>8. salt' \in Salts
  BY <1>2 DEF CardInv
<1>9. QED
  BY <1>3, <1>4, <1>5, <1>6, <1>7, <1>8 DEF CardInv, ComesFrom

LEMMA GateCardInv ==
  ASSUME CardInv, NEW d \in Handler, NEW door, NEW msg \in CardMessage, NEW event,
         ComesFrom(event, msg), Gate(d, door, msg, event), waiting' \subseteq waiting
  PROVE  CardInv'
BY WindowIsThisCards, TakeCardInv DEF Gate

LEMMA DoorsCardInv ==
  ASSUME CardInv, NEW d \in Handler, NEW msg \in CardMessage,
         AuthorizeCard(d, msg) \/ ScoreCard(d, msg) \/ IngestCard(d, msg)
  PROVE  CardInv'
<1>1. ComesFrom(msg, msg) /\ ComesFrom(validate_event(msg).event, msg)
  BY BoundaryKeepsIdentity DEF CardInv
<1>2. waiting' \subseteq waiting
  BY DEF AuthorizeCard, ScoreCard, IngestCard
<1>3. CASE Take(d, "authorize", msg, card_key(msg), {})
  BY <1>2, <1>3, TakeCardInv
<1>4. CASE Gate(d, "authorize", msg, msg) \/ Gate(d, "score", msg, msg)
  BY <1>1, <1>2, <1>4, GateCardInv
<1>5. CASE Gate(d, "ingest", msg, validate_event(msg).event)
  BY <1>1, <1>2, <1>5, GateCardInv
<1>6. QED
  BY <1>3, <1>4, <1>5 DEF AuthorizeCard, ScoreCard, IngestCard

LEMMA ConsumeCardInv ==
  ASSUME CardInv, NEW d \in Handler, ConsumeCard(d)
  PROVE  CardInv'
<1>1. PICK q \in waiting : Gate(d, "ingest", q.msg, q.event) /\ waiting' = waiting \ {q}
  BY DEF ConsumeCard
<1>2. q.msg \in CardMessage /\ ComesFrom(q.event, q.msg)
  BY DEF CardInv
<1>3. QED
  BY <1>1, <1>2, GateCardInv

LEMMA PublishCardInv ==
  ASSUME CardInv, NEW msg \in CardMessage, PublishCard(msg)
  PROVE  CardInv'
<1>1. PICK event : event = validate_event(msg).event
  OBVIOUS
<1>2. /\ waiting' = waiting \cup {[msg |-> msg, event |-> event]}
      /\ UNCHANGED <<trail, payment, salt, tick>>
  BY <1>1 DEF PublishCard
<1>3. ComesFrom(event, msg)
  BY <1>1, BoundaryKeepsIdentity DEF CardInv
<1>4. \A w \in waiting' : w.msg \in CardMessage /\ ComesFrom(w.event, w.msg)
  BY <1>2, <1>3 DEF CardInv
<1>5. Filed' /\ HistoryIsThisCards'
  BY <1>2 DEF CardInv, Filed, Digests, HistoryIsThisCards
<1>6. QED
  BY <1>2, <1>4, <1>5 DEF CardInv, ComesFrom

LEMMA FreedCardInv ==
  ASSUME CardInv, Filed', salt' \in Salts, UNCHANGED waiting, DOMAIN payment' = Handler,
         \A d \in Handler : payment'[d] \in {payment[d], NoPayment}
  PROVE  CardInv'
BY DEF CardInv, HistoryIsThisCards, ComesFrom, Digests

LEMMA PersistCardInv ==
  ASSUME CardInv, NEW d \in Handler, PersistAuthorization(d)
  PROVE  CardInv'
<1>1. PICK m : m = payment[d].msg
  OBVIOUS
<1>2. PICK row : row = [id |-> m.arn, card |-> m.card, key |-> card_key(m), ts |-> tick]
  OBVIOUS
<1>3. /\ trail' \subseteq trail \cup {row} /\ UNCHANGED <<waiting, salt>>
      /\ payment' = [payment EXCEPT ![d] = NoPayment] /\ payment[d].door = "authorize"
  BY <1>1, <1>2 DEF PersistAuthorization
<1>4. m \in CardMessage
  BY <1>1, <1>3 DEF CardInv, NoPayment
<1>5. m.card = row.card /\ row.key \in Digests(m) \cup {NoKey}
  BY <1>2, <1>4, OwnKeyIsDigest DEF CardInv
<1>6. Filed'
  BY <1>3, <1>4, <1>5 DEF CardInv, Filed, Digests
<1>7. DOMAIN payment' = Handler /\ \A o \in Handler : payment'[o] \in {payment[o], NoPayment}
  BY <1>3 DEF CardInv
<1>8. QED
  BY <1>3, <1>6, <1>7, FreedCardInv DEF CardInv

\* The invariant of the trail, the queue and the payments in hand, through
\* every door and through changes of the salt.
THEOREM CardInductive == CardSpec => []CardInv
<1>1. CardInit => CardInv
  BY DEF CardInit, CardInv, Filed, HistoryIsThisCards, Salts
<1>2. CardInv /\ [CardNext]_cardVars => CardInv'
  <2> SUFFICES ASSUME CardInv, [CardNext]_cardVars PROVE CardInv'
    OBVIOUS
  <2>1. CASE \E d \in Handler : Answered(d)
    <3>1. PICK d \in Handler : Answered(d)
      BY <2>1
    <3>2. DOMAIN payment' = Handler /\ \A o \in Handler : payment'[o] \in {payment[o], NoPayment}
      BY <3>1 DEF Answered, CardInv
    <3>3. Filed' /\ salt' \in Salts /\ UNCHANGED waiting
      BY <3>1 DEF Answered, CardInv, Filed, Digests
    <3>4. QED
      BY <3>2, <3>3, FreedCardInv
  <2>2. CASE NextTick \/ RestartSalt \/ UNCHANGED cardVars
    <3>1. DOMAIN payment' = Handler /\ \A o \in Handler : payment'[o] \in {payment[o], NoPayment}
      BY <2>2 DEF NextTick, RestartSalt, cardVars, CardInv
    <3>2. Filed' /\ salt' \in Salts /\ UNCHANGED waiting
      BY <2>2 DEF NextTick, RestartSalt, cardVars, CardInv, Filed, Digests, Salts
    <3>3. QED
      BY <3>1, <3>2, FreedCardInv
  <2>3. QED
    BY <2>1, <2>2, DoorsCardInv, PublishCardInv, ConsumeCardInv, PersistCardInv DEF CardNext
<1>3. QED
  BY <1>1, <1>2, PTL DEF CardSpec

\* The window the sequence gate reads holds authorizations of the payment's own
\* card: through every door, whatever the message carried and whichever salt a
\* key was hashed with, before a restart or after it.
THEOREM NoOtherCardsHistory == CardSpec => []HistoryIsThisCards
<1>1. CardInv => HistoryIsThisCards
  BY DEF CardInv
<1>2. QED
  BY <1>1, CardInductive, PTL

-----------------------------------------------------------------------------
(* GraphTables, for any number of scoring threads and refreshes: half way    *)
(* through a refresh of the graph context the tables are of two loads, but   *)
(* the lock is held from the first to the last, and a lookup that has begun  *)
(* keeps the refresh out, so the table it reads next is of the same load.    *)

Context == tables["graph_features"]

SwappingContext == refresh.pc = "swapping" /\ refresh.store = "graph_features"

RefreshShape ==
    [pc: {"asleep", "loading", "dead"}, load: Nat \ {0}]
        \cup [pc: {"swapping"}, store: Store, table: 1..6, cleared: BOOLEAN, load: Nat \ {0}]

GraphTypeOK ==
    /\ refresh \in RefreshShape
    /\ DOMAIN tables = Store /\ Context \in [1..6 -> Nat]
    /\ DOMAIN looked_up = Scorer
    /\ \A w \in Scorer :
          LET seen == looked_up[w].graph_features
          IN  /\ seen \in Seq(Nat)
              /\ looked_up[w].pc \in {"idle", "gnn_lite"} => seen = <<>>
              /\ looked_up[w].pc = "graph_features" => Len(seen) <= 5

\* The tables already swapped, the one in hand, and those of the load before.
HalfSwapped(old) ==
    \A t \in 1..6 :
        Context[t] = IF ~SwappingContext THEN old
                     ELSE IF t < refresh.table THEN refresh.load
                     ELSE IF t = refresh.table /\ refresh.cleared THEN 0 ELSE old

LookupsShareLoad ==
    \A w \in Reading :
        LET seen == looked_up[w].graph_features
        IN  ~Locked("graph_features") /\ \A t \in DOMAIN seen : seen[t] = Context[1]

GraphInv ==
    /\ GraphTypeOK
    /\ \E old \in Nat \ {0} : HalfSwapped(old)
    /\ LookupsShareLoad
    /\ ContextFromOneSnapshot

\* The fields a refresh in progress has.
LEMMA SwapFields ==
  ASSUME refresh \in RefreshShape, refresh.pc = "swapping"
  PROVE  /\ refresh.store \in Store /\ refresh.table \in 1..6 /\ refresh.cleared \in BOOLEAN
         /\ refresh.load \in Nat \ {0}
         /\ refresh = [pc |-> "swapping", store |-> refresh.store, table |-> refresh.table,
                       cleared |-> refresh.cleared, load |-> refresh.load]
BY DEF RefreshShape

LEMMA UnlockedIsOneLoad ==
  ASSUME GraphInv, ~Locked("graph_features")
  PROVE  \E n \in Nat \ {0} : \A t \in 1..6 : Context[t] = n
<1>1. PICK old \in Nat \ {0} : HalfSwapped(old)
  BY DEF GraphInv
<1>2. CASE SwappingContext
  <2>1. refresh.table \in 1..6 /\ ~(refresh.table > 1) /\ ~refresh.cleared
    BY <1>2, SwapFields DEF GraphInv, GraphTypeOK, Locked, SwappingContext
  <2>2. refresh.table = 1
    BY <2>1
  <2>3. \A t \in 1..6 : ~(t < refresh.table)
    BY <2>2
  <2>4. QED
    BY <1>1, <1>2, <2>1, <2>3 DEF HalfSwapped
<1>3. CASE ~SwappingContext
  BY <1>1, <1>3 DEF HalfSwapped
<1>4. QED
  BY <1>2, <1>3

LEMMA ContextLength ==
  ASSUME Context \in [1..6 -> Nat]
  PROVE  Len(Context) = 6
<1>1. Context \in Seq(Nat)
  BY SeqDef
<1>2. DOMAIN Context = 1..Len(Context) /\ Len(Context) \in Nat /\ DOMAIN Context = 1..6
  BY <1>1, LenProperties
<1>3. QED
  BY <1>2

LEMMA ReadContextGraphInv ==
  ASSUME GraphInv, NEW w \in Scorer, ReadContext(w)
  PROVE  GraphInv'
<1>0. PICK seen, n, after, q :
         /\ seen = looked_up[w].graph_features /\ n = Len(seen)
         /\ after = Seen(seen, "graph_features")
         /\ q = [pc |-> After(seen, "graph_features", "scored"),
                 gnn_lite |-> looked_up[w].gnn_lite, graph_features |-> after]
  OBVIOUS
<1>1. /\ looked_up[w].pc = "graph_features" /\ ~Locked("graph_features") /\ Reading \subseteq {w}
      /\ looked_up' = [looked_up EXCEPT ![w] = q]
      /\ UNCHANGED <<csv, ingests, refresh, tables>>
  BY <1>0 DEF ReadContext
<1>2. PICK load \in Nat \ {0} : \A t \in 1..6 : Context[t] = load
  BY <1>1, UnlockedIsOneLoad
<1>3. seen \in Seq(Nat) /\ n \in 0..5
  <2>1. seen \in Seq(Nat) /\ n <= 5
    BY <1>0, <1>1 DEF GraphInv, GraphTypeOK
  <2>2. n \in Nat
    BY <1>0, <2>1, LenProperties
  <2>3. QED
    BY <2>1, <2>2
<1>4. after = Append(seen, load) /\ n + 1 \in 1..6
  <2>1. n + 1 \in 1..6
    BY <1>3
  <2>2. QED
    BY <1>0, <1>2, <2>1 DEF Seen, Context
<1>5. /\ after \in Seq(Nat) /\ Len(after) = n + 1 /\ DOMAIN after = 1..(n + 1)
      /\ \A t \in 1..n : after[t] = seen[t]
      /\ after[n + 1] = load /\ DOMAIN seen = 1..n
  <2>1. load \in Nat
    OBVIOUS
  <2>2. /\ after \in Seq(Nat) /\ Len(after) = n + 1
        /\ \A t \in 1..n : after[t] = seen[t]
        /\ after[n + 1] = load
    <3>1. /\ Append(seen, load) \in Seq(Nat) /\ Len(Append(seen, load)) = Len(seen) + 1
          /\ \A t \in 1..Len(seen) : Append(seen, load)[t] = seen[t]
          /\ Append(seen, load)[Len(seen) + 1] = load
      BY <1>3, <2>1, AppendProperties
    <3>2. QED
      BY <1>0, <1>4, <3>1
  <2>3. DOMAIN after = 1..(n + 1) /\ DOMAIN seen = 1..n
    BY <1>0, <1>3, <2>2, LenProperties
  <2>4. QED
    BY <2>2, <2>3
<1>6. \A t \in DOMAIN after : after[t] = load
  <2>1. \A t \in 1..n : seen[t] = load
    <3>1. CASE n = 0
      BY <3>1
    <3>2. CASE n # 0
      <4>1. seen # <<>>
        BY <1>0, <3>2
      <4>2. w \in Reading
        BY <1>0, <1>1, <4>1 DEF Reading
      <4>3. \A t \in DOMAIN seen : seen[t] = Context[1]
        BY <1>0, <4>2 DEF GraphInv, LookupsShareLoad
      <4>4. 1 \in 1..6
        OBVIOUS
      <4>5. Context[1] = load
        BY <1>2, <4>4
      <4>6. QED
        BY <1>5, <4>3, <4>5
    <3>3. QED
      BY <3>1, <3>2
  <2>2. \A t \in 1..(n + 1) : t \in 1..n \/ t = n + 1
    BY <1>3
  <2>3. QED
    BY <1>5, <2>1, <2>2
<1>7. q.pc = "graph_features" => Len(after) <= 5
  <2>1. Len(tables["graph_features"]) = 6
    BY ContextLength DEF GraphInv, GraphTypeOK, Context
  <2>2. q.pc = After(seen, "graph_features", "scored")
    BY <1>0
  <2>3. q.pc = "graph_features" => n + 1 \in 1..5
    BY <1>0, <2>1, <2>2 DEF After
  <2>4. QED
    BY <1>5, <2>3
<1>8. q.pc \in {"graph_features", "scored"} /\ q.graph_features = after
  BY <1>0 DEF After
<1>9. DOMAIN looked_up' = Scorer
      /\ \A o \in Scorer : looked_up'[o] = IF o = w THEN q ELSE looked_up[o]
  BY <1>1 DEF GraphInv, GraphTypeOK
<1>10. GraphTypeOK'
  BY <1>1, <1>5, <1>7, <1>8, <1>9 DEF GraphInv, GraphTypeOK, Context
<1>11. \E old \in Nat \ {0} : HalfSwapped(old)'
  BY <1>1 DEF GraphInv, HalfSwapped, Context, SwappingContext
<1>12. LookupsShareLoad'
  <2>1. Reading' \subseteq {w}
    BY <1>1, <1>9 DEF Reading
  <2>2. ~Locked("graph_features")'
    BY <1>1 DEF Locked
  <2>3. 1 \in 1..6
    OBVIOUS
  <2>4. Context'[1] = load
    BY <1>1, <1>2, <2>3 DEF Context
  <2>5. QED
    BY <1>6, <1>8, <1>9, <2>1, <2>2, <2>4 DEF LookupsShareLoad
<1>13. ContextFromOneSnapshot'
  BY <1>6, <1>8, <1>9 DEF GraphInv, ContextFromOneSnapshot, OneLoad
<1>14. QED
  BY <1>10, <1>11, <1>12, <1>13 DEF GraphInv

\* The refresh's own steps run with nobody reading the context.
LEMMA SwapGraphInv ==
  ASSUME GraphInv, Swap
  PROVE  GraphInv'
<1>0. PICK s, t, v, load : /\ s = refresh.store /\ t = refresh.table /\ load = refresh.load
                           /\ v = IF refresh.cleared THEN refresh.load ELSE 0
  OBVIOUS
<1>1. /\ refresh.pc = "swapping" /\ Granted(s) /\ UNCHANGED <<csv, ingests, looked_up>>
      /\ tables' = [tables EXCEPT ![s][t] = v]
      /\ refresh' = IF ~refresh.cleared THEN Swapping(s, load, t, TRUE)
                    ELSE IF t + 1 \in Tables[s]
                    THEN Swapping(s, load, t + 1, FALSE)
                    ELSE Done(s)
      /\ Done(s) = [pc |-> IF s = "graph_features" THEN "loading" ELSE "asleep", load |-> load]
  BY <1>0 DEF Swap, Done
<1>2. /\ s \in Store /\ t \in 1..6 /\ refresh.cleared \in BOOLEAN /\ load \in Nat \ {0}
  BY <1>0, <1>1, SwapFields DEF GraphInv, GraphTypeOK
<1>3. PICK old \in Nat \ {0} : HalfSwapped(old)
  BY DEF GraphInv
<1>4. CASE s = "gnn_lite"
  <2>1. DOMAIN tables' = Store /\ Context' = Context
    BY <1>1, <1>4 DEF GraphInv, GraphTypeOK, Context, Store
  <2>2. refresh' \in RefreshShape /\ ~SwappingContext' /\ ~SwappingContext
    <3>1. ~SwappingContext
      BY <1>0, <1>4 DEF SwappingContext
    <3>2. \/ refresh' = Swapping(s, load, t, TRUE)
          \/ t + 1 \in 1..6 /\ refresh' = Swapping(s, load, t + 1, FALSE)
          \/ refresh' = [pc |-> "asleep", load |-> load]
      <4>1. Tables[s] = 1..5
        BY <1>4 DEF Tables, Store
      <4>2. t + 1 \in Tables[s] => t + 1 \in 1..6
        BY <1>2, <4>1
      <4>3. Done(s) = [pc |-> "asleep", load |-> load]
        BY <1>1, <1>4
      <4>4. QED
        BY <1>1, <4>2, <4>3
    <3>3. ASSUME NEW k \in 1..6, NEW c \in BOOLEAN
          PROVE  Swapping(s, load, k, c) \in RefreshShape /\ Swapping(s, load, k, c).store = s
      BY <1>2 DEF Swapping, RefreshShape
    <3>4. [pc |-> "asleep", load |-> load] \in RefreshShape
      BY <1>2 DEF RefreshShape
    <3>5. refresh' \in RefreshShape /\ (refresh'.pc = "asleep" \/ refresh'.store = s)
      <4>1. [pc |-> "asleep", load |-> load].pc = "asleep"
        OBVIOUS
      <4>2. ASSUME NEW k \in 1..6, NEW c \in BOOLEAN, refresh' = Swapping(s, load, k, c)
            PROVE  refresh' \in RefreshShape /\ refresh'.store = s
        BY <3>3, <4>2
      <4>3. QED
        BY <1>2, <3>2, <3>4, <4>1, <4>2
    <3>6. QED
      BY <1>4, <3>1, <3>5 DEF SwappingContext
  <2>3. GraphTypeOK'
    BY <1>1, <2>1, <2>2 DEF GraphInv, GraphTypeOK
  <2>4. HalfSwapped(old)'
    BY <1>3, <2>1, <2>2 DEF HalfSwapped
  <2>5. ~Locked("graph_features")'
    BY <2>2 DEF Locked, SwappingContext
  <2>6. LookupsShareLoad' /\ ContextFromOneSnapshot'
    BY <1>1, <2>1, <2>5 DEF GraphInv, LookupsShareLoad, Reading, ContextFromOneSnapshot
  <2>7. QED
    BY <2>3, <2>4, <2>6 DEF GraphInv
<1>5. CASE s = "graph_features"
  <2>1. Reading = {} /\ Reading' = {}
    BY <1>1, <1>5 DEF Granted, Reading
  <2>2. /\ DOMAIN tables' = Store /\ Context' \in [1..6 -> Nat]
        /\ \A u \in 1..6 : Context'[u] = IF u = t THEN v ELSE Context[u]
    <3>1. v \in Nat
      BY <1>0, <1>2
    <3>2. DOMAIN tables' = Store /\ Context' = [Context EXCEPT ![t] = v]
      BY <1>1, <1>2, <1>5 DEF GraphInv, GraphTypeOK, Context
    <3>3. QED
      BY <1>2, <3>1, <3>2 DEF GraphInv, GraphTypeOK
  <2>3. SwappingContext
    BY <1>0, <1>1, <1>5 DEF SwappingContext
  <2>4. CASE ~refresh.cleared
    <3>1. refresh' = [pc |-> "swapping", store |-> s, table |-> t, cleared |-> TRUE,
                      load |-> load]
      BY <1>1, <2>4 DEF Swapping
    <3>2. refresh' \in RefreshShape /\ SwappingContext' /\ refresh'.table = t
          /\ refresh'.cleared /\ refresh'.load = load
      BY <1>2, <1>5, <3>1 DEF RefreshShape, SwappingContext
    <3>3. HalfSwapped(old)'
      BY <1>0, <1>2, <1>3, <2>2, <2>3, <2>4, <3>2 DEF HalfSwapped
    <3>4. QED
      BY <1>1, <2>1, <2>2, <3>2, <3>3
      DEF GraphInv, GraphTypeOK, LookupsShareLoad, ContextFromOneSnapshot
  <2>5. CASE refresh.cleared /\ t + 1 \in 1..6
    <3>1. refresh' = [pc |-> "swapping", store |-> s, table |-> t + 1, cleared |-> FALSE,
                      load |-> load]
      BY <1>1, <1>5, <2>5 DEF Tables, Store, Swapping
    <3>2. refresh' \in RefreshShape /\ SwappingContext' /\ refresh'.table = t + 1
          /\ ~refresh'.cleared /\ refresh'.load = load
      BY <1>2, <1>5, <2>5, <3>1 DEF RefreshShape, SwappingContext
    <3>3. HalfSwapped(old)'
      <4>1. ASSUME NEW u \in 1..6
            PROVE  Context'[u] = IF u < t + 1 THEN load ELSE old
        <5>1. CASE u = t
          BY <1>0, <1>2, <2>2, <2>5, <5>1
        <5>2. CASE u < t
          BY <1>0, <1>2, <1>3, <2>2, <2>3, <5>2 DEF HalfSwapped
        <5>3. CASE u > t
          BY <1>0, <1>2, <1>3, <2>2, <2>3, <5>3 DEF HalfSwapped
        <5>4. QED
          BY <1>2, <5>1, <5>2, <5>3
      <4>2. QED
        BY <3>2, <4>1 DEF HalfSwapped
    <3>4. QED
      BY <1>1, <2>1, <2>2, <3>2, <3>3
      DEF GraphInv, GraphTypeOK, LookupsShareLoad, ContextFromOneSnapshot
  <2>6. CASE refresh.cleared /\ t + 1 \notin 1..6
    <3>1. refresh' = [pc |-> "loading", load |-> load] /\ t = 6
      BY <1>1, <1>2, <1>5, <2>6 DEF Tables, Store
    <3>2. refresh' \in RefreshShape /\ ~SwappingContext'
      BY <1>2, <3>1 DEF RefreshShape, SwappingContext
    <3>3. HalfSwapped(load)'
      <4>1. ASSUME NEW u \in 1..6 PROVE Context'[u] = load
        <5>1. CASE u = t
          BY <1>0, <2>2, <2>6, <5>1
        <5>2. CASE u # t
          <6>1. u < t
            BY <3>1, <5>2
          <6>2. QED
            BY <1>0, <1>3, <2>2, <2>3, <5>2, <6>1 DEF HalfSwapped
        <5>3. QED
          BY <5>1, <5>2
      <4>2. QED
        BY <3>2, <4>1 DEF HalfSwapped
    <3>4. QED
      BY <1>1, <1>2, <2>1, <2>2, <3>2, <3>3
      DEF GraphInv, GraphTypeOK, LookupsShareLoad, ContextFromOneSnapshot
  <2>7. QED
    BY <1>2, <2>4, <2>5, <2>6
<1>6. QED
  BY <1>2, <1>4, <1>5 DEF Store

\* A refresh that begins, or is over before it begins, finds one load.
LEMMA LoadGraphInv ==
  ASSUME GraphInv, NEW s \in Store, Load(s)
  PROVE  GraphInv'
<1>0. PICK n : n = refresh.load
  OBVIOUS
<1>1. /\ refresh.pc \in {"asleep", "loading"} /\ UNCHANGED <<csv, ingests, tables, looked_up>>
      /\ \/ refresh' = Swapping(s, n + 1, 1, FALSE)
         \/ refresh' = [pc |-> IF s = "graph_features" THEN "loading" ELSE "dead", load |-> n]
  BY <1>0 DEF Load
<1>2. n \in Nat \ {0}
  BY <1>0 DEF GraphInv, GraphTypeOK, RefreshShape
<1>3. Swapping(s, n + 1, 1, FALSE) \in RefreshShape
  BY <1>2 DEF Swapping, RefreshShape
<1>4. [pc |-> IF s = "graph_features" THEN "loading" ELSE "dead", load |-> n] \in RefreshShape
  BY <1>2 DEF RefreshShape
<1>5. refresh' \in RefreshShape
  BY <1>1, <1>3, <1>4
<1>6. ~SwappingContext /\ ~Locked("graph_features")
  BY <1>1 DEF SwappingContext, Locked
<1>7. refresh'.pc = "swapping" => refresh'.table = 1 /\ ~refresh'.cleared
  BY <1>1 DEF Swapping
<1>8. PICK old \in Nat \ {0} : HalfSwapped(old)
  BY DEF GraphInv
<1>9. HalfSwapped(old)'
  <2>1. \A t \in 1..6 : Context[t] = old /\ ~(t < 1)
    BY <1>6, <1>8 DEF HalfSwapped
  <2>2. Context' = Context
    BY <1>1 DEF Context
  <2>3. QED
    BY <1>7, <2>1, <2>2 DEF HalfSwapped, SwappingContext
<1>10. ~Locked("graph_features")'
  BY <1>7 DEF Locked
<1>11. QED
  BY <1>1, <1>5, <1>9, <1>10
  DEF GraphInv, GraphTypeOK, Context, LookupsShareLoad, Reading, ContextFromOneSnapshot

\* A lookup that begins, ends, or reads Tier 2 has nothing of the context, or all.
LEMMA LookupGraphInv ==
  ASSUME GraphInv, NEW w \in Scorer, NEW q, looked_up' = [looked_up EXCEPT ![w] = q],
         UNCHANGED <<refresh, tables>>, q.graph_features = <<>>
  PROVE  GraphInv'
<1>1. /\ DOMAIN looked_up' = Scorer
      /\ \A o \in Scorer : looked_up'[o] = IF o = w THEN q ELSE looked_up[o]
  BY DEF GraphInv, GraphTypeOK
<1>2. <<>> \in Seq(Nat) /\ Len(<<>>) = 0 /\ DOMAIN <<>> = {}
  BY EmptySeq, LenProperties
<1>3. GraphTypeOK'
  <2>1. ASSUME NEW o \in Scorer
        PROVE  /\ looked_up'[o].graph_features \in Seq(Nat)
               /\ looked_up'[o].pc \in {"idle", "gnn_lite"} => looked_up'[o].graph_features = <<>>
               /\ looked_up'[o].pc = "graph_features" => Len(looked_up'[o].graph_features) <= 5
    <3>1. CASE o = w
      <4>1. looked_up'[o].graph_features = <<>>
        BY <1>1, <3>1
      <4>2. PICK seen : seen = looked_up'[o].graph_features
        OBVIOUS
      <4>3. seen = <<>> /\ seen \in Seq(Nat) /\ Len(seen) = 0
        BY Zenon, <1>2, <4>1, <4>2
      <4>4. Len(seen) <= 5
        BY <4>3
      <4>5. QED
        BY <4>2, <4>3, <4>4
    <3>2. CASE o # w
      BY <1>1, <3>2 DEF GraphInv, GraphTypeOK
    <3>3. QED
      BY <3>1, <3>2
  <2>2. QED
    BY <1>1, <2>1 DEF GraphInv, GraphTypeOK, Context
<1>4. Reading' \subseteq Reading /\ \A o \in Reading' : looked_up'[o] = looked_up[o]
  BY <1>1 DEF Reading
<1>5. LookupsShareLoad'
  BY <1>4 DEF GraphInv, LookupsShareLoad, Locked, Context
<1>6. ContextFromOneSnapshot'
  BY <1>1, <1>2 DEF GraphInv, ContextFromOneSnapshot, OneLoad
<1>7. (\E old \in Nat \ {0} : HalfSwapped(old))'
  BY DEF GraphInv, HalfSwapped, SwappingContext, Context
<1>8. QED
  BY <1>3, <1>5, <1>6, <1>7 DEF GraphInv

LEMMA RequestGraphInv ==
  ASSUME GraphInv, NEW w \in Scorer,
         (\E borderline \in BOOLEAN : Invoke(w, borderline)) \/ ReadTier2(w) \/ Respond(w)
  PROVE  GraphInv'
<1>1. CASE \E borderline \in BOOLEAN : Invoke(w, borderline)
  <2>1. PICK borderline \in BOOLEAN : Invoke(w, borderline)
    BY <1>1
  <2>2. PICK q : q = [Idle EXCEPT !.pc = IF borderline THEN "gnn_lite" ELSE "graph_features"]
    OBVIOUS
  <2>3. q.graph_features = <<>>
    BY <2>2 DEF Idle
  <2>4. QED
    BY <2>1, <2>2, <2>3, LookupGraphInv DEF Invoke
<1>2. CASE ReadTier2(w)
  <2>1. PICK q : /\ q.graph_features = looked_up[w].graph_features
                 /\ looked_up' = [looked_up EXCEPT ![w] = q]
    BY <1>2 DEF ReadTier2
  <2>2. q.graph_features = <<>>
    BY <1>2, <2>1 DEF ReadTier2, GraphInv, GraphTypeOK
  <2>3. QED
    BY <1>2, <2>1, <2>2, LookupGraphInv DEF ReadTier2
<1>3. CASE Respond(w)
  <2>1. Idle.graph_features = <<>>
    BY DEF Idle
  <2>2. QED
    BY <1>3, <2>1, LookupGraphInv DEF Respond
<1>4. QED
  BY <1>1, <1>2, <1>3

\* The invariant of the refresh and the lookups, for any schedule of the threads.
THEOREM GraphInductive == GraphSpec => []GraphInv
<1>1. GraphInit => GraphInv
  <2> SUFFICES ASSUME GraphInit PROVE GraphInv
    OBVIOUS
  <2>1. /\ refresh = [pc |-> "asleep", load |-> 1] /\ refresh \in RefreshShape
    BY DEF GraphInit, RefreshShape
  <2>2. DOMAIN tables = Store /\ Context \in [1..6 -> Nat] /\ \A t \in 1..6 : Context[t] = 1
    BY DEF GraphInit, Context, Tables, Store
  <2>3. /\ DOMAIN looked_up = Scorer
        /\ \A w \in Scorer : looked_up[w].graph_features = <<>> /\ looked_up[w].pc = "idle"
    BY DEF GraphInit, Idle
  <2>4. <<>> \in Seq(Nat) /\ DOMAIN <<>> = {}
    BY EmptySeq, LenProperties
  <2>5. GraphTypeOK
    BY <2>1, <2>2, <2>3, <2>4 DEF GraphTypeOK
  <2>6. HalfSwapped(1)
    BY <2>1, <2>2 DEF HalfSwapped, SwappingContext
  <2>7. LookupsShareLoad /\ ContextFromOneSnapshot
    BY <2>3, <2>4 DEF LookupsShareLoad, Reading, ContextFromOneSnapshot, OneLoad
  <2>8. QED
    BY <2>5, <2>6, <2>7 DEF GraphInv
<1>2. GraphInv /\ [GraphNext]_graphVars => GraphInv'
  <2> SUFFICES ASSUME GraphInv, [GraphNext]_graphVars PROVE GraphInv'
    OBVIOUS
  <2>1. CASE Truncate \/ Rewrite \/ UNCHANGED graphVars
    <3>1. UNCHANGED <<refresh, tables, looked_up>>
      BY <2>1 DEF Truncate, Rewrite, graphVars
    <3>2. QED
      BY <3>1 DEF GraphInv, GraphTypeOK, HalfSwapped, SwappingContext, Context,
                  LookupsShareLoad, Reading, Locked, ContextFromOneSnapshot
  <2>2. QED
    BY <2>1, SwapGraphInv, LoadGraphInv, ReadContextGraphInv, RequestGraphInv DEF GraphNext
<1>3. QED
  BY <1>1, <1>2, PTL DEF GraphSpec

\* An event's graph context comes from one load of the file: never from tables
\* half way through a refresh, and never from cleared ones.
THEOREM ContextIsOneLoad == GraphSpec => []ContextFromOneSnapshot
<1>1. GraphInv => ContextFromOneSnapshot
  BY DEF GraphInv
<1>2. QED
  BY <1>1, GraphInductive, PTL

-----------------------------------------------------------------------------
(* RateLimiter, for any budgets, capacity and number of callers.  What a     *)
(* bucket still grants, with what it granted from any remembered admission   *)
(* on, is no more than a full bucket and what was earned since.              *)

BucketsOK ==
    /\ ticks \in Nat
    /\ DOMAIN admitted = Limiter /\ DOMAIN buckets = Limiter
    /\ \A l \in Limiter, k \in Caller : admitted[l][k] \in Seq(Nat)
    /\ \A l \in Limiter, k \in Caller : k \in Known(l) =>
          buckets[l][k].credit \in Nat /\ buckets[l][k].last \in Nat /\ buckets[l][k].last <= ticks

Accounted(at, bucket, full, period) ==
    \A i \in DOMAIN at :
        (Len(at) - i + 1) * period + bucket.credit <= full + (bucket.last - at[i])

WithinBudget(at, full, period) ==
    \A i, j \in DOMAIN at : i <= j => (j - i + 1) * period <= full + (at[j] - at[i])

LimiterInv ==
    /\ BucketsOK
    /\ NoBurst
    /\ \A l \in Limiter, k \in Caller :
          k \in Known(l) => Accounted(admitted[l][k], buckets[l][k], Full(l), Period[l])

LEMMA OneMorePeriod ==
  ASSUME NEW m \in Int, NEW period \in Int
  PROVE  (m + 1) * period = m * period + period
OBVIOUS

\* One admission more, at a moment when the account has a token to give.
LEMMA AdmitKeepsAccount ==
  ASSUME NEW at \in Seq(Nat), NEW full \in Nat, NEW period \in Nat, NEW now \in Nat,
         NEW credit \in Nat, NEW bucket, bucket.credit \in Nat, bucket.last = now,
         bucket.credit + period = credit, credit <= full,
         \A i \in DOMAIN at : (Len(at) - i + 1) * period + credit <= full + (now - at[i]),
         WithinBudget(at, full, period)
  PROVE  /\ Append(at, now) \in Seq(Nat)
         /\ Accounted(Append(at, now), bucket, full, period)
         /\ WithinBudget(Append(at, now), full, period)
<1>0. PICK after, n : after = Append(at, now) /\ n = Len(at)
  OBVIOUS
<1>1. n \in Nat /\ DOMAIN at = 1..n /\ \A i \in 1..n : at[i] \in Nat
  BY <1>0, LenProperties, ElementOfSeq
<1>2. /\ after \in Seq(Nat) /\ Len(after) = n + 1 /\ after[n + 1] = now
      /\ \A i \in 1..n : after[i] = at[i]
  <2>1. /\ Append(at, now) \in Seq(Nat) /\ Len(Append(at, now)) = Len(at) + 1
        /\ \A i \in 1..Len(at) : Append(at, now)[i] = at[i]
        /\ Append(at, now)[Len(at) + 1] = now
    BY AppendProperties
  <2>2. QED
    BY <1>0, <2>1
<1>3. DOMAIN after = 1..(n + 1)
  BY <1>2, LenProperties
<1>4. ASSUME NEW i \in 1..(n + 1)
      PROVE  (n + 1 - i + 1) * period + bucket.credit <= full + (now - after[i])
  <2>1. CASE i = n + 1
    <3>1. (n + 1 - i + 1) * period = period
      BY <1>1, <2>1
    <3>2. QED
      BY <1>2, <2>1, <3>1
  <2>2. CASE i \in 1..n
    <3>1. PICK m \in Nat : m = n - i + 1
      BY <1>1, <2>2
    <3>2. (m + 1) * period = m * period + period
      BY OneMorePeriod
    <3>3. m * period + credit <= full + (now - at[i])
      BY <1>0, <1>1, <2>2, <3>1
    <3>4. PICK granted \in Int : granted = m * period
      OBVIOUS
    <3>5. (m + 1) * period + bucket.credit <= full + (now - at[i])
      BY <1>1, <2>2, <3>2, <3>3, <3>4
    <3>6. n + 1 - i + 1 = m + 1
      BY <1>1, <3>1
    <3>7. QED
      BY <1>2, <2>2, <3>5, <3>6
  <2>3. QED
    BY <1>1, <2>1, <2>2
<1>5. Accounted(after, bucket, full, period)
  <2>1. ASSUME NEW i \in DOMAIN after
        PROVE  (Len(after) - i + 1) * period + bucket.credit <= full + (bucket.last - after[i])
    <3>1. i \in 1..(n + 1)
      BY <1>3
    <3>2. PICK granted \in Int : granted = (n + 1 - i + 1) * period
      BY <1>1, <3>1
    <3>3. granted + bucket.credit <= full + (bucket.last - after[i])
      BY <1>4, <3>1, <3>2
    <3>4. Len(after) - i + 1 = n + 1 - i + 1
      BY <1>1, <1>2, <3>1
    <3>5. (Len(after) - i + 1) * period = granted
      BY Zenon, <3>2, <3>4
    <3>6. QED
      BY Zenon, <3>3, <3>5
  <2>2. QED
    BY <2>1 DEF Accounted
<1>6. WithinBudget(after, full, period)
  <2>1. ASSUME NEW i \in 1..(n + 1), NEW j \in 1..(n + 1), i <= j
        PROVE  (j - i + 1) * period <= full + (after[j] - after[i])
    <3>1. CASE j = n + 1
      <4>1. PICK granted \in Int : granted = (n + 1 - i + 1) * period
        BY <1>1
      <4>2. granted + bucket.credit <= full + (now - after[i])
        BY <1>4, <4>1
      <4>3. after[i] \in Nat
        BY <1>2, <1>3, ElementOfSeq
      <4>4. granted <= full + (now - after[i])
        BY <4>2, <4>3
      <4>5. QED
        <5>1. after[j] = now
          BY Zenon, <1>2, <3>1
        <5>2. j - i + 1 = n + 1 - i + 1
          BY <1>1, <3>1
        <5>3. (j - i + 1) * period = granted
          BY Zenon, <4>1, <5>2
        <5>4. QED
          BY Zenon, <4>4, <5>1, <5>3
    <3>2. CASE j # n + 1
      <4>1. i \in 1..n /\ j \in 1..n
        BY <1>1, <2>1, <3>2
      <4>2. QED
        BY <1>1, <1>2, <2>1, <4>1 DEF WithinBudget
    <3>3. QED
      BY <3>1, <3>2
  <2>2. QED
    BY <1>3, <2>1 DEF WithinBudget
<1>7. QED
  BY <1>0, <1>2, <1>5, <1>6

\* Time earns credit, up to a full bucket.
LEMMA CreditIsEarned ==
  ASSUME LimiterInv, NEW l \in Limiter, NEW k \in Caller
  PROVE  /\ CreditOf(l, k) \in Nat /\ CreditOf(l, k) <= Full(l)
         /\ k \in Known(l) => \A i \in DOMAIN admitted[l][k] :
               (Len(admitted[l][k]) - i + 1) * Period[l] + CreditOf(l, k)
                   <= Full(l) + (ticks - admitted[l][k][i])
<1>1. Full(l) \in Nat /\ Period[l] \in Nat
  BY LimiterAssumption DEF Full
<1>2. CASE k \notin Known(l)
  BY <1>1, <1>2 DEF CreditOf
<1>3. CASE k \in Known(l)
  <2>1. PICK had, last, at, full, period :
           /\ had = buckets[l][k].credit /\ last = buckets[l][k].last /\ at = admitted[l][k]
           /\ full = Full(l) /\ period = Period[l]
    OBVIOUS
  <2>2. /\ had \in Nat /\ last \in Nat /\ ticks \in Nat /\ last <= ticks
        /\ full \in Nat /\ period \in Nat
    BY <1>1, <1>3, <2>1 DEF LimiterInv, BucketsOK
  <2>3. CreditOf(l, k) = IF had + (ticks - last) > full THEN full ELSE had + (ticks - last)
    BY <1>3, <2>1 DEF CreditOf
  <2>4. PICK credit \in Nat : /\ credit = CreditOf(l, k) /\ credit <= full
                              /\ credit <= had + (ticks - last)
    BY <2>2, <2>3
  <2>5. ASSUME NEW i \in DOMAIN at
        PROVE  (Len(at) - i + 1) * period + credit <= full + (ticks - at[i])
    <3>1. (Len(at) - i + 1) * period + had <= full + (last - at[i])
      BY Zenon, <1>3, <2>1 DEF LimiterInv, Accounted
    <3>2. at \in Seq(Nat)
      BY <2>1 DEF LimiterInv, BucketsOK
    <3>3. Len(at) \in Nat /\ i \in Nat /\ at[i] \in Nat
      BY <3>2, LenProperties, ElementOfSeq
    <3>4. PICK granted \in Int : granted = (Len(at) - i + 1) * period
      BY <2>2, <3>3
    <3>5. granted + had <= full + (last - at[i])
      BY <3>1, <3>4
    <3>6. granted + credit <= full + (ticks - at[i])
      BY <2>2, <2>4, <3>3, <3>5
    <3>7. QED
      BY <3>4, <3>6
  <2>6. QED
    BY Zenon, <2>1, <2>4, <2>5
<1>4. QED
  BY <1>2, <1>3

\* What a request leaves of the limiter l, for any caller c of it.
LEMMA ChargeKeepsAccount ==
  ASSUME LimiterInv, NEW l \in Limiter, NEW k \in Caller, NEW c \in Caller
  PROVE  LET at == AdmittedAfter(l, k)[c]
             bucket == BucketsAfter(l, k)[c]
         IN  /\ at \in Seq(Nat) /\ WithinBudget(at, Full(l), Period[l])
             /\ c \in DOMAIN BucketsAfter(l, k) =>
                   /\ bucket.credit \in Nat /\ bucket.last \in Nat /\ bucket.last <= ticks
                   /\ Accounted(at, bucket, Full(l), Period[l])
<1>1. /\ Full(l) \in Nat /\ Period[l] \in Nat /\ ticks \in Nat
      /\ admitted[l][c] \in Seq(Nat) /\ admitted[l][k] \in Seq(Nat)
      /\ WithinBudget(admitted[l][c], Full(l), Period[l])
      /\ WithinBudget(admitted[l][k], Full(l), Period[l])
  BY LimiterAssumption DEF Full, LimiterInv, BucketsOK, NoBurst, WithinBudget
<1>2. <<>> \in Seq(Nat) /\ DOMAIN <<>> = {} /\ Len(<<>>) = 0
  BY EmptySeq, LenProperties
<1>3. WithinBudget(<<>>, Full(l), Period[l])
  BY <1>2 DEF WithinBudget
<1>4. CASE c # k
  <2>1. AdmittedAfter(l, k)[c] = IF c \in Forgotten(l, k) THEN <<>> ELSE admitted[l][c]
    BY <1>4 DEF AdmittedAfter
  <2>2. /\ DOMAIN BucketsAfter(l, k) = (Known(l) \ Forgotten(l, k)) \cup {k}
        /\ c \in DOMAIN BucketsAfter(l, k) => BucketsAfter(l, k)[c] = buckets[l][c]
    BY <1>4 DEF BucketsAfter
  <2>3. c \in DOMAIN BucketsAfter(l, k) => c \in Known(l) /\ c \notin Forgotten(l, k)
    BY <1>4, <2>2
  <2>4. QED
    BY Zenon, <1>1, <1>2, <1>3, <2>1, <2>2, <2>3 DEF LimiterInv, BucketsOK
<1>5. CASE c = k
  <2>1. PICK at, credit, bucket, full, period :
           /\ at = (IF k \in Known(l) THEN admitted[l][k] ELSE <<>>)
           /\ credit = CreditOf(l, k) /\ bucket = Charged(l, k)
           /\ full = Full(l) /\ period = Period[l]
    OBVIOUS
  <2>2. AdmittedAfter(l, k)[c] = IF allows(l, k) THEN Append(at, ticks) ELSE at
    BY <1>5, <2>1 DEF AdmittedAfter
  <2>3. BucketsAfter(l, k)[c] = bucket
    BY <1>5, <2>1 DEF BucketsAfter
  <2>4. /\ full \in Nat /\ period \in Nat /\ credit \in Nat /\ credit <= full
        /\ at \in Seq(Nat) /\ WithinBudget(at, full, period)
    BY <1>1, <1>2, <1>3, <2>1, CreditIsEarned
  <2>5. \A i \in DOMAIN at : (Len(at) - i + 1) * period + credit <= full + (ticks - at[i])
    <3>1. CASE k \in Known(l)
      BY Zenon, <2>1, <3>1, CreditIsEarned
    <3>2. CASE k \notin Known(l)
      BY Zenon, <1>2, <2>1, <3>2
    <3>3. QED
      BY <3>1, <3>2
  <2>6. CASE allows(l, k)
    <3>1. /\ bucket.last = ticks /\ bucket.credit = credit - period /\ credit >= period
      BY <2>1, <2>6 DEF Charged, allows
    <3>2. bucket.credit \in Nat /\ bucket.credit + period = credit
      BY <2>4, <3>1
    <3>3. /\ Append(at, ticks) \in Seq(Nat)
          /\ Accounted(Append(at, ticks), bucket, full, period)
          /\ WithinBudget(Append(at, ticks), full, period)
      BY <1>1, <2>4, <2>5, <3>1, <3>2, AdmitKeepsAccount
    <3>4. bucket.last \in Nat /\ bucket.last <= ticks
      BY <1>1, <3>1
    <3>5. QED
      BY Zenon, <2>1, <2>2, <2>3, <2>6, <3>2, <3>3, <3>4
  <2>7. CASE ~allows(l, k)
    <3>1. /\ bucket.last = ticks /\ bucket.credit = credit
      BY <2>1, <2>7 DEF Charged
    <3>2. bucket.last \in Nat /\ bucket.last <= ticks
      BY <1>1, <3>1
    <3>3. Accounted(at, bucket, full, period)
      BY Zenon, <2>5, <3>1 DEF Accounted
    <3>4. QED
      BY Zenon, <2>1, <2>2, <2>3, <2>4, <2>7, <3>1, <3>2, <3>3
  <2>8. QED
    BY <2>6, <2>7
<1>6. QED
  BY <1>4, <1>5

LEMMA RequestLimiterInv ==
  ASSUME LimiterInv, NEW k \in Caller, NEW route \in Limiter, Request(k, route)
  PROVE  LimiterInv'
<1>1. /\ ticks' = ticks /\ DOMAIN buckets' = Limiter /\ DOMAIN admitted' = Limiter
      /\ \A l \in Limiter :
            \/ buckets'[l] = buckets[l] /\ admitted'[l] = admitted[l]
            \/ buckets'[l] = BucketsAfter(l, k) /\ admitted'[l] = AdmittedAfter(l, k)
  BY DEF Request
<1>2. ASSUME NEW l \in Limiter, NEW c \in Caller
      PROVE  /\ admitted'[l][c] \in Seq(Nat)
             /\ WithinBudget(admitted'[l][c], Full(l), Period[l])
             /\ c \in DOMAIN buckets'[l] =>
                   /\ buckets'[l][c].credit \in Nat /\ buckets'[l][c].last \in Nat
                   /\ buckets'[l][c].last <= ticks
                   /\ Accounted(admitted'[l][c], buckets'[l][c], Full(l), Period[l])
  <2>1. CASE buckets'[l] = buckets[l] /\ admitted'[l] = admitted[l]
    BY Zenon, <2>1 DEF LimiterInv, BucketsOK, NoBurst, WithinBudget, Known
  <2>2. CASE buckets'[l] = BucketsAfter(l, k) /\ admitted'[l] = AdmittedAfter(l, k)
    BY Zenon, <2>2, ChargeKeepsAccount
  <2>3. QED
    BY <1>1, <2>1, <2>2
<1>3. BucketsOK'
  BY <1>1, <1>2 DEF LimiterInv, BucketsOK, Known
<1>4. NoBurst'
  BY Zenon, <1>2 DEF NoBurst, WithinBudget, Full
<1>5. \A l \in Limiter, c \in Caller :
         c \in Known(l)' => Accounted(admitted'[l][c], buckets'[l][c], Full(l), Period[l])
  BY Zenon, <1>2 DEF Known
<1>6. QED
  BY Zenon, <1>3, <1>4, <1>5 DEF LimiterInv, Full, Accounted, Known

LEMMA TickLimiterInv ==
  ASSUME LimiterInv, Tick \/ UNCHANGED limiterVars
  PROVE  LimiterInv'
<1>1. UNCHANGED <<buckets, order, admitted>> /\ ticks' \in Nat /\ ticks <= ticks'
  BY DEF Tick, limiterVars, LimiterInv, BucketsOK
<1>2. BucketsOK'
  <2>1. ASSUME NEW l \in Limiter, NEW k \in Caller, k \in Known(l)
        PROVE  buckets[l][k].last <= ticks'
    <3>1. buckets[l][k].last \in Nat /\ buckets[l][k].last <= ticks /\ ticks \in Nat
      BY <2>1 DEF LimiterInv, BucketsOK
    <3>2. QED
      BY <1>1, <3>1
  <2>2. QED
    BY <1>1, <2>1 DEF LimiterInv, BucketsOK, Known
<1>3. QED
  BY Zenon, <1>1, <1>2 DEF LimiterInv, NoBurst, Accounted, Known, Full

\* The invariant of the buckets: every token granted since any remembered
\* admission is accounted for.
THEOREM LimiterInductive == LimiterSpec => []LimiterInv
<1>1. LimiterInit => LimiterInv
  <2> SUFFICES ASSUME LimiterInit PROVE LimiterInv
    OBVIOUS
  <2>1. <<>> \in Seq(Nat) /\ DOMAIN <<>> = {}
    BY EmptySeq, LenProperties
  <2>2. /\ ticks = 0 /\ DOMAIN buckets = Limiter /\ DOMAIN admitted = Limiter
        /\ \A l \in Limiter : buckets[l] = <<>> /\ \A k \in Caller : admitted[l][k] = <<>>
    BY DEF LimiterInit
  <2>3. BucketsOK
    BY <2>1, <2>2 DEF BucketsOK, Known
  <2>4. \A l \in Limiter, k \in Caller : k \notin Known(l) /\ DOMAIN admitted[l][k] = {}
    BY <2>1, <2>2 DEF Known
  <2>5. NoBurst
    BY <2>4 DEF NoBurst
  <2>6. QED
    BY <2>3, <2>4, <2>5 DEF LimiterInv
<1>2. LimiterInv /\ [LimiterNext]_limiterVars => LimiterInv'
  <2> SUFFICES ASSUME LimiterInv, [LimiterNext]_limiterVars PROVE LimiterInv'
    OBVIOUS
  <2>1. ASSUME NEW host \in Host, NEW forwarded \in Caller
        PROVE  client_key(host, forwarded) \in Caller
    BY DEF client_key, Caller
  <2>2. QED
    BY <2>1, RequestLimiterInv, TickLimiterInv DEF LimiterNext
<1>3. QED
  BY <1>1, <1>2, PTL DEF LimiterSpec

\* Between any two remembered admissions of a caller there were no more requests
\* than a full bucket and what the time between them earned, whatever was
\* forgotten to make room for others.
THEOREM BudgetHolds == LimiterSpec => []NoBurst
<1>1. LimiterInv => NoBurst
  BY DEF LimiterInv
<1>2. QED
  BY <1>1, LimiterInductive, PTL

-----------------------------------------------------------------------------
(* DriftMonitor, for any features, buffer sizes and lengths of the history.  *)

DriftStates == {"warming_up", "stable", "warning", "drift"}

Transition == [from_state: DriftStates, state: DriftStates]

DriftInv ==
    /\ "score" \in DOMAIN held
    /\ monitor \in [state: DriftStates, samples: Nat, since: Nat]
    /\ drift_events \in Seq(Transition)
    /\ HistoryUnbroken

\* The latest n of a sequence, counted from its end, are the sequence's own.
LEMMA LatestIsTail ==
  ASSUME NEW S, NEW seq \in Seq(S), NEW n \in Nat \ {0}
  PROVE  LET kept == Latest(seq, n)
         IN  /\ kept \in Seq(S) /\ Len(kept) <= Len(seq)
             /\ seq # <<>> => Len(kept) # 0
             /\ \A i \in 1..Len(kept) : kept[i] = seq[i + (Len(seq) - Len(kept))]
<1>1. Len(seq) \in Nat /\ (seq # <<>> => Len(seq) # 0)
  BY EmptySeq, LenProperties
<1>2. CASE Len(seq) <= n
  BY <1>1, <1>2 DEF Latest
<1>3. CASE ~(Len(seq) <= n)
  <2>1. PICK first \in Nat : first = Len(seq) - n + 1
    BY <1>1, <1>3
  <2>2. first \in 1..(Len(seq) + 1)
    <3>1. PICK len \in Nat : len = Len(seq) /\ ~(len <= n)
      BY <1>1, <1>3
    <3>2. first = len - n + 1 /\ n >= 1 /\ len > n
      BY <2>1, <3>1
    <3>3. first \in 1..(len + 1)
      BY <3>2
    <3>4. QED
      BY Zenon, <3>1, <3>3
  <2>3. /\ SubSeq(seq, first, Len(seq)) \in Seq(S)
        /\ Len(SubSeq(seq, first, Len(seq))) = Len(seq) - first + 1
        /\ \A i \in 1..(Len(seq) - first + 1) : SubSeq(seq, first, Len(seq))[i] = seq[first + i - 1]
    BY <1>1, <2>2, SubSeqProperties
  <2>4. PICK kept : kept = SubSeq(seq, first, Len(seq))
    OBVIOUS
  <2>5. Latest(seq, n) = kept
    BY <1>3, <2>1, <2>4 DEF Latest
  <2>6. kept \in Seq(S) /\ Len(kept) = n
    BY <1>1, <2>1, <2>3, <2>4
  <2>7. ASSUME NEW i \in 1..n PROVE kept[i] = seq[i + (Len(seq) - n)]
    <3>1. i \in 1..(Len(seq) - first + 1) /\ first + i - 1 = i + (Len(seq) - n)
      BY <1>1, <2>1
    <3>2. QED
      BY <2>3, <2>4, <3>1
  <2>8. QED
    BY <1>1, <1>3, <2>5, <2>6, <2>7
<1>4. QED
  BY <1>2, <1>3

LEMMA ClassifyIsAState ==
  ASSUME NEW D, D # {}, NEW psi \in [D -> 0..3]
  PROVE  Classify(psi) \in DriftStates
<1> DEFINE values == {psi[x] : x \in DOMAIN psi}
<1>1. values \subseteq 0..3 /\ values # {}
  OBVIOUS
<1>2. \E b \in values : \A x \in DOMAIN psi : psi[x] <= b
  <2>1. CASE 3 \in values
    BY <1>1, <2>1
  <2>2. CASE 3 \notin values /\ 2 \in values
    BY <1>1, <2>2
  <2>3. CASE 3 \notin values /\ 2 \notin values /\ 1 \in values
    BY <1>1, <2>3
  <2>4. CASE 3 \notin values /\ 2 \notin values /\ 1 \notin values
    BY <1>1, <2>4
  <2>5. QED
    BY <2>1, <2>2, <2>3, <2>4
<1>3. PICK worst \in 0..3 :
         worst = CHOOSE b \in {psi[x] : x \in DOMAIN psi} : \A x \in DOMAIN psi : psi[x] <= b
  BY <1>1, <1>2
<1>4. Classify(psi) = IF worst = 0 THEN "warming_up" ELSE Bands[worst]
  BY <1>3 DEF Classify
<1>5. Bands[1] = "stable" /\ Bands[2] = "warning" /\ Bands[3] = "drift"
  BY DEF Bands
<1>6. worst = 0 \/ worst = 1 \/ worst = 2 \/ worst = 3
  OBVIOUS
<1>7. QED
  BY <1>4, <1>5, <1>6 DEF DriftStates

Linked(events) == \A i \in 1 .. Len(events) - 1 : events[i + 1].from_state = events[i].state

EndsIn(events, state) ==
    IF events = <<>> THEN state = "warming_up" ELSE events[Len(events)].state = state

TailOf(part, events) ==
    \A i \in DOMAIN part : part[Len(part) + 1 - i] = events[Len(events) + 1 - i]

\* One transition more: it starts where the last one ended.
LEMMA AppendLinks ==
  ASSUME NEW events \in Seq(Transition), NEW from \in DriftStates, NEW to \in DriftStates,
         Linked(events), EndsIn(events, from)
  PROVE  LET after == Append(events, [from_state |-> from, state |-> to])
         IN  after \in Seq(Transition) /\ Linked(after) /\ EndsIn(after, to)
<1>1. PICK e \in Transition, n \in Nat, after \in Seq(Transition) :
         /\ e = [from_state |-> from, state |-> to] /\ n = Len(events) /\ after = Append(events, e)
         /\ Len(after) = n + 1 /\ after[n + 1] = e /\ \A i \in 1..n : after[i] = events[i]
  <2>1. PICK e \in Transition : e = [from_state |-> from, state |-> to]
    BY DEF Transition
  <2>2. Len(events) \in Nat
    BY LenProperties
  <2>3. /\ Append(events, e) \in Seq(Transition) /\ Len(Append(events, e)) = Len(events) + 1
        /\ \A i \in 1..Len(events) : Append(events, e)[i] = events[i]
        /\ Append(events, e)[Len(events) + 1] = e
    BY AppendProperties
  <2>4. QED
    BY <2>1, <2>2, <2>3
<1>2. e.from_state = from /\ e.state = to
  BY <1>1
<1>3. ASSUME NEW i \in 1..n PROVE after[i + 1].from_state = after[i].state
  <2>1. CASE i = n
    <3>1. events # <<>>
      BY <1>1, <2>1, EmptySeq
    <3>2. events[n].state = from
      BY <1>1, <3>1 DEF EndsIn
    <3>3. QED
      BY <1>1, <1>2, <2>1, <3>2
  <2>2. CASE i # n
    <3>1. i \in 1 .. n - 1 /\ i + 1 \in 1..n
      BY <2>2
    <3>2. events[i + 1].from_state = events[i].state
      BY <1>1, <3>1 DEF Linked
    <3>3. QED
      BY <1>1, <3>1, <3>2
  <2>3. QED
    BY <2>1, <2>2
<1>4. Linked(after)
  BY <1>1, <1>3 DEF Linked
<1>5. after # <<>> /\ after[Len(after)].state = to
  BY <1>1, <1>2, EmptySeq
<1>6. QED
  BY <1>1, <1>4, <1>5 DEF EndsIn

\* The latest of a linked history are linked, and end where it ends.
LEMMA LatestLinks ==
  ASSUME NEW events \in Seq(Transition), NEW n \in Nat \ {0}, NEW state,
         Linked(events), EndsIn(events, state)
  PROVE  LET kept == Latest(events, n)
         IN  kept \in Seq(Transition) /\ Linked(kept) /\ EndsIn(kept, state) /\ TailOf(kept, events)
<1>1. PICK kept \in Seq(Transition), len \in Nat, all \in Nat :
         /\ kept = Latest(events, n) /\ len = Len(kept) /\ all = Len(events) /\ len <= all
         /\ events # <<>> => len # 0
         /\ \A i \in 1..len : kept[i] = events[i + (all - len)]
  BY LatestIsTail, LenProperties
<1>2. Linked(kept)
  <2>1. ASSUME NEW i \in 1 .. len - 1 PROVE kept[i + 1].from_state = kept[i].state
    <3>1. i \in 1..len /\ i + 1 \in 1..len /\ i + (all - len) \in 1 .. all - 1
      BY <1>1
    <3>2. events[i + (all - len) + 1].from_state = events[i + (all - len)].state
      BY <1>1, <3>1 DEF Linked
    <3>3. i + 1 + (all - len) = i + (all - len) + 1
      BY <3>1
    <3>4. QED
      BY <1>1, <3>1, <3>2, <3>3
  <2>2. QED
    BY <1>1, <2>1 DEF Linked
<1>3. EndsIn(kept, state)
  <2>1. CASE events = <<>>
    <3>1. all = 0 /\ len = 0
      BY <1>1, <2>1, EmptySeq
    <3>2. kept = <<>>
      BY <1>1, <3>1, EmptySeq
    <3>3. QED
      BY <2>1, <3>2 DEF EndsIn
  <2>2. CASE events # <<>>
    <3>1. len \in 1..len /\ len + (all - len) = all
      BY <1>1, <2>2
    <3>2. kept[len] = events[all] /\ kept # <<>>
      BY <1>1, <3>1, EmptySeq
    <3>3. QED
      BY <1>1, <2>2, <3>2 DEF EndsIn
  <2>3. QED
    BY <2>1, <2>2
<1>4. TailOf(kept, events)
  <2>1. ASSUME NEW i \in 1..len PROVE kept[len + 1 - i] = events[all + 1 - i]
    <3>1. len + 1 - i \in 1..len /\ len + 1 - i + (all - len) = all + 1 - i
      BY <1>1
    <3>2. QED
      BY <1>1, <3>1
  <2>2. DOMAIN kept = 1..len
    BY <1>1, LenProperties
  <2>3. QED
    BY <1>1, <2>1, <2>2 DEF TailOf
<1>5. QED
  BY <1>1, <1>2, <1>3, <1>4

LEMMA HistoryParts ==
  HistoryUnbroken <=> /\ Linked(drift_events) /\ EndsIn(drift_events, monitor.state)
                      /\ TailOf(shown, drift_events)
BY DEF HistoryUnbroken, Linked, EndsIn, TailOf

\* The check's verdict is recorded whole, or the check raises and records nothing.
LEMMA RecordDriftInv ==
  ASSUME DriftInv, NEW features \in SUBSET Feature, Record(features)
  PROVE  DriftInv'
<1>1. PICK counted : counted = [monitor EXCEPT !.samples = @ + 1, !.since = @ + 1]
  OBVIOUS
<1>2. /\ counted \in [state: DriftStates, samples: Nat, since: Nat]
      /\ counted.state = monitor.state /\ monitor.state \in DriftStates
  <2>1. monitor \in [state: DriftStates, samples: Nat, since: Nat]
    BY DEF DriftInv
  <2>2. PICK more \in Nat, waited \in Nat : more = monitor.samples + 1 /\ waited = monitor.since + 1
    BY <2>1
  <2>3. counted = [monitor EXCEPT !.samples = more, !.since = waited]
    BY <1>1, <2>2
  <2>4. QED
    BY <2>1, <2>3
<1>3. DOMAIN held' = DOMAIN held /\ "score" \in DOMAIN held'
  BY DEF Record, DriftInv
<1>4. CASE monitor' = counted /\ UNCHANGED <<drift_events, shown>>
  <2>1. monitor'.state = monitor.state
    BY <1>2, <1>4
  <2>2. HistoryUnbroken'
    BY <1>4, <2>1 DEF DriftInv, HistoryUnbroken
  <2>3. QED
    BY <1>2, <1>3, <1>4, <2>2 DEF DriftInv
<1>5. ASSUME NEW psi \in [DOMAIN held -> 0..3], NEW new, new = Classify(psi),
             monitor' = [counted EXCEPT !.state = new, !.since = 0],
             drift_events' = Recorded(monitor.state, new),
             shown' = Latest(drift_events', ShownEvents)
      PROVE  DriftInv'
  <2>1. new \in DriftStates
    BY <1>5, ClassifyIsAState DEF DriftInv
  <2>2. monitor' \in [state: DriftStates, samples: Nat, since: Nat] /\ monitor'.state = new
    BY <1>2, <1>5, <2>1
  <2>3. KeptEvents \in Nat \ {0} /\ ShownEvents \in Nat \ {0}
    BY DriftAssumption
  <2>4. /\ drift_events \in Seq(Transition) /\ Linked(drift_events)
        /\ EndsIn(drift_events, monitor.state)
    BY HistoryParts DEF DriftInv
  <2>5. PICK events : events = drift_events'
    OBVIOUS
  <2>6. events \in Seq(Transition) /\ Linked(events) /\ EndsIn(events, new)
    <3>1. CASE monitor.state = new
      BY <1>5, <2>4, <2>5, <3>1 DEF Recorded
    <3>2. CASE monitor.state # new
      <4>1. PICK after : after = Append(drift_events, [from_state |-> monitor.state, state |-> new])
        OBVIOUS
      <4>2. after \in Seq(Transition) /\ Linked(after) /\ EndsIn(after, new)
        BY <1>2, <2>1, <2>4, <4>1, AppendLinks
      <4>3. events = Latest(after, KeptEvents)
        BY <1>5, <2>5, <3>2, <4>1 DEF Recorded
      <4>4. QED
        BY <2>3, <4>2, <4>3, LatestLinks
    <3>3. QED
      BY <3>1, <3>2
  <2>7. TailOf(shown', events)
    BY <1>5, <2>3, <2>5, <2>6, LatestLinks
  <2>8. HistoryUnbroken'
    BY <2>2, <2>5, <2>6, <2>7 DEF HistoryUnbroken, Linked, EndsIn, TailOf
  <2>9. QED
    BY <1>3, <2>2, <2>5, <2>6, <2>8 DEF DriftInv
<1>6. QED
  BY <1>1, <1>4, <1>5 DEF Record

\* The monitor's invariant, through checks that raise and through resets.
THEOREM DriftInductive == DriftSpec => []DriftInv
<1>1. ASSUME NEW events, events = <<>>
      PROVE  events \in Seq(Transition) /\ Linked(events) /\ TailOf(events, events)
             /\ EndsIn(events, Fresh.state)
  <2>1. events \in Seq(Transition) /\ Len(events) = 0 /\ DOMAIN events = {}
    BY <1>1, EmptySeq, LenProperties
  <2>2. QED
    BY <1>1, <2>1 DEF Linked, TailOf, EndsIn, Fresh
<1>2. Fresh \in [state: DriftStates, samples: Nat, since: Nat]
  BY DEF Fresh, DriftStates
<1>3. DriftInit => DriftInv
  BY <1>1, <1>2, HistoryParts DEF DriftInit, DriftInv
<1>4. DriftInv /\ [DriftNext]_driftVars => DriftInv'
  <2> SUFFICES ASSUME DriftInv, [DriftNext]_driftVars PROVE DriftInv'
    OBVIOUS
  <2>1. CASE ResetMonitor
    <3>1. /\ DOMAIN held' = DOMAIN held /\ monitor' = Fresh /\ drift_events' = <<>> /\ shown' = <<>>
      BY <2>1 DEF ResetMonitor
    <3>2. HistoryUnbroken'
      BY <1>1, <3>1 DEF HistoryUnbroken, Linked, EndsIn, TailOf
    <3>3. QED
      BY <1>1, <1>2, <3>1, <3>2 DEF DriftInv
  <2>2. CASE UNCHANGED driftVars
    BY <2>2 DEF driftVars, DriftInv, HistoryUnbroken
  <2>3. QED
    BY <2>1, <2>2, RecordDriftInv DEF DriftNext
<1>5. QED
  BY <1>3, <1>4, PTL DEF DriftSpec

\* The transitions kept are a run of states without a gap that ends in the state
\* reported, however old ones are cut off, and what is shown is their end.
THEOREM HistoryHasNoGap == DriftSpec => []HistoryUnbroken
<1>1. DriftInv => HistoryUnbroken
  BY DEF DriftInv
<1>2. QED
  BY <1>1, DriftInductive, PTL

-----------------------------------------------------------------------------
(* ModelRegistry, for any models, purposes and builds.  What start-up has in *)
(* memory of a model not retrained meanwhile is what its file holds until it *)
(* is registered, and what its version says from then on.                    *)

SpecShape == [state: States \cup {"unregistered"}, version: Build \cup {NoBuild}]

RegistryTypeOK ==
    /\ artifact \in [Served -> Build]
    /\ unpickled \in [Served -> Build \cup {NoBuild}]
    /\ specs \in [Served \cup Challenger -> SpecShape]

VersionOf(b) == IF contract_ok(b) THEN b ELSE NoBuild

RegistryInv ==
    /\ RegistryTypeOK
    /\ \A m \in Served : unpickled[m] = NoBuild => specs[m] = Unregistered
    /\ \A m \in Served \ swapped :
          /\ specs[m] # Unregistered => specs[m].version = VersionOf(unpickled[m])
          /\ specs[m] = Unregistered /\ unpickled[m] # NoBuild => artifact[m] = unpickled[m]

\* A promotion moves roles: no version changes, and nothing is unregistered by it.
LEMMA PromoteKeepsVersions ==
  ASSUME RegistryTypeOK, NEW m \in Served \cup Challenger, NEW s \in States, Promote(m, s)
  PROVE  /\ specs' \in [Served \cup Challenger -> SpecShape]
         /\ \A n \in Served \cup Challenger :
               /\ specs'[n].version = specs[n].version
               /\ specs'[n] = Unregistered <=> specs[n] = Unregistered
<1>1. DOMAIN specs = Served \cup Challenger /\ specs[m] # Unregistered
  BY DEF RegistryTypeOK, Promote
<1>2. ASSUME NEW n \in Served \cup Challenger
      PROVE  \/ specs'[n] = specs[n]
             \/ \E state \in States : specs'[n] = [specs[n] EXCEPT !.state = state]
                                    /\ specs[n] # Unregistered
  <2>1. specs'[n] = IF n = m THEN [specs[n] EXCEPT !.state = s]
                    ELSE IF s = CHAMPION /\ n \in Demoted(m)
                         THEN [specs[n] EXCEPT !.state = "retired"] ELSE specs[n]
    BY <1>1 DEF Promote
  <2>2. n \in Demoted(m) => specs[n] # Unregistered
    BY DEF Demoted, Unregistered, CHAMPION
  <2>3. "retired" \in States
    BY DEF States
  <2>4. QED
    BY <1>1, <2>1, <2>2, <2>3
<1>3. ASSUME NEW n \in Served \cup Challenger
      PROVE  /\ specs'[n] \in SpecShape /\ specs'[n].version = specs[n].version
             /\ specs'[n] = Unregistered <=> specs[n] = Unregistered
  <2>1. specs[n] \in SpecShape
    BY DEF RegistryTypeOK
  <2>2. ASSUME NEW state \in States, specs'[n] = [specs[n] EXCEPT !.state = state]
        PROVE  /\ specs'[n] \in SpecShape /\ specs'[n].version = specs[n].version
               /\ specs'[n] # Unregistered
    <3>1. /\ specs'[n] \in SpecShape /\ specs'[n].version = specs[n].version
          /\ specs'[n].state = state
      BY <2>1, <2>2 DEF SpecShape
    <3>2. state # Unregistered.state
      BY DEF States, Unregistered, CHAMPION
    <3>3. QED
      BY <3>1, <3>2
  <2>3. QED
    BY <1>2, <2>1, <2>2
<1>4. specs' \in [Served \cup Challenger -> SpecShape]
  BY <1>1, <1>3 DEF Promote
<1>5. QED
  BY <1>3, <1>4

LEMMA RegistryStep ==
  ASSUME RegistryInv, [RegistryNext]_registryVars
  PROVE  RegistryInv'
<1>0. /\ Unregistered \in SpecShape
      /\ \A s \in States, v \in Build \cup {NoBuild} :
            [state |-> s, version |-> v] \in SpecShape /\ [state |-> s, version |-> v] # Unregistered
            /\ [state |-> s, version |-> v].version = v
  BY DEF SpecShape, Unregistered, States, CHAMPION
<1>1. ASSUME NEW m \in Served, Unpickle(m) PROVE RegistryInv'
  <2>1. /\ unpickled[m] = NoBuild /\ unpickled' = [unpickled EXCEPT ![m] = artifact[m]]
        /\ UNCHANGED <<artifact, specs, stamped, swapped>>
    BY <1>1 DEF Unpickle
  <2>2. RegistryTypeOK' /\ \A n \in Served : n # m => unpickled'[n] = unpickled[n]
    BY <2>1 DEF RegistryInv, RegistryTypeOK
  <2>3. specs[m] = Unregistered /\ unpickled'[m] = artifact[m]
    BY <2>1 DEF RegistryInv, RegistryTypeOK
  <2>4. artifact[m] # NoBuild
    BY RegistryAssumption DEF RegistryInv, RegistryTypeOK, NoBuild
  <2>5. QED
    BY <2>1, <2>2, <2>3, <2>4 DEF RegistryInv
<1>2. ASSUME NEW m \in Served, RegisterAndLoad(m) PROVE RegistryInv'
  <2>1. PICK v : v = artifact_version(m)
    OBVIOUS
  <2>2. /\ unpickled[m] # NoBuild /\ specs[m] = Unregistered
        /\ specs' = [specs EXCEPT ![m] = [state |-> CHAMPION, version |-> v]]
        /\ UNCHANGED <<artifact, unpickled, stamped, swapped>>
    BY <1>2, <2>1 DEF RegisterAndLoad
  <2>3. v \in Build \cup {NoBuild} /\ (m \notin swapped => v = VersionOf(unpickled[m]))
    BY <2>1, <2>2 DEF artifact_version, VersionOf, RegistryInv, RegistryTypeOK
  <2>4. CHAMPION \in States
    BY DEF States
  <2>5. /\ RegistryTypeOK'
        /\ \A n \in Served : n # m => specs'[n] = specs[n]
        /\ specs'[m].version = v /\ specs'[m] # Unregistered
    BY <1>0, <2>2, <2>3, <2>4 DEF RegistryInv, RegistryTypeOK
  <2>6. QED
    BY <2>2, <2>3, <2>5 DEF RegistryInv
<1>3. ASSUME NEW m \in Served, NEW b \in Build, Retrain(m, b) PROVE RegistryInv'
  <2>1. /\ artifact' = [artifact EXCEPT ![m] = b] /\ UNCHANGED <<unpickled, specs, stamped>>
        /\ swapped \subseteq swapped'
        /\ unpickled[m] # NoBuild /\ specs[m] = Unregistered => m \in swapped'
    BY <1>3 DEF Retrain
  <2>2. RegistryTypeOK' /\ \A n \in Served : n # m => artifact'[n] = artifact[n]
    BY <2>1 DEF RegistryInv, RegistryTypeOK
  <2>3. QED
    BY <2>1, <2>2 DEF RegistryInv
<1>4. ASSUME NEW m \in Challenger, NEW b \in Build, Register(m, b) PROVE RegistryInv'
  <2>1. PICK v \in Build \cup {NoBuild} :
           /\ specs' = [specs EXCEPT ![m] = [state |-> "challenger", version |-> v]]
           /\ UNCHANGED <<artifact, unpickled, stamped, swapped>>
    BY <1>4 DEF Register
  <2>2. m \notin Served /\ "challenger" \in States
    BY RegistryAssumption DEF States
  <2>3. RegistryTypeOK' /\ \A n \in Served : specs'[n] = specs[n]
    BY <1>0, <2>1, <2>2 DEF RegistryInv, RegistryTypeOK
  <2>4. QED
    BY <2>1, <2>3 DEF RegistryInv
<1>5. ASSUME NEW m \in Served \cup Challenger, NEW s \in States, Promote(m, s) PROVE RegistryInv'
  <2>1. UNCHANGED <<artifact, unpickled, stamped, swapped>>
    BY <1>5 DEF Promote
  <2>2. QED
    BY <1>5, <2>1, PromoteKeepsVersions DEF RegistryInv, RegistryTypeOK
<1>6. CASE Decide \/ UNCHANGED registryVars
  BY <1>6 DEF Decide, registryVars, RegistryInv, RegistryTypeOK
<1>7. CASE Restart
  <2>1. /\ unpickled' = [m \in Served |-> NoBuild] /\ artifact' = artifact
        /\ specs' = [m \in DOMAIN specs |-> Unregistered]
    BY <1>7 DEF Restart
  <2>2. RegistryTypeOK' /\ \A m \in Served : specs'[m] = Unregistered /\ unpickled'[m] = NoBuild
    BY <1>0, <2>1 DEF RegistryInv, RegistryTypeOK
  <2>3. QED
    BY <2>2 DEF RegistryInv
<1>8. QED
  BY <1>1, <1>2, <1>3, <1>4, <1>5, <1>6, <1>7 DEF RegistryNext

THEOREM RegistryInductive == RegistrySpec => []RegistryInv
<1>1. RegistryInit => RegistryInv
  BY DEF RegistryInit, RegistryInv, RegistryTypeOK, SpecShape, Unregistered
<1>2. QED
  BY <1>1, RegistryStep, PTL DEF RegistrySpec

\* A served champion named in a stamp is the very build that scored, and one
\* that scored is named, but for a model retrained while start-up was between
\* reading its file and hashing it: for any number of models and promotions.
THEOREM StampsAreTrue == RegistrySpec => StampNamesTheScorer
<1> DEFINE Names ==
      stamped' \notin {stamped, Undecided} =>
        \A m \in Served \ swapped :
           specs[m].state = CHAMPION =>
             \A b \in Build : <<m, b>> \in stamped'.model_version <=> <<m, b>> \in stamped'.scored
<1>1. RegistryInv /\ [RegistryNext]_registryVars => [Names]_registryVars
  <2> SUFFICES ASSUME RegistryInv, RegistryNext, stamped' \notin {stamped, Undecided},
                      NEW m \in Served \ swapped, specs[m].state = CHAMPION, NEW b \in Build
               PROVE  <<m, b>> \in stamped'.model_version <=> <<m, b>> \in stamped'.scored
    OBVIOUS
  <2>1. Decide
    BY DEF RegistryNext, Unpickle, RegisterAndLoad, Retrain, Register, Promote, Restart
  <2>2. /\ stamped'.scored = {<<n, unpickled[n]>> : n \in {k \in Served : contract_ok(unpickled[k])}}
        /\ stamped'.model_version = {<<n, specs[n].version>> : n \in {k \in DOMAIN specs :
                                         Loaded(k) /\ specs[k].state = CHAMPION}}
    BY <2>1 DEF Decide, decision_versions
  <2>3. specs[m].version = VersionOf(unpickled[m]) /\ m \in DOMAIN specs
    BY DEF RegistryInv, RegistryTypeOK, Unregistered, CHAMPION
  <2>4. <<m, b>> \in stamped'.scored <=> contract_ok(unpickled[m]) /\ unpickled[m] = b
    BY <2>2
  <2>5. <<m, b>> \in stamped'.model_version <=> specs[m].version # NoBuild /\ specs[m].version = b
    BY <2>2, <2>3 DEF Loaded
  <2>6. contract_ok(unpickled[m]) => unpickled[m] # NoBuild
    BY RegistryAssumption DEF contract_ok, NoBuild
  <2>7. b # NoBuild
    BY RegistryAssumption DEF NoBuild
  <2>8. QED
    BY <2>3, <2>4, <2>5, <2>6, <2>7 DEF VersionOf
<1>2. QED
  BY <1>1, RegistryInductive, PTL DEF RegistrySpec, StampNamesTheScorer

-----------------------------------------------------------------------------
(* DeviceIdentity and ScoreLadder, for every set of payments, reports and  *)
(* suspect devices and every answer of the models.                         *)

LEMMA FiveMore ==
  ASSUME NEW S, IsFiniteSet(S), NEW a, NEW b, NEW c, NEW d, NEW e
  PROVE  IsFiniteSet(S \cup {a, b, c, d, e})
<1>1. IsFiniteSet(S \cup {a})
  BY FS_AddElement
<1>2. IsFiniteSet((S \cup {a}) \cup {b})
  BY <1>1, FS_AddElement
<1>3. IsFiniteSet(((S \cup {a}) \cup {b}) \cup {c})
  BY <1>2, FS_AddElement
<1>4. IsFiniteSet((((S \cup {a}) \cup {b}) \cup {c}) \cup {d})
  BY <1>3, FS_AddElement
<1>5. IsFiniteSet(((((S \cup {a}) \cup {b}) \cup {c}) \cup {d}) \cup {e})
  BY <1>4, FS_AddElement
<1>6. S \cup {a, b, c, d, e} = ((((S \cup {a}) \cup {b}) \cup {c}) \cup {d}) \cup {e}
  OBVIOUS
<1>7. QED
  BY <1>5, <1>6

LEMMA AnchorsFinite == IsFiniteSet(ANCHOR_COMPONENTS)
<1>1. ANCHOR_COMPONENTS =
         ({} \cup {"gpu_renderer", "gpu_vendor", "cpu_cores", "device_memory_gb", "screen_w"})
         \cup {"screen_h", "color_depth", "platform", "audio_dsp_hash", "touch_points"}
  BY DEF ANCHOR_COMPONENTS, AnchorBits
<1>2. QED
  BY <1>1, FS_EmptySet, FiveMore

\* Withholding an anchor can only take agreement away: what it is scored out
\* of is the known device's.
LEMMA WithheldAgreesLess ==
  ASSUME NEW candidate, NEW known, NEW c \in Given(candidate) \cap ANCHOR_COMPONENTS,
         relink([candidate EXCEPT ![c] = "absent"], known)
  PROVE  relink(candidate, known)
<1> DEFINE withheld == [candidate EXCEPT ![c] = "absent"]
<1>1. compared(withheld, known) = compared(candidate, known)
      /\ compared(candidate, known) \subseteq ANCHOR_COMPONENTS
  BY DEF compared
<1>2. agreed(withheld, known) \subseteq agreed(candidate, known)
  BY <1>1 DEF agreed, Given
<1>3. IsFiniteSet(compared(candidate, known)) /\ IsFiniteSet(agreed(candidate, known))
  BY <1>1, AnchorsFinite, FS_Subset DEF agreed
<1>4. PICK n \in Nat, more \in Nat, fewer \in Nat :
         /\ n = Cardinality(compared(candidate, known))
         /\ more = Cardinality(agreed(candidate, known))
         /\ fewer = Cardinality(agreed(withheld, known))
         /\ fewer <= more
  BY <1>2, <1>3, FS_Subset, FS_CardinalityType
<1>5. n >= 3 /\ 1000 * fewer >= 720 * n /\ HIGH_ENTROPY_ANCHORS \cap agreed(withheld, known) # {}
  BY <1>1, <1>4 DEF relink, RELINK_SIMILARITY
<1>6. n >= 3 /\ 1000 * more >= 720 * n /\ HIGH_ENTROPY_ANCHORS \cap agreed(candidate, known) # {}
  <2>1. 1000 * more >= 720 * n
    BY <1>4, <1>5
  <2>2. HIGH_ENTROPY_ANCHORS \cap agreed(candidate, known) # {}
    BY <1>2, <1>5, Zenon
  <2>3. QED
    BY <1>5, <2>1, <2>2
<1>7. QED
  BY <1>4, <1>6 DEF relink, RELINK_SIMILARITY

\* What would not be linked to a device on record with an anchor reported is
\* not linked to it with that anchor withheld, whatever is reported.
THEOREM SilenceDoesNotPay == LadderSpec => []WithholdingNeverHelps
<1>1. WithholdingNeverHelps
  BY WithheldAgreesLess DEF WithholdingNeverHelps
<1>2. QED
  BY <1>1, PTL

\* A payment between two stages, and what the stages behind it have settled.
LadderShape ==
    [pc: {"model", "sequence", "card_device", "match", "cascade", "network", "novelty",
          "device", "scored"},
     door: {"build_event", "score"}, row: Row, score: Int, local: Int, sequence: Int,
     steady: BOOLEAN]

LadderTypeOK ==
    /\ identities = [s \in Subject |-> identities[s]]
    /\ ladder \in {Unscored} \cup LadderShape

OverLocal ==
    ladder.pc \in {"novelty", "device", "scored"} => ladder.score >= ladder.local

DeviceGateMet ==
    ladder.pc = "scored" /\ ladder.steady /\ "device_graph" \in layers
      /\ resolve_device_id(ladder.row) \in SuspectDevice
    => ladder.score >= DeviceLine

LadderInv == LadderTypeOK /\ OverLocal /\ DeviceGateMet

LEMMA BestIsBest ==
  ASSUME NEW score \in Int, NEW line \in Int
  PROVE  Best(score, line) \in Int /\ Best(score, line) >= score /\ Best(score, line) >= line
BY DEF Best

\* The stages up to the match, none of which is held to anything yet.
LEMMA EarlyStages ==
  ASSUME LadderInv, NEW pc \in {"model", "sequence", "card_device", "match", "cascade", "network"},
         NEW score \in Int, NEW sequence \in Int, ladder \in LadderShape,
         ladder' = [ladder EXCEPT !.pc = pc, !.score = score, !.sequence = sequence],
         UNCHANGED <<identities, layers>>
  PROVE  LadderInv'
<1>1. ladder' \in LadderShape /\ ladder'.pc = pc
  BY DEF LadderShape
<1>2. QED
  BY <1>1 DEF LadderInv, LadderTypeOK, OverLocal, DeviceGateMet

LEMMA Lines == (\A score \in Score : score \in Int) /\ SequenceLine \in Int /\ DeviceLine \in Int
BY LadderAssumption DEF LadderAssumption

LEMMA GateHolds ==
  ASSUME NEW score \in Int, NEW row
  PROVE  /\ apply_device_gate(score, row) \in Int /\ apply_device_gate(score, row) >= score
         /\ "device_graph" \in layers /\ resolve_device_id(row) \in SuspectDevice
              => apply_device_gate(score, row) >= DeviceLine
BY Lines, BestIsBest DEF apply_device_gate

LEMMA NetworkHolds ==
  ASSUME NEW score \in Int, NEW risk \in Int, NEW sees
  PROVE  /\ apply_escalate_only(score, risk, sees) \in Int
         /\ apply_escalate_only(score, risk, sees) >= score
<1>1. CASE sees
  BY <1>1, BestIsBest DEF apply_escalate_only
<1>2. CASE ~sees
  <2>1. apply_escalate_only(score, risk, sees) = score
    BY <1>2, Zenon DEF apply_escalate_only
  <2>2. QED
    BY <2>1
<1>3. QED
  BY <1>1, <1>2

LEMMA NoveltyHolds ==
  ASSUME NEW score \in Int, NEW novel
  PROVE  /\ apply_novelty_gate(score, novel) \in Int
         /\ apply_novelty_gate(score, novel) >= score
<1>1. PICK best \in Int : best = Best(score, _alert_line) /\ best >= score
  BY BestIsBest DEF _alert_line
<1>2. apply_novelty_gate(score, novel) \in {best, score}
  BY <1>1, Zenon DEF apply_novelty_gate
<1>3. QED
  BY <1>1, <1>2

LEMMA LadderInvInit == LadderInit => LadderInv
BY DEF LadderInit, IdentityInit, LadderInv, LadderTypeOK, OverLocal, DeviceGateMet, Unscored

LEMMA StagesKeep ==
  ASSUME LadderInv,
         \/ ScoreByRail \/ SequenceGate \/ CardDeviceGate \/ MatchPatterns \/ Cascade
         \/ NetworkView \/ NoveltyGate \/ DeviceGate
  PROVE  LadderInv'
<1>0. /\ ladder \in LadderShape /\ UNCHANGED <<identities, layers>>
      /\ ladder.score \in Int /\ ladder.sequence \in Int /\ ladder.local \in Int
  <2>1. ladder # Unscored
    <3>1. ladder.pc \in {"model", "sequence", "card_device", "match", "cascade", "network",
                         "novelty", "device"}
      BY DEF ScoreByRail, SequenceGate, CardDeviceGate, MatchPatterns, Cascade, NetworkView,
             NoveltyGate, DeviceGate
    <3>2. Unscored.pc = "idle"
      BY DEF Unscored
    <3>3. QED
      BY <3>1, <3>2
  <2>2. ladder \in LadderShape
    BY <2>1 DEF LadderInv, LadderTypeOK
  <2>3. QED
    BY <2>2 DEF ScoreByRail, SequenceGate, CardDeviceGate, MatchPatterns, Cascade, NetworkView,
           NoveltyGate, DeviceGate, identityVars, LadderShape
<1>1. (\A score \in Score : score \in Int) /\ SequenceLine \in Int /\ DeviceLine \in Int
  BY Lines
<1>2. ladder = [ladder EXCEPT !.sequence = ladder.sequence]
  BY <1>0 DEF LadderShape
<1>3. ASSUME NEW pc \in {"model", "sequence", "card_device", "match", "cascade", "network"},
             NEW score \in Int, Onward(pc, score)
      PROVE  LadderInv'
  <2>1. ladder' = [ladder EXCEPT !.pc = pc, !.score = score, !.sequence = ladder.sequence]
    BY <1>0, <1>3 DEF Onward, LadderShape
  <2>2. QED
    BY <1>0, <2>1, EarlyStages
<1>4. CASE ScoreByRail
  <2>1. \/ \E ml \in Score : Onward("match", ml) \/ Onward("sequence", ml)
        \/ Onward("sequence", 0)
    BY <1>4, Zenon DEF ScoreByRail
  <2>2. QED
    BY <1>1, <1>3, <2>1
<1>5. CASE SequenceGate
  <2>1. PICK score \in Int :
           ladder' = [ladder EXCEPT !.pc = "card_device", !.score = score, !.sequence = score]
    BY <1>0, <1>1, <1>5, BestIsBest DEF SequenceGate
  <2>2. QED
    BY <1>0, <2>1, EarlyStages
<1>6. CASE CardDeviceGate
  BY <1>0, <1>3, <1>6, GateHolds DEF CardDeviceGate
<1>7. CASE MatchPatterns
  <2>1. PICK confidence \in Score :
           Onward(IF ladder.door = "build_event" THEN "cascade" ELSE "network",
                  combined_score(ladder.score, confidence))
    BY <1>7 DEF MatchPatterns
  <2>2. combined_score(ladder.score, confidence) \in Int
    BY <1>0, <1>1 DEF combined_score
  <2>3. QED
    BY <1>3, <2>1, <2>2
<1>8. CASE Cascade
  <2>1. \A gnn \in Score : cascade_blend(ladder.score, gnn) \in Int
    BY <1>0, <1>1 DEF cascade_blend
  <2>2. QED
    BY <1>0, <1>3, <1>8, <2>1 DEF Cascade
<1>9. CASE NetworkView
  <2>1. PICK score \in Int :
           /\ ladder' = [ladder EXCEPT !.pc = "novelty", !.local = ladder.score, !.score = score]
           /\ score >= ladder.score
    <3>1. PICK risk \in Score, sees \in BOOLEAN :
             ladder' = [ladder EXCEPT !.pc = "novelty", !.local = ladder.score,
                            !.score = apply_escalate_only(ladder.score, risk, sees)]
      BY <1>9 DEF NetworkView
    <3>2. /\ apply_escalate_only(ladder.score, risk, sees) \in Int
          /\ apply_escalate_only(ladder.score, risk, sees) >= ladder.score
      BY <1>0, <1>1, NetworkHolds
    <3>3. QED
      BY <3>1, <3>2
  <2>2. QED
    BY <1>0, <2>1 DEF LadderInv, LadderTypeOK, OverLocal, DeviceGateMet, LadderShape
<1>10. CASE NoveltyGate
  <2>1. PICK score \in Int :
           /\ ladder' = [ladder EXCEPT !.pc = "device", !.score = score]
           /\ score >= ladder.score /\ ladder.pc = "novelty"
    <3>1. PICK novel \in BOOLEAN :
             ladder' = [ladder EXCEPT !.pc = "device",
                                      !.score = apply_novelty_gate(ladder.score, novel)]
      BY <1>10 DEF NoveltyGate, Onward
    <3>2. /\ apply_novelty_gate(ladder.score, novel) \in Int
          /\ apply_novelty_gate(ladder.score, novel) >= ladder.score
      BY <1>0, NoveltyHolds
    <3>3. QED
      BY <1>10, <3>1, <3>2 DEF NoveltyGate
  <2>2. ladder.score >= ladder.local
    BY <2>1 DEF LadderInv, OverLocal
  <2>3. ladder' \in LadderShape /\ ladder'.pc = "device" /\ ladder'.score >= ladder'.local
    <3>1. /\ ladder' \in LadderShape /\ ladder'.pc = "device" /\ ladder'.score = score
          /\ ladder'.local = ladder.local
      BY <1>0, <2>1 DEF LadderShape
    <3>2. score >= ladder.local
      BY <1>0, <2>1, <2>2
    <3>3. QED
      BY <3>1, <3>2
  <2>4. QED
    BY <1>0, <2>3 DEF LadderInv, LadderTypeOK, OverLocal, DeviceGateMet
<1>11. CASE DeviceGate
  <2>1. PICK score \in Int :
           /\ ladder' = [ladder EXCEPT !.pc = "scored", !.score = score]
           /\ score >= ladder.score /\ ladder.pc = "device"
           /\ "device_graph" \in layers /\ resolve_device_id(ladder.row) \in SuspectDevice
                => score >= DeviceLine
    BY <1>0, <1>11, GateHolds DEF DeviceGate, FinalGate, Onward
  <2>2. ladder.score >= ladder.local
    BY <2>1 DEF LadderInv, OverLocal
  <2>3. /\ ladder' \in LadderShape /\ ladder'.row = ladder.row /\ ladder'.score = score
        /\ ladder'.local = ladder.local /\ ladder'.pc = "scored"
    BY <1>0, <2>1 DEF LadderShape
  <2>4. LadderTypeOK' /\ OverLocal'
    BY <1>0, <2>1, <2>2, <2>3 DEF LadderInv, LadderTypeOK, OverLocal
  <2>5. resolve_device_id(ladder.row)' = resolve_device_id(ladder.row)
    BY <1>0, <2>3 DEF resolve_device_id
  <2>6. DeviceGateMet'
    BY <1>0, <2>1, <2>3, <2>5 DEF DeviceGateMet
  <2>7. QED
    BY <2>4, <2>6 DEF LadderInv
<1>12. QED
  BY <1>4, <1>5, <1>6, <1>7, <1>8, <1>9, <1>10, <1>11

\* A fingerprint or a telemetry row arrives; the payment, if any, is where it was.
LEMMA FingerprintKeeps ==
  ASSUME LadderInv, NEW s \in Subject, FingerprintArrives(s)
  PROVE  LadderInv'
<1>1. PICK report \in Report :
         identities' = IF derive(report.components).is_identity
                       THEN [identities EXCEPT ![s] = derive(report.components)] ELSE identities
  BY DEF FingerprintArrives, PostFingerprint
<1>2. /\ identities' = [t \in Subject |-> identities'[t]]
      /\ \A t \in Subject : t # s => identities'[t] = identities[t]
  BY <1>1 DEF LadderInv, LadderTypeOK
<1>3. CASE ladder = Unscored
  BY <1>2, <1>3 DEF FingerprintArrives, LadderInv, LadderTypeOK, OverLocal, DeviceGateMet, Unscored
<1>4. CASE ladder \in LadderShape /\ ladder.row.subject # s
  <2>1. ladder' = ladder /\ layers' = layers
    BY <1>4 DEF FingerprintArrives
  <2>2. ladder.row.subject \in Subject
    BY <1>4, LadderAssumption DEF LadderAssumption, LadderShape
  <2>3. resolve_device_id(ladder.row)' = resolve_device_id(ladder.row)
    BY <1>2, <1>4, <2>1, <2>2 DEF resolve_device_id
  <2>4. QED
    BY <1>2, <1>4, <2>1, <2>3 DEF LadderInv, LadderTypeOK, OverLocal, DeviceGateMet
<1>5. CASE ladder \in LadderShape /\ ladder.row.subject = s
  <2>1. PICK steady \in BOOLEAN :
           /\ ladder' = [ladder EXCEPT !.steady = steady]
           /\ steady => identities'[s] = identities[s] /\ ladder.steady
    <3>1. ladder # Unscored /\ ladder.steady \in BOOLEAN
      BY <1>5 DEF Unscored, LadderShape
    <3>2. QED
      BY <1>5, <3>1 DEF FingerprintArrives
  <2>2. /\ ladder' \in LadderShape /\ ladder'.row = ladder.row /\ ladder'.score = ladder.score
        /\ ladder'.local = ladder.local /\ ladder'.pc = ladder.pc /\ ladder'.steady = steady
    BY <1>5, <2>1 DEF LadderShape
  <2>3. layers' = layers
    BY DEF FingerprintArrives
  <2>4. steady => resolve_device_id(ladder.row)' = resolve_device_id(ladder.row)
    BY <1>5, <2>1, <2>2 DEF resolve_device_id
  <2>5. QED
    BY <1>2, <2>1, <2>2, <2>3, <2>4 DEF LadderInv, LadderTypeOK, OverLocal, DeviceGateMet
<1>6. QED
  BY <1>3, <1>4, <1>5 DEF LadderInv, LadderTypeOK

LEMMA LadderStep ==
  ASSUME LadderInv, [LadderNext]_ladderVars
  PROVE  LadderInv'
<1>1. ASSUME NEW door \in {"build_event", "score"}, NEW row \in Row, Receive(door, row)
      PROVE  LadderInv'
  BY <1>1 DEF Receive, identityVars, LadderInv, LadderTypeOK, LadderShape, OverLocal, DeviceGateMet
<1>2. CASE Return
  BY <1>2 DEF Return, identityVars, LadderInv, LadderTypeOK, Unscored, OverLocal, DeviceGateMet
<1>3. CASE WarmNetwork
  BY <1>3 DEF WarmNetwork, identityVars, LadderInv, LadderTypeOK, OverLocal, DeviceGateMet,
              resolve_device_id
<1>4. ASSUME NEW s \in Subject, TelemetryArrives(s) PROVE LadderInv'
  BY <1>4 DEF TelemetryArrives, PostTelemetry, LadderInv, LadderTypeOK, OverLocal, DeviceGateMet,
              resolve_device_id
<1>5. CASE UNCHANGED ladderVars
  BY <1>5 DEF ladderVars, identityVars, LadderInv, LadderTypeOK, OverLocal, DeviceGateMet,
              resolve_device_id
<1>6. CASE LadderNext
  BY <1>1, <1>2, <1>3, <1>4, <1>6, StagesKeep, FingerprintKeeps DEF LadderNext
<1>7. QED
  BY <1>5, <1>6

\* What is priced and alerted on is at least the institution's own score, and
\* at least what the device gate raises a score to if it fires on the payment's
\* device: whatever the models answer, whichever layers are loaded, and
\* whenever fingerprints arrive and the network index warms up.
THEOREM ScoresOnlyEscalate == LadderSpec => []EscalateOnly
<1>1. LadderInv => EscalateOnly
  BY DEF LadderInv, OverLocal, DeviceGateMet, EscalateOnly
<1>2. QED
  BY LadderInvInit, LadderStep, <1>1, PTL DEF LadderSpec

-----------------------------------------------------------------------------
(* DisputeDesk, for any disputes, codes, clerks and numbers of events and     *)
(* files.  Only the chargeback that opens a dispute names a code, every file  *)
(* is made of what the network did, and a clerk about to write a label holds  *)
(* a file that is in the log and that has a ruling.                           *)

NetworkEvent ==
    [stage: Range(STAGES) \cup {""}, terminal: TERMINAL \cup {""},
     reason_code: Code \cup {""}, evidence: BOOLEAN]

OpenedOnce ==
    /\ filed \in [Dispute -> Seq(NetworkEvent)]
    /\ \A d \in Dispute : filed[d] # <<>> => filed[d][1].stage = "chargeback"
    /\ \A d \in Dispute : \A i \in DOMAIN filed[d] : i # 1 => filed[d][i].reason_code = ""

FilesAreTrue ==
    /\ logged \in [Dispute -> SUBSET Seq(NetworkEvent)]
    /\ \A d \in Dispute : \A file \in logged[d] : Range(file) \subseteq Range(filed[d])

ClerksHoldRulings ==
    /\ desk_call = [c \in Clerk |-> desk_call[c]]
    /\ \A c \in Clerk : desk_call[c] # <<>> =>
           \E d \in Dispute : \E file \in logged[d] :
               desk_call[c] = <<d, file>> /\ may_emit(advance(file))

DeskInv ==
    /\ OpenedOnce /\ FilesAreTrue /\ ClerksHoldRulings
    /\ label = [d \in Dispute |-> label[d]]
    /\ LabelFollowsARuling

LEMMA GreatestId ==
  ASSUME NEW n \in Nat, NEW T, T \subseteq 0..n, T # {}
  PROVE  Max(T) \in T /\ \A y \in T : Max(T) >= y
<1> DEFINE Mirror == {n - x : x \in T}
<1>0. \A x \in T : x \in Int /\ n - x \in Nat
  OBVIOUS
<1>1. Mirror \subseteq Nat /\ Mirror # {}
  BY <1>0
<1>2. Min(Mirror) \in Mirror /\ \A y \in Mirror : Min(Mirror) <= y
  BY <1>1, LeastId
<1>3. PICK x \in T : Min(Mirror) = n - x
  BY <1>2
<1>4. \A y \in T : n - x <= n - y
  BY <1>2, <1>3
<1>5. \A y \in T : x >= y
  BY <1>0, <1>4
<1>6. QED
  BY <1>5 DEF Max

LEMMA StageTable == DOMAIN STAGES = 1..4 /\ Len(STAGES) = 4 /\ STAGES[1] = "chargeback"
BY DEF STAGES

LEMMA StageIndexOf == \A i \in 1..4 : STAGES[i] \in Range(STAGES) /\ StageIndex(STAGES[i]) = i
<1>1. \A i, j \in 1..4 : STAGES[i] = STAGES[j] => i = j
  BY DEF STAGES
<1>2. ASSUME NEW i \in 1..4 PROVE STAGES[i] \in Range(STAGES)
  BY StageTable DEF Range
<1>3. ASSUME NEW i \in 1..4 PROVE StageIndex(STAGES[i]) = i
  BY <1>1, <1>2, StageTable DEF StageIndex
<1>4. QED
  BY <1>2, <1>3

LEMMA StageIndexRange == \A stage : StageIndex(stage) \in 0..4
<1>1. ASSUME NEW stage, stage \in Range(STAGES) PROVE StageIndex(stage) \in 0..4
  <2>1. PICK i \in 1..4 : STAGES[i] = stage
    BY <1>1, StageTable DEF Range
  <2>2. QED
    BY <2>1, StageIndexOf
<1>2. QED
  BY <1>1 DEF StageIndex

LEMMA StageIndexOfOpening == StageIndex("") = 0 /\ StageIndex("chargeback") = 1
<1>1. STAGES[1] = "chargeback" /\ STAGES[2] = "representment"
      /\ STAGES[3] = "pre_arbitration" /\ STAGES[4] = "arbitration"
  BY DEF STAGES
<1>2. \A i \in {1, 2, 3, 4} : STAGES[i] # ""
  BY <1>1
<1>3. 1..4 = {1, 2, 3, 4}
  OBVIOUS
<1>4. "" \notin Range(STAGES)
  BY <1>2, <1>3, StageTable DEF Range
<1>5. StageIndex("") = 0
  BY <1>4 DEF StageIndex
<1>6. 1 \in 1..4
  OBVIOUS
<1>7. StageIndex(STAGES[1]) = 1
  BY <1>6, StageIndexOf
<1>8. QED
  BY <1>1, <1>5, <1>7

\* A dispute that was opened has passed its first stage for good.
LEMMA OpenedIsPast ==
  ASSUME NEW events \in Seq(NetworkEvent), events # <<>>, events[1].stage = "chargeback"
  PROVE  StageIndex(advance(events).stage) >= 1
<1> DEFINE T == {0} \cup {StageIndex(events[i].stage) : i \in DOMAIN events}
<1>1. DOMAIN events = 1..Len(events) /\ Len(events) \in Nat /\ 1 \in DOMAIN events
  BY LenProperties, EmptySeq
<1>2. T \subseteq 0..4
  BY StageIndexRange
<1>3. 1 \in T
  BY <1>1, StageIndexOfOpening
<1>4. Max(T) \in 0..4 /\ Max(T) >= 1
  BY <1>2, <1>3, GreatestId
<1>5. PICK m \in 1..4 : furthest(events) = m
  BY <1>4 DEF furthest
<1>6. advance(events).stage = STAGES[m]
  <2>1. furthest(events) # 0
    BY <1>5
  <2>2. advance(events).stage = STAGES[furthest(events)]
    BY <2>1 DEF advance
  <2>3. QED
    BY <1>5, <2>2
<1>7. QED
  BY <1>6, StageIndexOf

LEMMA NothingFiledYet == StageIndex(advance(<<>>).stage) = 0
<1>1. {0} \cup {StageIndex(<<>>[i].stage) : i \in DOMAIN <<>>} = {0}
  OBVIOUS
<1>2. furthest(<<>>) = Max({0})
  BY <1>1 DEF furthest
<1>3. Max({0}) = 0
  BY DEF Max
<1>4. QED
  BY <1>2, <1>3, StageIndexOfOpening DEF advance

\* What derive_outcome emits rests on a ruling and a code that are in the file.
LEMMA RulingBehindALabel ==
  ASSUME NEW file \in Seq(NetworkEvent), may_emit(advance(file))
  PROVE  /\ \E i \in DOMAIN file :
                IF derive_outcome(advance(file)).value = "fraud" THEN file[i].terminal = "issuer_won"
                ELSE file[i].terminal \in {"merchant_won", "withdrawn"}
         /\ \E j \in DOMAIN file : file[j].reason_code \in FraudCodes \ ProgramCodes
<1> DEFINE st == advance(file)
<1>1. DOMAIN file = 1..Len(file) /\ Len(file) \in Nat
  BY LenProperties
<1>2. st.terminal # "" /\ st.terminal # "expired" /\ st.reason_code \in FraudCodes \ ProgramCodes
  BY DEF may_emit, settled, classify
<1>3. Rulings(file) # {} /\ st.terminal = file[Max(Rulings(file))].terminal
  BY <1>2 DEF advance
<1>4. Max(Rulings(file)) \in Rulings(file)
  <2>1. Rulings(file) \subseteq 0..Len(file)
    BY <1>1 DEF Rulings
  <2>2. QED
    BY <1>1, <1>3, <2>1, GreatestId
<1>5. PICK i \in DOMAIN file : file[i].terminal = st.terminal /\ file[i].terminal \in TERMINAL
  BY <1>3, <1>4 DEF Rulings
<1>6. st.terminal \in {"issuer_won", "merchant_won", "withdrawn"}
  BY <1>2, <1>5 DEF TERMINAL
<1>7. IF derive_outcome(st).value = "fraud" THEN st.terminal = "issuer_won"
      ELSE st.terminal \in {"merchant_won", "withdrawn"}
  BY <1>6 DEF derive_outcome
<1>8. st.reason_code # ""
  BY <1>2 DEF FraudCodes
<1>9. Openings(file) # {} /\ st.reason_code = file[Min(Openings(file))].reason_code
  BY <1>8 DEF advance
<1>10. Min(Openings(file)) \in Openings(file)
  <2>1. Openings(file) \subseteq DOMAIN file
    BY DEF Openings
  <2>2. Openings(file) \subseteq Nat
    BY <1>1, <2>1
  <2>3. QED
    BY <1>9, <2>2, LeastId
<1>11. QED
  BY <1>2, <1>5, <1>7, <1>9, <1>10 DEF Openings

\* A dispute has one code, whichever of its events a file shows.
LEMMA OneCode ==
  ASSUME OpenedOnce, NEW d \in Dispute, NEW file, Range(file) \subseteq Range(filed[d]),
         NEW j \in DOMAIN file, file[j].reason_code # ""
  PROVE  file[j].reason_code = filed[d][1].reason_code
<1>1. PICK k \in DOMAIN filed[d] : filed[d][k] = file[j]
  BY DEF Range
<1>2. k = 1
  BY <1>1 DEF OpenedOnce
<1>3. QED
  BY <1>1, <1>2

\* The network opens a dispute with a chargeback, and names no code later.
LEMMA NetworkAddsOne ==
  ASSUME DeskInv, NEW d \in Dispute, NetworkMoves(d)
  PROVE  \E ev \in NetworkEvent :
            /\ filed' = [filed EXCEPT ![d] = Append(filed[d], ev)]
            /\ filed[d] = <<>> => ev.stage = "chargeback"
            /\ filed[d] # <<>> => ev.reason_code = ""
<1> DEFINE st == advance(filed[d])
           Adds(ev) == filed' = [filed EXCEPT ![d] = Append(filed[d], ev)]
<1>1. PICK k \in 0..4 : k = StageIndex(st.stage)
  BY StageIndexRange
<1>2. filed[d] = <<>> => k = 0
  BY <1>1, NothingFiledYet
<1>3. filed[d] # <<>> => k >= 1
  BY <1>1, OpenedIsPast DEF DeskInv, OpenedOnce
<1>4. k < 4 => STAGES[k + 1] \in Range(STAGES)
  <2>1. k < 4 => k + 1 \in 1..4
    OBVIOUS
  <2>2. QED
    BY <2>1, StageIndexOf
<1>5. k = 0 => STAGES[k + 1] = "chargeback"
  <2>1. k = 0 => k + 1 = 1
    OBVIOUS
  <2>2. QED
    BY <2>1, StageTable, Zenon
<1>6. k >= 1 /\ k < 4 => STAGES[k + 1] # "chargeback"
  <2>1. k >= 1 /\ k < 4 => k + 1 \in 1..4 /\ k + 1 # 1
    OBVIOUS
  <2>2. QED
    BY <2>1, StageIndexOf, StageIndexOfOpening, Zenon
<1>7. CASE /\ k < 4
           /\ \E code \in IF STAGES[k + 1] = "chargeback" THEN Code ELSE {""} :
              \E evidence \in IF STAGES[k + 1] = "representment" THEN BOOLEAN ELSE {FALSE} :
                 Adds(Event(STAGES[k + 1], "", code, evidence))
  <2>1. PICK code \in IF STAGES[k + 1] = "chargeback" THEN Code ELSE {""} :
           \E evidence \in IF STAGES[k + 1] = "representment" THEN BOOLEAN ELSE {FALSE} :
              Adds(Event(STAGES[k + 1], "", code, evidence))
    BY <1>7
  <2>2. PICK evidence \in BOOLEAN : Adds(Event(STAGES[k + 1], "", code, evidence))
    BY <2>1
  <2>3. code \in Code \cup {""} /\ (STAGES[k + 1] # "chargeback" => code = "")
    OBVIOUS
  <2>4. PICK stage \in Range(STAGES) : stage = STAGES[k + 1]
    BY <1>4, <1>7, Zenon
  <2>5. /\ Event(stage, "", code, evidence) \in NetworkEvent
        /\ Event(stage, "", code, evidence).stage = stage
        /\ Event(stage, "", code, evidence).reason_code = code
    BY <2>3 DEF Event, NetworkEvent
  <2>6. filed[d] = <<>> => stage = "chargeback"
    BY <1>2, <1>5, <2>4, Zenon
  <2>7. filed[d] # <<>> => code = ""
    BY <1>3, <1>6, <1>7, <2>3, Zenon
  <2>8. QED
    BY <2>2, <2>4, <2>5, <2>6, <2>7, Zenon
<1>8. CASE filed[d] # <<>> /\ \E terminal \in TERMINAL : Adds(Event("", terminal, "", FALSE))
  <2>1. PICK terminal \in TERMINAL : Adds(Event("", terminal, "", FALSE))
    BY <1>8
  <2>2. /\ Event("", terminal, "", FALSE) \in NetworkEvent
        /\ Event("", terminal, "", FALSE).reason_code = ""
    BY DEF Event, NetworkEvent
  <2>3. QED
    BY <1>8, <2>1, <2>2, Zenon
<1>9. QED
  BY <1>1, <1>7, <1>8, StageTable DEF NetworkMoves

LEMMA NetworkDeskInv ==
  ASSUME DeskInv, NEW d \in Dispute, NetworkMoves(d)
  PROVE  DeskInv'
<1>1. filed[d] \in Seq(NetworkEvent) /\ Len(filed[d]) \in Nat /\ DOMAIN filed[d] = 1..Len(filed[d])
  BY LenProperties DEF DeskInv, OpenedOnce
<1>2. PICK ev \in NetworkEvent :
         /\ filed' = [filed EXCEPT ![d] = Append(filed[d], ev)]
         /\ filed[d] = <<>> => ev.stage = "chargeback"
         /\ filed[d] # <<>> => ev.reason_code = ""
  BY NetworkAddsOne
<1>3. /\ filed'[d] = Append(filed[d], ev)
      /\ \A other \in Dispute : other # d => filed'[other] = filed[other]
      /\ filed' \in [Dispute -> Seq(NetworkEvent)]
  BY <1>1, <1>2, AppendProperties DEF DeskInv, OpenedOnce
<1>4. /\ Len(filed'[d]) = Len(filed[d]) + 1 /\ DOMAIN filed'[d] = 1..(Len(filed[d]) + 1)
      /\ filed'[d][Len(filed[d]) + 1] = ev
      /\ \A i \in DOMAIN filed[d] : i \in DOMAIN filed'[d] /\ filed'[d][i] = filed[d][i]
  BY <1>1, <1>3, AppendProperties, LenProperties
<1>5. filed[d] = <<>> \/ 1 \in DOMAIN filed[d]
  BY <1>1, EmptySeq
<1>6. OpenedOnce'
  <2>1. filed'[d][1].stage = "chargeback"
    <3>1. CASE filed[d] = <<>>
      BY <1>2, <1>4, <3>1
    <3>2. CASE filed[d] # <<>>
      BY <1>4, <1>5, <3>2 DEF DeskInv, OpenedOnce
    <3>3. QED
      BY <3>1, <3>2
  <2>2. ASSUME NEW i \in DOMAIN filed'[d], i # 1 PROVE filed'[d][i].reason_code = ""
    <3>1. CASE i \in DOMAIN filed[d]
      BY <1>4, <2>2, <3>1 DEF DeskInv, OpenedOnce
    <3>2. CASE i = Len(filed[d]) + 1
      <4>1. filed[d] # <<>>
        BY <2>2, <3>2
      <4>2. QED
        BY <1>2, <1>4, <3>2, <4>1
    <3>3. i \in DOMAIN filed[d] \/ i = Len(filed[d]) + 1
      BY <1>1, <1>4, <2>2
    <3>4. QED
      BY <3>1, <3>2, <3>3
  <2>3. QED
    BY <1>3, <2>1, <2>2 DEF DeskInv, OpenedOnce
<1>7. \A other \in Dispute : Range(filed[other]) \subseteq Range(filed'[other])
  BY <1>3, <1>4 DEF Range
<1>8. UNCHANGED <<logged, label, desk_call>>
  BY DEF NetworkMoves
<1>9. FilesAreTrue' /\ ClerksHoldRulings'
  BY <1>7, <1>8 DEF DeskInv, FilesAreTrue, ClerksHoldRulings
<1>10. \A other \in Dispute : filed[other] # <<>> => filed'[other][1] = filed[other][1]
  BY <1>3, <1>4, <1>5
<1>11. LabelFollowsARuling'
  <2>1. SUFFICES ASSUME NEW other \in Dispute, label[other] # NoLabel
        PROVE  /\ filed'[other][1].reason_code \in FraudCodes \ ProgramCodes
               /\ \E file \in logged[other] : \E i \in DOMAIN file :
                     /\ file[i] \in Range(filed'[other])
                     /\ IF label[other].value = "fraud" THEN file[i].terminal = "issuer_won"
                        ELSE file[i].terminal \in {"merchant_won", "withdrawn"}
    BY <1>8 DEF LabelFollowsARuling
  <2>2. PICK file \in logged[other] : \E i \in DOMAIN file :
                     /\ file[i] \in Range(filed[other])
                     /\ IF label[other].value = "fraud" THEN file[i].terminal = "issuer_won"
                        ELSE file[i].terminal \in {"merchant_won", "withdrawn"}
    BY <2>1 DEF DeskInv, LabelFollowsARuling
  <2>3. filed[other] # <<>>
    BY <2>2 DEF Range
  <2>4. QED
    BY <1>7, <1>10, <2>1, <2>2, <2>3 DEF DeskInv, LabelFollowsARuling
<1>12. QED
  BY <1>6, <1>8, <1>9, <1>11 DEF DeskInv

\* An event sent again adds nothing to what a file shows.
LEMMA SentAgain ==
  ASSUME NEW p \in Seq(NetworkEvent), NEW i \in DOMAIN p
  PROVE  Append(p, p[i]) \in Seq(NetworkEvent) /\ Range(Append(p, p[i])) \subseteq Range(p)
<1>1. Len(p) \in Nat /\ DOMAIN p = 1..Len(p) /\ p[i] \in NetworkEvent
  BY LenProperties, ElementOfSeq
<1>2. /\ Append(p, p[i]) \in Seq(NetworkEvent) /\ Len(Append(p, p[i])) = Len(p) + 1
      /\ \A j \in 1..Len(p) : Append(p, p[i])[j] = p[j]
      /\ Append(p, p[i])[Len(p) + 1] = p[i]
  BY <1>1, AppendProperties
<1>3. DOMAIN Append(p, p[i]) = 1..(Len(p) + 1)
  BY <1>2, LenProperties
<1>4. \A j \in 1..(Len(p) + 1) : j \in 1..Len(p) \/ j = Len(p) + 1
  BY <1>1
<1>5. \A j \in DOMAIN Append(p, p[i]) : \E n \in DOMAIN p : Append(p, p[i])[j] = p[n]
  BY <1>1, <1>2, <1>3, <1>4
<1>6. QED
  BY <1>2, <1>5 DEF Range

LEMMA LogFileDeskInv ==
  ASSUME DeskInv, NEW c \in Clerk, LogFile(c)
  PROVE  DeskInv'
<1>0. PICK d \in Dispute : \E file \in Files(d) :
        /\ logged' = [logged EXCEPT ![d] = @ \cup {file}]
        /\ desk_call' = IF may_emit(advance(file)) THEN [desk_call EXCEPT ![c] = <<d, file>>]
                        ELSE desk_call
  BY DEF LogFile
<1>1. PICK file \in Files(d) :
        /\ logged' = [logged EXCEPT ![d] = @ \cup {file}]
        /\ desk_call' = IF may_emit(advance(file)) THEN [desk_call EXCEPT ![c] = <<d, file>>]
                        ELSE desk_call
  BY <1>0
<1>2. UNCHANGED <<filed, label>>
  BY DEF LogFile
<1>3. file \in Seq(NetworkEvent) /\ Range(file) \subseteq Range(filed[d])
  <2> DEFINE prefixes == {SubSeq(filed[d], 1, n) : n \in 1..Len(filed[d])}
  <2>1. filed[d] \in Seq(NetworkEvent) /\ Len(filed[d]) \in Nat /\ DOMAIN filed[d] = 1..Len(filed[d])
        /\ \A i \in 1..Len(filed[d]) : filed[d][i] \in NetworkEvent
    BY LenProperties, ElementOfSeq DEF DeskInv, OpenedOnce
  <2>2. ASSUME NEW p \in prefixes
        PROVE  p \in Seq(NetworkEvent) /\ \A i \in DOMAIN p : p[i] \in Range(filed[d])
    <3>1. PICK n \in 1..Len(filed[d]) : p = SubSeq(filed[d], 1, n)
      OBVIOUS
    <3>2. /\ p \in Seq(NetworkEvent) /\ Len(p) = n
          /\ \A i \in 1..n : p[i] = filed[d][i]
      BY <2>1, <3>1, SubSeqProperties
    <3>3. QED
      BY <2>1, <3>1, <3>2, LenProperties DEF Range
  <2>3. file \in prefixes \/ \E p \in prefixes : \E i \in DOMAIN p : file = Append(p, p[i])
    BY DEF Files
  <2>4. CASE file \in prefixes
    BY <2>2, <2>4 DEF Range
  <2>5. CASE \E p \in prefixes : \E i \in DOMAIN p : file = Append(p, p[i])
    <3>1. PICK p \in prefixes : \E i \in DOMAIN p : file = Append(p, p[i])
      BY <2>5
    <3>2. PICK i \in DOMAIN p : file = Append(p, p[i])
      BY <3>1
    <3>3. p \in Seq(NetworkEvent) /\ Range(p) \subseteq Range(filed[d])
      BY <2>2 DEF Range
    <3>4. QED
      BY <3>2, <3>3, SentAgain
  <2>6. QED
    BY <2>3, <2>4, <2>5
<1>4. /\ \A other \in Dispute : logged[other] \subseteq logged'[other]
      /\ \A other \in Dispute : \A f \in logged'[other] : f \in logged[other] \/ (other = d /\ f = file)
      /\ file \in logged'[d]
      /\ logged' \in [Dispute -> SUBSET Seq(NetworkEvent)]
  BY <1>1, <1>3 DEF DeskInv, FilesAreTrue
<1>5. FilesAreTrue'
  BY <1>2, <1>3, <1>4 DEF DeskInv, FilesAreTrue
<1>6. ClerksHoldRulings'
  <2>1. desk_call' = [x \in Clerk |-> desk_call'[x]]
    BY <1>1 DEF DeskInv, ClerksHoldRulings
  <2>2. ASSUME NEW x \in Clerk, desk_call'[x] # <<>>
        PROVE  \E dd \in Dispute : \E f \in logged'[dd] :
                  desk_call'[x] = <<dd, f>> /\ may_emit(advance(f))
    <3>1. CASE x = c /\ may_emit(advance(file))
      <4>1. desk_call'[x] = <<d, file>>
        BY <1>1, <3>1 DEF DeskInv, ClerksHoldRulings
      <4>2. QED
        BY <1>4, <3>1, <4>1
    <3>2. CASE ~(x = c /\ may_emit(advance(file)))
      <4>1. desk_call'[x] = desk_call[x]
        BY <1>1, <3>2 DEF DeskInv, ClerksHoldRulings
      <4>2. PICK dd \in Dispute : \E f \in logged[dd] :
              desk_call[x] = <<dd, f>> /\ may_emit(advance(f))
        BY <2>2, <4>1 DEF DeskInv, ClerksHoldRulings
      <4>3. QED
        BY <1>4, <4>1, <4>2
    <3>3. QED
      BY <3>1, <3>2
  <2>3. QED
    BY <2>1, <2>2 DEF ClerksHoldRulings
<1>7. LabelFollowsARuling'
  BY <1>2, <1>4 DEF DeskInv, LabelFollowsARuling
<1>8. QED
  BY <1>2, <1>5, <1>6, <1>7 DEF DeskInv, OpenedOnce

LEMMA SettleDeskInv ==
  ASSUME DeskInv, NEW c \in Clerk, SettleLabel(c)
  PROVE  DeskInv'
<1>1. PICK d \in Dispute : \E f \in logged[d] : desk_call[c] = <<d, f>> /\ may_emit(advance(f))
  BY DEF SettleLabel, DeskInv, ClerksHoldRulings
<1>2. PICK file \in logged[d] : desk_call[c] = <<d, file>> /\ may_emit(advance(file))
  BY <1>1
<1> DEFINE outcome == derive_outcome(advance(file))
<1>3. /\ label' = [label EXCEPT ![d] =
                     IF label[d] # NoLabel /\ label[d].value = outcome.value THEN label[d] ELSE outcome]
      /\ desk_call' = [desk_call EXCEPT ![c] = <<>>]
      /\ UNCHANGED <<filed, logged>>
  BY <1>2 DEF SettleLabel
<1>4. file \in Seq(NetworkEvent) /\ Range(file) \subseteq Range(filed[d])
  BY <1>2 DEF DeskInv, FilesAreTrue
<1>5. PICK j \in DOMAIN file : file[j].reason_code \in FraudCodes \ ProgramCodes
  BY <1>2, <1>4, RulingBehindALabel
<1>6. filed[d][1].reason_code \in FraudCodes \ ProgramCodes
  <2>1. file[j].reason_code # ""
    BY <1>5 DEF FraudCodes
  <2>2. QED
    BY <1>4, <1>5, <2>1, OneCode DEF DeskInv
<1>7. PICK i \in DOMAIN file :
         IF outcome.value = "fraud" THEN file[i].terminal = "issuer_won"
         ELSE file[i].terminal \in {"merchant_won", "withdrawn"}
  BY <1>2, <1>4, RulingBehindALabel
<1>8. file[i] \in Range(filed[d])
  BY <1>4 DEF Range
<1>9. label'[d] # NoLabel => label'[d].value = outcome.value
  BY <1>3 DEF DeskInv
<1>10. LabelFollowsARuling'
  <2>1. SUFFICES ASSUME NEW other \in Dispute, label'[other] # NoLabel
        PROVE  /\ filed[other][1].reason_code \in FraudCodes \ ProgramCodes
               /\ \E f \in logged[other] : \E k \in DOMAIN f :
                     /\ f[k] \in Range(filed[other])
                     /\ IF label'[other].value = "fraud" THEN f[k].terminal = "issuer_won"
                        ELSE f[k].terminal \in {"merchant_won", "withdrawn"}
    BY <1>3 DEF LabelFollowsARuling
  <2>2. CASE other = d
    <3>1. IF label'[d].value = "fraud" THEN file[i].terminal = "issuer_won"
          ELSE file[i].terminal \in {"merchant_won", "withdrawn"}
      BY <1>7, <1>9, <2>1, <2>2
    <3>2. QED
      BY <1>6, <1>8, <2>2, <3>1
  <2>3. CASE other # d
    <3>1. label'[other] = label[other]
      BY <1>3, <2>3 DEF DeskInv
    <3>2. QED
      BY <2>1, <3>1 DEF DeskInv, LabelFollowsARuling
  <2>4. QED
    BY <2>2, <2>3
<1>11. ClerksHoldRulings'
  BY <1>3 DEF DeskInv, ClerksHoldRulings
<1>12. label' = [x \in Dispute |-> label'[x]]
  BY <1>3 DEF DeskInv
<1>13. QED
  BY <1>3, <1>10, <1>11, <1>12 DEF DeskInv, OpenedOnce, FilesAreTrue

LEMMA LedgerFailsDeskInv ==
  ASSUME DeskInv, NEW c \in Clerk, LedgerFails(c)
  PROVE  DeskInv'
<1>1. ClerksHoldRulings'
  BY DEF DeskInv, ClerksHoldRulings, LedgerFails
<1>2. QED
  BY <1>1 DEF DeskInv, OpenedOnce, FilesAreTrue, LabelFollowsARuling, LedgerFails

THEOREM DeskInductive == DisputeSpec => []DeskInv
<1>1. DisputeInit => DeskInv
  <2>1. SUFFICES ASSUME DisputeInit PROVE DeskInv
    OBVIOUS
  <2>2. OpenedOnce
    BY <2>1 DEF DisputeInit, OpenedOnce
  <2>3. FilesAreTrue /\ ClerksHoldRulings /\ label = [d \in Dispute |-> label[d]]
    BY <2>1 DEF DisputeInit, FilesAreTrue, ClerksHoldRulings
  <2>4. LabelFollowsARuling
    BY <2>1 DEF DisputeInit, LabelFollowsARuling
  <2>5. QED
    BY <2>2, <2>3, <2>4 DEF DeskInv
<1>2. DeskInv /\ [DisputeNext]_disputeVars => DeskInv'
  <2>1. ASSUME DeskInv, DisputeNext PROVE DeskInv'
    BY <2>1, NetworkDeskInv, LogFileDeskInv, SettleDeskInv, LedgerFailsDeskInv DEF DisputeNext
  <2>2. CASE UNCHANGED disputeVars
    BY <2>2 DEF disputeVars, DeskInv, OpenedOnce, FilesAreTrue, ClerksHoldRulings, LabelFollowsARuling
  <2>3. QED
    BY <2>1, <2>2
<1>3. QED
  BY <1>1, <1>2, PTL DEF DisputeSpec

\* A chargeback label rests on a ruling the network made at some time on a
\* cardholder's claim of fraud, shown by a file in the event log, whatever
\* files come again, late or cut short, and whichever post writes last.
THEOREM LabelsFollowRulings == DisputeSpec => []LabelFollowsARuling
<1>1. DeskInv => LabelFollowsARuling
  BY DEF DeskInv
<1>2. QED
  BY <1>1, DeskInductive, PTL

-----------------------------------------------------------------------------
(* InvestigationEnv, for every row, panel and behaviour of the language    *)
(* model.                                                                  *)

LEMMA OneMore ==
  ASSUME NEW S, IsFiniteSet(S), NEW n \in Nat, Cardinality(S) <= n, NEW x
  PROVE  IsFiniteSet(S \cup {x}) /\ Cardinality(S \cup {x}) <= n + 1
<1>1. PICK c \in Nat : c = Cardinality(S)
  BY FS_CardinalityType
<1>2. IsFiniteSet(S \cup {x}) /\ Cardinality(S \cup {x}) \in {c, c + 1}
  BY <1>1, FS_AddElement, Zenon
<1>3. QED
  BY <1>1, <1>2

LEMMA ThreeMore ==
  ASSUME NEW S, IsFiniteSet(S), NEW n \in Nat, Cardinality(S) <= n, NEW x, NEW y, NEW z
  PROVE  IsFiniteSet(S \cup {x, y, z}) /\ Cardinality(S \cup {x, y, z}) <= n + 3
<1>0. n + 1 \in Nat /\ (n + 1) + 1 \in Nat /\ ((n + 1) + 1) + 1 = n + 3
  OBVIOUS
<1>1. IsFiniteSet(S \cup {x}) /\ Cardinality(S \cup {x}) <= n + 1
  BY OneMore
<1>2. IsFiniteSet((S \cup {x}) \cup {y}) /\ Cardinality((S \cup {x}) \cup {y}) <= (n + 1) + 1
  BY <1>0, <1>1, OneMore
<1>3. /\ IsFiniteSet(((S \cup {x}) \cup {y}) \cup {z})
      /\ Cardinality(((S \cup {x}) \cup {y}) \cup {z}) <= ((n + 1) + 1) + 1
  BY <1>0, <1>2, OneMore
<1>4. S \cup {x, y, z} = ((S \cup {x}) \cup {y}) \cup {z}
  OBVIOUS
<1>5. QED
  BY <1>0, <1>3, <1>4, Zenon

LEMMA Inspections ==
  ASSUME NEW S, S \subseteq INSPECT_ACTIONS
  PROVE  IsFiniteSet(S) /\ Cardinality(S) \in 0..6
<1>1. IsFiniteSet({}) /\ Cardinality({}) <= 0
  BY FS_EmptySet
<1> DEFINE half == {} \cup {"inspect_customer", "inspect_instrument", "inspect_card_signals"}
<1>2. IsFiniteSet(half) /\ Cardinality(half) <= 0 + 3
  BY <1>1, ThreeMore
<1>3. INSPECT_ACTIONS = half \cup {"inspect_dispute", "inspect_device_network", "inspect_timeline"}
  BY DEF INSPECT_ACTIONS
<1>4. IsFiniteSet(INSPECT_ACTIONS) /\ Cardinality(INSPECT_ACTIONS) <= (0 + 3) + 3
  <2> HIDE DEF half
  <2>1. 0 + 3 \in Nat
    OBVIOUS
  <2>2. QED
    BY <1>2, <1>3, <2>1, ThreeMore
<1>5. QED
  BY <1>4, FS_Subset, FS_CardinalityType

\* Three of the seven facts at most speak against a victim, and five are asked for.
LEMMA VictimTiesFew ==
  ASSUME NEW row, row.fraud
  PROVE  ~first_party_fraud_risk(row)
<1>1. IsFiniteSet({}) /\ Cardinality({}) <= 0
  BY FS_EmptySet
<1>2. IsFiniteSet({} \cup {"avs", "cvv", "three_ds"})
      /\ Cardinality({} \cup {"avs", "cvv", "three_ds"}) <= 0 + 3
  BY <1>1, ThreeMore
<1>3. PICK ties \in SUBSET ({} \cup {"avs", "cvv", "three_ds"}) : pro_cardholder(row) = Cardinality(ties)
  BY DEF pro_cardholder
<1>4. Cardinality(ties) \in Nat /\ Cardinality(ties) <= 3
  BY <1>2, FS_Subset, FS_CardinalityType
<1>5. PICK n \in Nat : n = pro_cardholder(row) /\ n <= 3
  BY <1>3, <1>4
<1>6. QED
  BY <1>5 DEF first_party_fraud_risk

LEMMA VictimIsNoFirstParty ==
  ASSUME NEW row, row.fraud
  PROVE  ~assemble(row).dispute.first_party /\ assemble(row).fraud
BY VictimTiesFew DEF assemble, dispute_analysis

LEMMA FirstOfIsOne ==
  ASSUME NEW actions, actions # {},
         actions \subseteq {"inspect_card_signals", "inspect_customer", "inspect_device_network",
                            "inspect_dispute"}
  PROVE  FirstOf(actions) \in actions
<1> DEFINE names == <<"inspect_card_signals", "inspect_customer", "inspect_device_network",
                      "inspect_dispute">>
           Least(i) == names[i] \in actions /\ \A j \in 1..(i - 1) : names[j] \notin actions
<1>1. /\ DOMAIN names = 1..4
      /\ names[1] = "inspect_card_signals" /\ names[2] = "inspect_customer"
      /\ names[3] = "inspect_device_network" /\ names[4] = "inspect_dispute"
  OBVIOUS
<1>2. \E i \in 1..4 : Least(i)
  <2> HIDE DEF names
  <2>1. names[1] \in actions \/ names[2] \in actions \/ names[3] \in actions \/ names[4] \in actions
    BY <1>1
  <2>2. CASE names[1] \in actions
    BY <2>2
  <2>3. CASE names[1] \notin actions /\ names[2] \in actions
    BY <2>3
  <2>4. CASE names[1] \notin actions /\ names[2] \notin actions /\ names[3] \in actions
    BY <2>4
  <2>5. CASE names[1] \notin actions /\ names[2] \notin actions /\ names[3] \notin actions
             /\ names[4] \in actions
    BY <2>5
  <2>6. QED
    BY <1>1, <2>1, <2>2, <2>3, <2>4, <2>5
<1>3. FirstOf(actions) = names[CHOOSE i \in DOMAIN names : Least(i)]
  BY DEF FirstOf
<1>4. PICK k \in DOMAIN names : k = (CHOOSE i \in DOMAIN names : Least(i)) /\ Least(k)
  BY <1>1, <1>2
<1>5. QED
  BY <1>3, <1>4

LEMMA DecisiveShape ==
  ASSUME NEW case
  PROVE  /\ decisive_evidence(case) # {}
         /\ decisive_evidence(case) \subseteq {"inspect_card_signals", "inspect_customer",
                                               "inspect_device_network", "inspect_dispute"}
         /\ decisive_evidence(case) \subseteq INSPECT_ACTIONS
BY DEF decisive_evidence, INSPECT_ACTIONS

\* The baseline inspects what is decisive and not seen yet, or decides.
LEMMA InvestigatorMoves ==
  ASSUME NEW case, NEW inspected
  PROVE  \/ /\ ~(decisive_evidence(case) \subseteq inspected)
            /\ _policy_investigator(case, inspected) \in INSPECT_ACTIONS \ inspected
         \/ /\ decisive_evidence(case) \subseteq inspected
            /\ _policy_investigator(case, inspected) =
                 IF case.dispute.first_party THEN "deny_dispute_first_party"
                 ELSE IF case.high \/ case.score >= 60 THEN "confirm_fraud"
                 ELSE IF case.score < 35 THEN "clear_false_positive"
                 ELSE "escalate_stepup"
<1> DEFINE todo == decisive_evidence(case) \ inspected
<1>1. CASE todo = {}
  BY <1>1 DEF _policy_investigator
<1>2. CASE todo # {}
  <2>1. FirstOf(todo) \in todo
    BY <1>2, DecisiveShape, FirstOfIsOne
  <2>2. _policy_investigator(case, inspected) = FirstOf(todo)
    BY <1>2, Zenon DEF _policy_investigator
  <2>3. QED
    BY <1>2, <2>1, <2>2, DecisiveShape
<1>3. QED
  BY <1>1, <1>2

\* What the baseline decides is the same for every case that shows what it saw.
LEMMA SameSightSameDecision ==
  ASSUME NEW row, NEW twin, NEW inspected,
         LooksLike(assemble(row), assemble(twin), inspected),
         decisive_evidence(assemble(row)) \subseteq inspected,
         decisive_evidence(assemble(twin)) \subseteq inspected
  PROVE  _policy_investigator(assemble(twin), inspected)
           = _policy_investigator(assemble(row), inspected)
<1>1. PICK case, other : case = assemble(row) /\ other = assemble(twin)
  OBVIOUS
<1>2. /\ case.dispute.first_party \in BOOLEAN /\ (case.dispute.first_party => case.dispute.active)
      /\ other.dispute.first_party \in BOOLEAN /\ (other.dispute.first_party => other.dispute.active)
  BY <1>1 DEF assemble, dispute_analysis
<1>3. other.score = case.score
  BY <1>1 DEF LooksLike
<1>4. case.dispute.first_party <=> other.dispute.first_party
  <2>1. CASE "inspect_dispute" \in inspected
    BY <1>1, <2>1 DEF LooksLike
  <2>2. CASE "inspect_dispute" \notin inspected
    <3>1. ~case.dispute.active /\ ~other.dispute.active
      BY <1>1, <2>2 DEF decisive_evidence
    <3>2. QED
      BY <1>2, <3>1
  <2>3. QED
    BY <2>1, <2>2
<1>5. case.high <=> other.high
  <2>1. CASE "inspect_card_signals" \in inspected
    BY <1>1, <2>1 DEF LooksLike, Section
  <2>2. CASE "inspect_card_signals" \notin inspected
    BY <1>1, <2>2 DEF decisive_evidence
  <2>3. QED
    BY <2>1, <2>2
<1>6. QED
  BY <1>1, <1>3, <1>4, <1>5, InvestigatorMoves


-----------------------------------------------------------------------------
\* What the verifiers give a disposition, at worst, for a run of seven
\* inspections or less.
LEMMA Outcome ==
  ASSUME NEW action, NEW case
  PROVE  outcome_reward(action, case) \in {10, 4, -2, -3, -5, -6, -10}
BY Zenon DEF outcome_reward

LEMMA Covered ==
  ASSUME NEW k \in Nat, NEW d \in 1..6
  PROVE  (600 * k) \div d \in Nat
<1>1. d \in {1, 2, 3, 4, 5, 6}
  OBVIOUS
<1>2. QED
  BY <1>1

LEMMA Process ==
  ASSUME NEW case, NEW inspected, inspected \subseteq INSPECT_ACTIONS, NEW taken \in 0..7,
         Cardinality(inspected) <= taken, taken > 0 => inspected # {}
  PROVE  /\ process_reward(inspected, taken, case) \in Int
         /\ process_reward(inspected, taken, case) >= -300 - 60 * taken
         /\ taken > 0 => process_reward(inspected, taken, case) >= 60 - 60 * taken
<1> DEFINE decisive == decisive_evidence(case)
<1>1. PICK k \in 0..6, d \in 1..6, both \in Nat :
         /\ k = Cardinality(inspected) /\ d = Cardinality(decisive)
         /\ both = Cardinality(decisive \cap inspected)
         /\ taken > 0 => k >= 1
  <2>1. Cardinality(inspected) \in 0..6 /\ (inspected # {} => Cardinality(inspected) # 0)
    BY Inspections, FS_EmptySet
  <2>2. Cardinality(decisive) \in 0..6 /\ Cardinality(decisive) # 0
    BY DecisiveShape, Inspections, FS_EmptySet
  <2>3. decisive \cap inspected \subseteq INSPECT_ACTIONS
    OBVIOUS
  <2>4. Cardinality(decisive \cap inspected) \in 0..6
    BY <2>3, Inspections
  <2>5. QED
    BY <2>1, <2>2, <2>4
<1>2. PICK covered \in Nat : covered = (600 * both) \div d
  BY Covered
<1>3. PICK over \in Int : over = k - d - 1
  OBVIOUS
<1>4. PICK excess \in Nat, idle \in {0, 300} :
         /\ excess = IF over > 0 THEN over ELSE 0
         /\ idle = IF taken = 0 THEN 300 ELSE 0
  OBVIOUS
<1>5. PICK score \in Int : score = covered - 60 * (taken - k) - 30 * excess - idle
  OBVIOUS
<1>6. process_reward(inspected, taken, case) =
         IF score < -600 THEN -600 ELSE IF score > 600 THEN 600 ELSE score
  <2>1. over = Cardinality(inspected) - Cardinality(decisive) - 1
        /\ covered = (600 * Cardinality(decisive \cap inspected)) \div Cardinality(decisive)
    BY <1>1, <1>2, <1>3, Zenon
  <2>2. CASE over > 0 /\ taken = 0
    BY <1>1, <1>4, <1>5, <2>1, <2>2 DEF process_reward
  <2>3. CASE over > 0 /\ taken # 0
    BY <1>1, <1>4, <1>5, <2>1, <2>3 DEF process_reward
  <2>4. CASE ~(over > 0) /\ taken = 0
    BY <1>1, <1>4, <1>5, <2>1, <2>4 DEF process_reward
  <2>5. CASE ~(over > 0) /\ taken # 0
    BY <1>1, <1>4, <1>5, <2>1, <2>5 DEF process_reward
  <2>6. QED
    BY <2>2, <2>3, <2>4, <2>5
<1>7. score >= -300 - 60 * taken /\ (taken > 0 => score >= 60 - 60 * taken)
  BY <1>1, <1>2, <1>3, <1>4, <1>5
<1>8. QED
  BY <1>6, <1>7

LEMMA WorstRun ==
  ASSUME NEW action, NEW case, NEW inspected, inspected \subseteq INSPECT_ACTIONS,
         NEW taken \in 0..7, Cardinality(inspected) <= taken, taken > 0 => inspected # {}
  PROVE  /\ total_reward(action, inspected, taken, case) \in Int
         /\ total_reward(action, inspected, taken, case) > -3000
<1>1. PICK outcome \in Int : outcome = outcome_reward(action, case) /\ outcome >= -10
  BY Outcome
<1>2. PICK process \in Int :
         /\ process = process_reward(inspected, taken, case)
         /\ process >= -300 - 60 * taken
         /\ taken > 0 => process >= 60 - 60 * taken
  BY Process
<1>3. total_reward(action, inspected, taken, case) = 180 * outcome + 2 * process - 60 * taken
  BY <1>1, <1>2, Zenon DEF total_reward
<1>4. QED
  BY <1>1, <1>2, <1>3

-----------------------------------------------------------------------------
(* The bench: what is on the table is a run of this case that committed    *)
(* above the floor and, for the baseline, denied no victim; what is being  *)
(* worked is within its turns, and a policy never looks twice.             *)

Agents == POLICIES \cup {"llm_agent"}
Cases == {assemble(row) : row \in DataRow}

\* What no decision is given.
AboveFloor(total) == total > -3000

Run == [agent: Agents, action: TERMINAL_ACTIONS \cup {NoDecision}, total: Int]
SoundRun(case) ==
    {run \in Run :
        /\ run.action # NoDecision => AboveFloor(run.total)
        /\ run.agent = "investigator" /\ case.fraud => run.action # "deny_dispute_first_party"}

BenchShape ==
    [pc: {"running"}, case: Cases, panel: Seq(Agents), inspected: SUBSET INSPECT_ACTIONS,
     taken: Nat, runs: Seq(Run)]

OnTheTable == bench.pc # "idle" =>
    bench.case \in Cases /\ bench.runs \in Seq(SoundRun(bench.case))

WithinItsTurns ==
    bench.pc = "running" =>
        /\ Cardinality(bench.inspected) <= bench.taken
        /\ bench.taken > 0 => bench.inspected # {}
        /\ bench.panel # <<>> /\ Agent = "llm_agent" => bench.taken <= MAX_STEPS
        /\ bench.panel # <<>> /\ Agent \in POLICIES => bench.taken = Cardinality(bench.inspected)

BenchInv ==
    /\ bench.pc \in {"idle", "running", "answered"}
    /\ bench.pc = "running" => bench \in BenchShape
    /\ OnTheTable
    /\ WithinItsTurns

LEMMA AtWork ==
  ASSUME BenchInv, Running
  PROVE  /\ bench \in BenchShape /\ Agent \in Agents
         /\ bench.case \in Cases /\ bench.runs \in Seq(SoundRun(bench.case))
         /\ bench.panel \in Seq(Agents) /\ bench.panel # <<>>
         /\ bench.inspected \subseteq INSPECT_ACTIONS /\ IsFiniteSet(bench.inspected)
         /\ Cardinality(bench.inspected) \in 0..6
         /\ bench.taken \in Nat /\ Cardinality(bench.inspected) <= bench.taken
         /\ bench.taken > 0 => bench.inspected # {}
<1>1. bench \in BenchShape /\ bench.panel # <<>> /\ bench.pc = "running"
  BY DEF BenchInv, Running
<1>2. /\ bench.panel \in Seq(Agents) /\ bench.inspected \subseteq INSPECT_ACTIONS
      /\ bench.taken \in Nat
  BY <1>1 DEF BenchShape
<1>3. Agent \in Agents
  BY <1>1, <1>2, HeadTailProperties DEF Agent
<1>4. /\ bench.case \in Cases /\ bench.runs \in Seq(SoundRun(bench.case))
      /\ Cardinality(bench.inspected) <= bench.taken
      /\ bench.taken > 0 => bench.inspected # {}
  BY <1>1 DEF BenchInv, OnTheTable, WithinItsTurns
<1>5. IsFiniteSet(bench.inspected) /\ Cardinality(bench.inspected) \in 0..6
  BY <1>2, Inspections
<1>6. QED
  BY <1>1, <1>2, <1>3, <1>4, <1>5

LEMMA CloseKeeps ==
  ASSUME BenchInv, Running, NEW action \in TERMINAL_ACTIONS \cup {NoDecision}, NEW total \in Int,
         Close(action, total),
         action # NoDecision => AboveFloor(total),
         Agent = "investigator" /\ bench.case.fraud => action # "deny_dispute_first_party"
  PROVE  BenchInv'
<1>1. PICK run \in SoundRun(bench.case) :
         run = [agent |-> Agent, action |-> action, total |-> total]
  <2>1. PICK run : run = [agent |-> Agent, action |-> action, total |-> total]
    BY Zenon
  <2>2. run \in Run /\ run.agent = Agent /\ run.action = action /\ run.total = total
    BY <2>1, AtWork DEF Run
  <2>3. run \in SoundRun(bench.case)
    BY <2>2 DEF SoundRun
  <2>4. QED
    BY <2>1, <2>3
<1>2. PICK rest, runs : rest = Tail(bench.panel) /\ runs = Append(bench.runs, run)
  BY Zenon
<1>3. bench' = [bench EXCEPT !.panel = rest, !.inspected = {}, !.taken = 0, !.runs = runs]
  BY <1>1, <1>2 DEF Close
<1>4. rest \in Seq(Agents) /\ runs \in Seq(SoundRun(bench.case))
  BY <1>1, <1>2, AtWork, HeadTailProperties, AppendProperties
<1>5. runs \in Seq(Run)
  <2>1. SoundRun(bench.case) \subseteq Run
    BY DEF SoundRun
  <2>2. QED
    BY <1>4, <2>1, SeqDef
<1>6. /\ bench' \in BenchShape /\ bench'.pc = "running" /\ bench'.case = bench.case
      /\ bench'.runs = runs /\ bench'.inspected = {} /\ bench'.taken = 0
  BY <1>3, <1>4, <1>5, AtWork DEF BenchShape
<1>7. OnTheTable'
  BY <1>4, <1>6, AtWork DEF OnTheTable
<1>8. Cardinality({}) = 0
  BY FS_EmptySet
<1>9. WithinItsTurns'
  BY <1>6, <1>8 DEF WithinItsTurns, MAX_STEPS
<1>10. QED
  BY <1>6, <1>7, <1>9 DEF BenchInv

LEMMA InspectKeeps ==
  ASSUME BenchInv, Running, NEW action \in INSPECT_ACTIONS,
         bench' = [bench EXCEPT !.inspected = @ \cup {action}, !.taken = @ + 1],
         \/ Agent = "llm_agent" /\ bench.taken < MAX_STEPS
         \/ Agent \in POLICIES /\ action \notin bench.inspected
  PROVE  BenchInv'
<1>1. PICK inspected \in SUBSET INSPECT_ACTIONS, taken \in Nat :
         /\ inspected = bench.inspected \cup {action} /\ taken = bench.taken + 1
  <2>1. bench.inspected \cup {action} \in SUBSET INSPECT_ACTIONS /\ bench.taken + 1 \in Nat
    BY AtWork
  <2>2. QED
    BY <2>1, Zenon
<1>2. bench' = [bench EXCEPT !.inspected = inspected, !.taken = taken]
  BY <1>1
<1>3. /\ bench' \in BenchShape /\ bench'.pc = "running" /\ bench'.case = bench.case
      /\ bench'.runs = bench.runs /\ bench'.panel = bench.panel
      /\ bench'.inspected = inspected /\ bench'.taken = taken
  BY <1>1, <1>2, AtWork DEF BenchShape
<1>4. /\ Cardinality(inspected) <= Cardinality(bench.inspected) + 1
      /\ action \notin bench.inspected => Cardinality(inspected) = Cardinality(bench.inspected) + 1
      /\ Cardinality(inspected) \in 0..6
  <2>1. PICK before \in 0..6 : before = Cardinality(bench.inspected)
    BY AtWork
  <2>2. Cardinality(inspected) = IF action \in bench.inspected THEN before ELSE before + 1
    BY <1>1, <2>1, AtWork, FS_AddElement, Zenon
  <2>3. Cardinality(inspected) \in 0..6
    BY Inspections
  <2>4. QED
    BY <2>1, <2>2, <2>3
<1>5. Agent' = Agent
  BY <1>3 DEF Agent
<1>6. OnTheTable'
  BY <1>3, AtWork DEF OnTheTable
<1>7. Agent \in POLICIES => bench.taken = Cardinality(bench.inspected)
  BY AtWork DEF BenchInv, Running, WithinItsTurns
<1>8. Agent = "llm_agent" => Agent \notin POLICIES
  BY DEF POLICIES
<1>9. /\ Cardinality(inspected) <= taken /\ inspected # {}
      /\ Agent = "llm_agent" => taken <= MAX_STEPS
      /\ Agent \in POLICIES => taken = Cardinality(inspected)
  BY <1>1, <1>4, <1>7, <1>8, AtWork DEF MAX_STEPS
<1>10. WithinItsTurns'
  BY <1>3, <1>5, <1>9, Zenon DEF WithinItsTurns
<1>11. QED
  BY <1>3, <1>6, <1>10 DEF BenchInv

\* An agent within its turns that commits is above the floor.
LEMMA CommitKeeps ==
  ASSUME BenchInv, Running, NEW action \in TERMINAL_ACTIONS,
         Close(action, total_reward(action, bench.inspected, bench.taken, bench.case)),
         Agent = "llm_agent" => bench.taken < MAX_STEPS,
         Agent = "investigator" /\ bench.case.fraud => action # "deny_dispute_first_party"
  PROVE  BenchInv'
<1>1. Agent \in POLICIES => bench.taken = Cardinality(bench.inspected)
  BY AtWork DEF BenchInv, Running, WithinItsTurns
<1>2. bench.taken \in 0..7
  BY <1>1, AtWork DEF Agents, MAX_STEPS
<1>3. /\ total_reward(action, bench.inspected, bench.taken, bench.case) \in Int
      /\ AboveFloor(total_reward(action, bench.inspected, bench.taken, bench.case))
  BY <1>2, AtWork, WorstRun DEF AboveFloor
<1>4. QED
  BY <1>3, CloseKeeps

LEMMA NoActionInCommon == \A action \in TERMINAL_ACTIONS : action \notin INSPECT_ACTIONS
BY DEF TERMINAL_ACTIONS, INSPECT_ACTIONS

LEMMA PolicyKeeps ==
  ASSUME BenchInv, PolicyMove
  PROVE  BenchInv'
<1>1. PICK action : action = policy(Agent, bench.case, bench.inspected)
  OBVIOUS
<1>2. Running /\ Agent \in POLICIES /\ Agent # "llm_agent" /\ Step(action)
  BY <1>1 DEF PolicyMove, POLICIES
<1>3. \/ action \in INSPECT_ACTIONS \ bench.inspected
      \/ /\ action \in TERMINAL_ACTIONS
         /\ Agent = "investigator" /\ bench.case.fraud => action # "deny_dispute_first_party"
  <2>1. CASE Agent # "investigator"
    BY <1>1, <1>2, <2>1 DEF policy, POLICIES, TERMINAL_ACTIONS
  <2>2. CASE Agent = "investigator"
    <3>1. action = _policy_investigator(bench.case, bench.inspected)
      BY <1>1, <2>2 DEF policy
    <3>2. bench.case.fraud => ~bench.case.dispute.first_party
      <4>1. PICK row \in DataRow : bench.case = assemble(row)
        BY <1>2, AtWork DEF Cases
      <4>2. assemble(row).fraud => row.fraud
        BY DEF assemble
      <4>3. QED
        BY <4>1, <4>2, VictimIsNoFirstParty
    <3>3. QED
      BY <3>1, <3>2, InvestigatorMoves DEF TERMINAL_ACTIONS
  <2>3. QED
    BY <2>1, <2>2
<1>4. CASE action \in INSPECT_ACTIONS \ bench.inspected
  <2>1. bench' = [bench EXCEPT !.inspected = @ \cup {action}, !.taken = @ + 1]
    BY <1>2, <1>4, NoActionInCommon DEF Step
  <2>2. QED
    BY <1>2, <1>4, <2>1, InspectKeeps
<1>5. CASE /\ action \in TERMINAL_ACTIONS
           /\ Agent = "investigator" /\ bench.case.fraud => action # "deny_dispute_first_party"
  <2>1. Close(action, total_reward(action, bench.inspected, bench.taken, bench.case))
    BY <1>2, <1>5, NoActionInCommon DEF Step
  <2>2. QED
    BY <1>2, <1>5, <2>1, CommitKeeps
<1>6. QED
  BY <1>3, <1>4, <1>5

LEMMA ModelKeeps ==
  ASSUME BenchInv, NEW action, ModelMove(action)
  PROVE  BenchInv'
<1>1. Running /\ Agent = "llm_agent" /\ bench.taken < MAX_STEPS /\ Step(action)
  BY DEF ModelMove
<1>2. CASE /\ action \in INSPECT_ACTIONS
           /\ bench' = [bench EXCEPT !.inspected = @ \cup {action}, !.taken = @ + 1]
  BY <1>1, <1>2, InspectKeeps
<1>3. CASE /\ action \in TERMINAL_ACTIONS
           /\ Close(action, total_reward(action, bench.inspected, bench.taken, bench.case))
  BY <1>1, <1>3, CommitKeeps
<1>4. QED
  BY <1>1, <1>2, <1>3 DEF Step

LEMMA DitherKeeps ==
  ASSUME BenchInv, ModelDithers
  PROVE  BenchInv'
<1>1. Running /\ Agent = "llm_agent" /\ Close(NoDecision, -3000)
  BY DEF ModelDithers
<1>2. QED
  BY <1>1, CloseKeeps

LEMMA UnavailableKeeps ==
  ASSUME BenchInv, ModelUnavailable
  PROVE  BenchInv'
<1>1. Running /\ bench' = [bench EXCEPT !.panel = <<>>, !.inspected = {}, !.taken = 0]
  BY DEF ModelUnavailable
<1>2. PICK nobody \in Seq(Agents) : nobody = <<>>
  BY EmptySeq
<1>3. /\ bench' \in BenchShape /\ bench'.pc = "running" /\ bench'.case = bench.case
      /\ bench'.runs = bench.runs /\ bench'.panel = <<>> /\ bench'.inspected = {}
      /\ bench'.taken = 0
  BY <1>1, <1>2, AtWork DEF BenchShape
<1>4. Cardinality({}) = 0
  BY FS_EmptySet
<1>5. OnTheTable' /\ WithinItsTurns'
  BY <1>1, <1>3, <1>4, AtWork DEF OnTheTable, WithinItsTurns
<1>6. QED
  BY <1>3, <1>5 DEF BenchInv

LEMMA BeginKeeps ==
  ASSUME NEW row \in DataRow, NEW panel \in Panel, Begin(row, panel)
  PROVE  BenchInv'
<1>1. bench' = [pc |-> "running", case |-> assemble(row), panel |-> panel,
                inspected |-> {}, taken |-> 0, runs |-> <<>>]
  BY DEF Begin
<1>2. PICK case \in Cases : case = assemble(row)
  BY DEF Cases
<1>3. panel \in Seq(Agents)
  BY EnvAssumption DEF EnvAssumption, Agents
<1>4. <<>> \in Seq(Run) /\ <<>> \in Seq(SoundRun(case)) /\ Cardinality({}) = 0
  BY EmptySeq, FS_EmptySet
<1>5. /\ bench' \in BenchShape /\ bench'.pc = "running" /\ bench'.case = case
      /\ bench'.runs = <<>> /\ bench'.inspected = {} /\ bench'.taken = 0
  BY <1>1, <1>2, <1>3, <1>4 DEF BenchShape
<1>6. OnTheTable' /\ WithinItsTurns'
  BY <1>4, <1>5 DEF OnTheTable, WithinItsTurns, MAX_STEPS
<1>7. QED
  BY <1>5, <1>6 DEF BenchInv

LEMMA BenchStep ==
  ASSUME BenchInv, [BenchNext]_benchVars
  PROVE  BenchInv'
<1>1. CASE Rank
  <2>1. bench'.pc = "answered" /\ bench'.case = bench.case /\ bench'.runs = bench.runs
        /\ bench.pc = "running"
    BY <1>1 DEF Rank
  <2>2. QED
    BY <2>1 DEF BenchInv, OnTheTable, WithinItsTurns
<1>2. CASE UNCHANGED benchVars
  BY <1>2 DEF benchVars, BenchInv, OnTheTable, WithinItsTurns, Agent
<1>3. CASE BenchNext
  BY <1>1, <1>3, BeginKeeps, PolicyKeeps, ModelKeeps, DitherKeeps, UnavailableKeeps DEF BenchNext
<1>4. QED
  BY <1>2, <1>3

THEOREM BenchInductive == BenchSpec => []BenchInv
<1>1. BenchInit => BenchInv
  BY DEF BenchInit, NoTrial, BenchInv, OnTheTable, WithinItsTurns
<1>2. QED
  BY <1>1, BenchStep, PTL DEF BenchSpec

\* An agent that commits to a disposition, however wrong and however late,
\* scores more than one that never decides: on every row, in every panel, and
\* whatever the language model inspects in the turns it has.
THEOREM CommittingPays == BenchSpec => []DecidingBeatsDithering
<1>1. ASSUME BenchInv PROVE DecidingBeatsDithering
  <2>1. ASSUME bench.pc # "idle", NEW i \in DOMAIN bench.runs, bench.runs[i].action # NoDecision
        PROVE  bench.runs[i].total > -3000
    <3>1. bench.runs[i] \in SoundRun(bench.case)
      BY <1>1, <2>1, ElementOfSeq, LenProperties DEF BenchInv, OnTheTable
    <3>2. QED
      BY <2>1, <3>1 DEF SoundRun, AboveFloor
  <2>2. QED
    BY <2>1 DEF DecidingBeatsDithering
<1>2. QED
  BY BenchInductive, <1>1, PTL

\* When the baseline commits, no case that shows the same alert and the same
\* sections would have had it commit to something else: for every set of rows.
THEOREM EvidenceDecides == BenchSpec => []DecidesFromWhatItSees
<1>1. ASSUME BenchInv PROVE DecidesFromWhatItSees
  <2>1. SUFFICES ASSUME bench.pc = "running", NEW twin \in DataRow,
                        _policy_investigator(bench.case, bench.inspected) \in TERMINAL_ACTIONS,
                        LooksLike(bench.case, assemble(twin), bench.inspected)
                 PROVE  _policy_investigator(assemble(twin), bench.inspected) \in
                          INSPECT_ACTIONS \cup {_policy_investigator(bench.case, bench.inspected)}
    BY DEF DecidesFromWhatItSees
  <2>2. PICK row \in DataRow : bench.case = assemble(row)
    BY <1>1, <2>1 DEF BenchInv, OnTheTable, Cases
  <2>3. decisive_evidence(assemble(row)) \subseteq bench.inspected
    BY <2>1, <2>2, InvestigatorMoves, NoActionInCommon
  <2>4. CASE decisive_evidence(assemble(twin)) \subseteq bench.inspected
    BY <2>1, <2>2, <2>3, <2>4, SameSightSameDecision
  <2>5. CASE ~(decisive_evidence(assemble(twin)) \subseteq bench.inspected)
    BY <2>5, InvestigatorMoves
  <2>6. QED
    BY <2>4, <2>5
<1>2. QED
  BY BenchInductive, <1>1, PTL

\* A real victim's dispute is denied by nobody the code stands for: for every
\* row, whatever its card's verification results were.
THEOREM VictimsAreHeard == BenchSpec => []VictimIsNotDenied
<1>1. ASSUME BenchInv PROVE VictimIsNotDenied
  <2>1. SUFFICES ASSUME bench.pc # "idle", bench.case.fraud
                 PROVE  /\ gold_disposition(bench.case) # "deny_dispute_first_party"
                        /\ bench.case.recommended # "deny_dispute_first_party"
                        /\ \A i \in DOMAIN bench.runs :
                              bench.runs[i].agent = "investigator"
                              => bench.runs[i].action # "deny_dispute_first_party"
    BY DEF VictimIsNotDenied
  <2>2. PICK row \in DataRow : bench.case = assemble(row)
    BY <1>1, <2>1 DEF BenchInv, OnTheTable, Cases
  <2>3. row.fraud
    BY <2>1, <2>2 DEF assemble
  <2>4. ~bench.case.dispute.first_party
    BY <2>2, <2>3, VictimIsNoFirstParty
  <2>5. gold_disposition(bench.case) # "deny_dispute_first_party"
    BY <2>1, <2>4 DEF gold_disposition
  <2>6. bench.case.recommended # "deny_dispute_first_party"
    <3>1. ~dispute_analysis(row).first_party
      BY <2>2, <2>4 DEF assemble
    <3>2. QED
      BY <2>2, <3>1 DEF assemble, recommend
  <2>7. ASSUME NEW i \in DOMAIN bench.runs, bench.runs[i].agent = "investigator"
        PROVE  bench.runs[i].action # "deny_dispute_first_party"
    <3>1. bench.runs[i] \in SoundRun(bench.case)
      BY <1>1, <2>1, <2>7, ElementOfSeq, LenProperties DEF BenchInv, OnTheTable
    <3>2. QED
      BY <2>1, <2>7, <3>1 DEF SoundRun
  <2>8. QED
    BY <2>5, <2>6, <2>7
<1>2. QED
  BY BenchInductive, <1>1, PTL

-----------------------------------------------------------------------------
(* ActorRead, for any sessions and reports.  A tell is a monotone function  *)
(* of what is reported, so the stages with evidence only grow with it; and  *)
(* one open call, or strong duress, is past the victim's threshold alone.   *)

TelemetryRow == [RawField -> 0..1000]

ActorTypeOK == reported \in [Session -> TelemetryRow]

LEMMA FieldNames ==
  /\ {"call_active", "dictation", "remote_access", "automation", "tooling", "fast",
      "crypto_payee", "online_only", "never_met", "safe_account", "fee_to_release"} \subseteq RawField
  /\ {"long_reads", "duress", "cadence", "directness", "hesitation"} \subseteq RawField
BY DEF RawField, Flag, Level

LEMMA ActorTyped == ActorSpec => []ActorTypeOK
<1>1. Silent \in TelemetryRow
  BY DEF Silent, TelemetryRow
<1>2. ActorInit => ActorTypeOK
  BY <1>1 DEF ActorInit, ActorTypeOK
<1>3. ActorTypeOK /\ [ActorNext]_actorVars => ActorTypeOK'
  <2>1. ASSUME ActorTypeOK, NEW s \in Session, ReportTelemetry(s) PROVE ActorTypeOK'
    <3>1. PICK raw \in Raw : reported' = [reported EXCEPT ![s] = raw]
      BY <2>1 DEF ReportTelemetry
    <3>2. raw \in TelemetryRow
      BY ActorAssumption DEF TelemetryRow
    <3>3. QED
      BY <2>1, <3>1, <3>2 DEF ActorTypeOK
  <2>2. ASSUME ActorTypeOK, NEW s \in Session, KeepMotive(s) PROVE ActorTypeOK'
    BY <2>2 DEF KeepMotive, ActorTypeOK
  <2>3. ASSUME ActorTypeOK, UNCHANGED actorVars PROVE ActorTypeOK'
    BY <2>3 DEF ActorTypeOK, actorVars
  <2>4. QED
    BY <2>1, <2>2, <2>3 DEF ActorNext
<1>4. QED
  BY <1>2, <1>3, PTL DEF ActorSpec

LEMMA StrengthGrows ==
  ASSUME NEW a \in Nat, NEW b \in Nat, a <= b, NEW c \in Nat
  PROVE  (a * c) \div 100 \in Nat /\ (b * c) \div 100 \in Nat /\ (a * c) \div 100 <= (b * c) \div 100
<1>1. a * c <= b * c /\ a * c \in Nat /\ b * c \in Nat
  <2>1. (b - a) \in Nat
    OBVIOUS
  <2>2. (b - a) * c \in Nat
    BY <2>1
  <2>3. QED
    BY <2>2
<1>2. \A x, y \in Nat : x <= y => x \div 100 \in Nat /\ y \div 100 \in Nat /\ x \div 100 <= y \div 100
  OBVIOUS
<1>3. QED
  BY <1>1, <1>2

LEMMA StrengthIsNat ==
  ASSUME NEW a \in 0..1000, NEW c \in Nat
  PROVE  (a * c) \div 100 \in Nat
<1>1. a \in Nat /\ a <= a
  OBVIOUS
<1>2. QED
  BY <1>1, StrengthGrows, Zenon

LEMMA LargerGrows ==
  ASSUME NEW a \in Nat, NEW b \in Nat, NEW c \in Nat, NEW d \in Nat, a <= c, b <= d
  PROVE  Larger(a, b) \in Nat /\ Larger(c, d) \in Nat /\ Larger(a, b) <= Larger(c, d)
BY DEF Larger

\* The two tells that weigh alone as much as the victim's threshold.
LEMMA VictimsScore ==
  ASSUME NEW raw \in TelemetryRow, raw["call_active"] = 1000 \/ raw["duress"] >= 700
  PROVE  infer_motive(derive_signals(raw)) = "coerced_victim"
<1> DEFINE signals == derive_signals(raw)
<1>1. \A f \in RawField : raw[f] \in 0..1000
  BY DEF TelemetryRow
<1>2. raw["call_active"] \in 0..1000 /\ raw["duress"] \in 0..1000 /\ raw["long_reads"] \in 0..1000
      /\ raw["dictation"] \in 0..1000
  BY <1>1, FieldNames
<1>3. signals.duress = raw["duress"]
  BY DEF derive_signals
<1>4. signals.coaching_copresence = (raw["call_active"] * 85) \div 100
  BY DEF derive_signals, CallStrength
<1>5. signals.script_reading = Larger(raw["long_reads"], (raw["dictation"] * 80) \div 100)
  BY DEF derive_signals
<1>6. signals.script_reading \in Nat
  <2>1. (raw["dictation"] * 80) \div 100 \in Nat
    <3>1. 80 \in Nat
      OBVIOUS
    <3>2. QED
      BY <1>2, <3>1, StrengthIsNat, Zenon
  <2>2. raw["long_reads"] \in Nat
    BY <1>2
  <2>3. QED
    BY <1>5, <2>1, <2>2 DEF Larger
<1>7. signals.coaching_copresence \in Nat /\ signals.duress \in Nat
  <2>1. (raw["call_active"] * 85) \div 100 \in Nat
    <3>1. 85 \in Nat
      OBVIOUS
    <3>2. QED
      BY <1>2, <3>1, StrengthIsNat, Zenon
  <2>2. raw["duress"] \in Nat
    BY <1>2
  <2>3. QED
    BY <1>3, <1>4, <2>1, <2>2
<1>8. raw["call_active"] = 1000 => signals.coaching_copresence = 850
  BY <1>4
<1>9. MotiveScore(signals).coerced_victim
        = 100 * signals.duress + 85 * signals.coaching_copresence + 70 * signals.script_reading
  BY DEF MotiveScore
<1>10. MotiveScore(signals).coerced_victim >= 70000
  <2> HIDE DEF signals
  <2>1. CASE raw["call_active"] = 1000
    BY <1>6, <1>7, <1>8, <1>9, <2>1
  <2>2. CASE raw["duress"] >= 700
    BY <1>3, <1>6, <1>7, <1>9, <2>2
  <2>3. QED
    BY <2>1, <2>2
<1>11. QED
  BY <1>10 DEF infer_motive

\* A session with a call open during the payment, or reported duress, is never
\* labelled or reported as an offender's (core/motive.py infer_motive,
\* recommend_intervention).
THEOREM VictimsAreProtected == ActorSpec => VictimIsNotAccused
<1>1. ASSUME ActorTypeOK, [ActorNext]_actorVars, NEW s \in Session,
             reported[s]["call_active"] = 1000 \/ reported[s]["duress"] >= 700
      PROVE  /\ ~recommend_intervention(infer_motive(derive_signals(reported[s]))).reportable
             /\ intent'[s] # intent[s] => intent'[s] = "coerced_victim"
  <2>1. infer_motive(derive_signals(reported[s])) = "coerced_victim"
    BY <1>1, VictimsScore DEF ActorTypeOK
  <2>2. ~recommend_intervention("coerced_victim").reportable
    BY DEF recommend_intervention
  <2>3. ASSUME NEW r \in Session, KeepMotive(r), intent'[s] # intent[s]
        PROVE  intent'[s] = "coerced_victim"
    <3>1. r = s /\ intent' = [intent EXCEPT ![r] = infer_motive(derive_signals(reported[r]))]
      BY <2>3 DEF KeepMotive
    <3>2. QED
      BY <2>1, <2>3, <3>1
  <2>4. ASSUME NEW r \in Session, ReportTelemetry(r) PROVE intent' = intent
    BY <2>4 DEF ReportTelemetry
  <2>5. UNCHANGED actorVars => intent' = intent
    BY DEF actorVars
  <2>6. QED
    BY <1>1, <2>1, <2>2, <2>3, <2>4, <2>5 DEF ActorNext
<1>2. ActorTypeOK /\ [ActorNext]_actorVars
      => [\A s \in Session :
          reported[s]["call_active"] = 1000 \/ reported[s]["duress"] >= 700 =>
              /\ ~recommend_intervention(infer_motive(derive_signals(reported[s]))).reportable
              /\ intent'[s] # intent[s] => intent'[s] = "coerced_victim"]_actorVars
  BY <1>1
<1>3. QED
  BY <1>2, ActorTyped, PTL DEF ActorSpec, VictimIsNotAccused

\* The tells of the arc.
ArcTell ==
    {"online_only_relationship", "never_met_in_person", "authority_urgency",
     "first_payee_new_crypto", "fee_to_release", "safe_account_move", "remote_access_active",
     "coaching_copresence", "script_reading", "duress", "coached_answers"}

LEMMA TellsGrow ==
  ASSUME NEW old \in TelemetryRow, NEW new \in TelemetryRow, \A f \in RawField : old[f] <= new[f],
         NEW tell \in ArcTell
  PROVE  /\ derive_signals(old)[tell] \in Nat /\ derive_signals(new)[tell] \in Nat
         /\ derive_signals(old)[tell] <= derive_signals(new)[tell]
<1> DEFINE Part(raw, f, c) == (raw[f] * c) \div 100
<1>1. \A f \in RawField : old[f] \in Nat /\ new[f] \in Nat /\ old[f] <= new[f]
  <2>1. ASSUME NEW f \in RawField PROVE old[f] \in 0..1000 /\ new[f] \in 0..1000
    BY DEF TelemetryRow
  <2>2. \A x \in 0..1000 : x \in Nat
    OBVIOUS
  <2>3. ASSUME NEW f \in RawField PROVE old[f] \in Nat /\ new[f] \in Nat
    <3>1. old[f] \in 0..1000 /\ new[f] \in 0..1000
      BY <2>1
    <3>2. QED
      BY <2>2, <3>1
  <2>4. QED
    BY <2>3
<1>2. \A f \in RawField : \A c \in {60, 70, 80, 85, 90} :
         Part(old, f, c) \in Nat /\ Part(new, f, c) \in Nat /\ Part(old, f, c) <= Part(new, f, c)
  BY <1>1, StrengthGrows
<1>3. ASSUME NEW raw
      PROVE  /\ derive_signals(raw)["online_only_relationship"] = Part(raw, "online_only", 80)
             /\ derive_signals(raw)["never_met_in_person"] = Part(raw, "never_met", 70)
             /\ derive_signals(raw)["authority_urgency"] = Part(raw, "safe_account", 70)
             /\ derive_signals(raw)["first_payee_new_crypto"] = Part(raw, "crypto_payee", 80)
             /\ derive_signals(raw)["fee_to_release"] = Part(raw, "fee_to_release", 80)
             /\ derive_signals(raw)["safe_account_move"] = Part(raw, "safe_account", 90)
             /\ derive_signals(raw)["remote_access_active"] = Part(raw, "remote_access", 90)
             /\ derive_signals(raw)["coaching_copresence"] = Part(raw, "call_active", 85)
             /\ derive_signals(raw)["coached_answers"] = Part(raw, "dictation", 70)
             /\ derive_signals(raw)["duress"] = raw["duress"]
             /\ derive_signals(raw)["script_reading"]
                  = Larger(raw["long_reads"], Part(raw, "dictation", 80))
  BY DEF derive_signals, CallStrength
<1> HIDE DEF Part
<1>4. CASE tell = "script_reading"
  <2>1. "long_reads" \in RawField /\ "dictation" \in RawField
    BY FieldNames
  <2>2. /\ Larger(old["long_reads"], Part(old, "dictation", 80)) \in Nat
        /\ Larger(new["long_reads"], Part(new, "dictation", 80)) \in Nat
        /\ Larger(old["long_reads"], Part(old, "dictation", 80))
             <= Larger(new["long_reads"], Part(new, "dictation", 80))
    BY <1>1, <1>2, <2>1, LargerGrows
  <2>3. QED
    BY <1>3, <1>4, <2>2
<1>5. CASE tell = "duress"
  BY <1>1, <1>3, <1>5, FieldNames
<1>6. CASE tell \notin {"script_reading", "duress"}
  <2>1. \E f \in RawField, c \in {60, 70, 80, 85, 90} :
           /\ derive_signals(old)[tell] = Part(old, f, c)
           /\ derive_signals(new)[tell] = Part(new, f, c)
    <3>1. tell \in {"online_only_relationship", "never_met_in_person", "authority_urgency",
             "first_payee_new_crypto", "fee_to_release"}
          => \E f \in RawField, c \in {60, 70, 80, 85, 90} :
               /\ derive_signals(old)[tell] = Part(old, f, c)
               /\ derive_signals(new)[tell] = Part(new, f, c)
      BY <1>3, FieldNames
    <3>2. tell \in {"safe_account_move", "remote_access_active", "coaching_copresence",
                    "coached_answers"}
          => \E f \in RawField, c \in {60, 70, 80, 85, 90} :
               /\ derive_signals(old)[tell] = Part(old, f, c)
               /\ derive_signals(new)[tell] = Part(new, f, c)
      BY <1>3, FieldNames
    <3>3. QED
      BY <1>6, <3>1, <3>2 DEF ArcTell
  <2>2. QED
    BY <1>2, <2>1
<1>7. QED
  BY <1>4, <1>5, <1>6

LEMMA StageTells ==
  \A s \in 0..5 : \A tell \in DOMAIN StageWeight[s] :
      tell \in ArcTell /\ StageWeight[s][tell] \in Nat
<1>1. ASSUME NEW tell \in DOMAIN StageWeight[1] PROVE tell \in ArcTell /\ StageWeight[1][tell] \in Nat
  <2>1. StageWeight[1] = [online_only_relationship |-> 60, never_met_in_person |-> 50,
                          authority_urgency |-> 60]
    BY DEF StageWeight
  <2>2. QED
    BY <1>1, <2>1 DEF ArcTell
<1>2. ASSUME NEW tell \in DOMAIN StageWeight[2] PROVE tell \in ArcTell /\ StageWeight[2][tell] \in Nat
  <2>1. StageWeight[2] = [first_payee_new_crypto |-> 70]
    BY DEF StageWeight
  <2>2. QED
    BY <1>2, <2>1 DEF ArcTell
<1>3. ASSUME NEW tell \in DOMAIN StageWeight[4] PROVE tell \in ArcTell /\ StageWeight[4][tell] \in Nat
  <2>1. StageWeight[4] = [fee_to_release |-> 80, safe_account_move |-> 80,
                            remote_access_active |-> 80, coaching_copresence |-> 80,
                            script_reading |-> 70, duress |-> 90, coached_answers |-> 70]
    BY DEF StageWeight
  <2>2. QED
    BY <1>3, <2>1 DEF ArcTell
<1>4. ASSUME NEW s \in {0, 3, 5} PROVE DOMAIN StageWeight[s] = {}
  <2>1. StageWeight[s] = <<>>
    BY <1>4 DEF StageWeight
  <2>2. QED
    BY <2>1
<1>5. 0..5 = {0, 1, 2, 3, 4, 5}
  OBVIOUS
<1>6. QED
  BY <1>1, <1>2, <1>3, <1>4, <1>5

LEMMA LiveTellsOfStage4 == LiveTells \subseteq ArcTell /\ LiveTells \subseteq DOMAIN StageWeight[4]
<1>1. StageWeight[4] = [fee_to_release |-> 80, safe_account_move |-> 80,
                        remote_access_active |-> 80, coaching_copresence |-> 80,
                        script_reading |-> 70, duress |-> 90, coached_answers |-> 70]
  BY DEF StageWeight
<1>2. QED
  BY <1>1 DEF LiveTells, ArcTell

\* What evidenced a stage still does.
LEMMA EvidenceGrows ==
  ASSUME NEW old \in TelemetryRow, NEW new \in TelemetryRow, \A f \in RawField : old[f] <= new[f],
         NEW s \in 0..5, NEW tell \in DOMAIN StageWeight[s], NEW threshold \in Nat,
         derive_signals(old)[tell] * StageWeight[s][tell] >= threshold
  PROVE  derive_signals(new)[tell] * StageWeight[s][tell] >= threshold
<1>1. tell \in ArcTell /\ StageWeight[s][tell] \in Nat
  BY StageTells
<1>2. \A a, b, w \in Nat : a <= b => a * w <= b * w /\ a * w \in Nat /\ b * w \in Nat
  <2>1. ASSUME NEW a \in Nat, NEW b \in Nat, NEW w \in Nat, a <= b
        PROVE  a * w <= b * w /\ a * w \in Nat /\ b * w \in Nat
    <3>1. (b - a) \in Nat
      BY <2>1
    <3>2. (b - a) * w \in Nat
      BY <3>1
    <3>3. QED
      BY <3>2
  <2>2. QED
    BY <2>1
<1>3. QED
  BY <1>1, <1>2, TellsGrow

LEMMA StageDoesNotRegress ==
  ASSUME NEW old \in TelemetryRow, NEW new \in TelemetryRow, \A f \in RawField : old[f] <= new[f]
  PROVE  arc_stage(derive_signals(old)) <= arc_stage(derive_signals(new))
<1>1. reached(derive_signals(old)) \subseteq reached(derive_signals(new))
  <2>1. ASSUME NEW s \in 0..5, Evidences(derive_signals(old), s, 30000)
        PROVE  Evidences(derive_signals(new), s, 30000)
    BY <2>1, EvidenceGrows DEF Evidences
  <2>2. QED
    BY <2>1 DEF reached
<1>2. \A signals : {0} \cup reached(signals) \subseteq 0..5
  BY DEF reached
<1>3. \A S \in SUBSET 0..5 : S # {} => Max(S) \in S /\ \A y \in S : Max(S) >= y
  BY GreatestId
<1>4. QED
  BY <1>1, <1>2, <1>3 DEF arc_stage

LEMMA HardStopStays ==
  ASSUME NEW old \in TelemetryRow, NEW new \in TelemetryRow, \A f \in RawField : old[f] <= new[f],
         protect(derive_signals(old)) = "break-glass"
  PROVE  protect(derive_signals(new)) = "break-glass"
<1>1. coercion_in_flight(derive_signals(old)).coached \/ coercion_in_flight(derive_signals(old)).duress
  BY DEF protect
<1>2. coercion_in_flight(derive_signals(old)).coached => coercion_in_flight(derive_signals(new)).coached
  <2>1. ASSUME NEW tell \in LiveTells,
               derive_signals(old)[tell] * StageWeight[4][tell] >= 50000
        PROVE  derive_signals(new)[tell] * StageWeight[4][tell] >= 50000
    BY <2>1, EvidenceGrows, LiveTellsOfStage4
  <2>2. QED
    BY <2>1 DEF coercion_in_flight
<1>3. coercion_in_flight(derive_signals(old)).duress => coercion_in_flight(derive_signals(new)).duress
  <2>1. "duress" \in ArcTell
    BY DEF ArcTell
  <2>2. /\ derive_signals(old)["duress"] \in Nat /\ derive_signals(new)["duress"] \in Nat
        /\ derive_signals(old)["duress"] <= derive_signals(new)["duress"]
    BY <2>1, TellsGrow
  <2>3. ASSUME NEW raw
        PROVE  coercion_in_flight(derive_signals(raw)).duress
                 <=> derive_signals(raw)["duress"] >= 500
    <3>1. \A signals : coercion_in_flight(signals).duress = (signals.duress >= 500)
      BY DEF coercion_in_flight
    <3>2. QED
      BY <3>1
  <2>4. derive_signals(old)["duress"] >= 500 => derive_signals(new)["duress"] >= 500
    BY <2>2
  <2>5. QED
    BY <2>3, <2>4
<1>4. QED
  BY <1>1, <1>2, <1>3 DEF protect

\* A row that reports everything the last one did, and more, never puts the
\* person earlier on the arc nor softens a hard stop (core/scam_arc.py
\* locate_on_arc, protect).
THEOREM ArcOnlyAdvances == ActorSpec => ArcGoesForward
<1>1. ASSUME ActorTypeOK, ActorTypeOK', NEW s \in Session,
             \A f \in RawField : reported[s][f] <= reported'[s][f]
      PROVE  LET before == derive_signals(reported[s])
                 after == derive_signals(reported'[s])
             IN  /\ arc_stage(before) <= arc_stage(after)
                 /\ protect(before) = "break-glass" => protect(after) = "break-glass"
  <2>1. reported[s] \in TelemetryRow /\ reported'[s] \in TelemetryRow
    BY <1>1 DEF ActorTypeOK
  <2>2. QED
    BY <1>1, <2>1, StageDoesNotRegress, HardStopStays
<1>2. ActorTypeOK /\ ActorTypeOK'
      => [\A s \in Session :
          LET before == derive_signals(reported[s])
              after == derive_signals(reported'[s])
          IN  reported[s] # reported'[s]
                 /\ (\A f \in RawField : reported[s][f] <= reported'[s][f]) =>
                 /\ arc_stage(before) <= arc_stage(after)
                 /\ protect(before) = "break-glass" => protect(after) = "break-glass"]_actorVars
  BY <1>1
<1>3. QED
  BY <1>2, ActorTyped, PTL DEF ArcGoesForward

-----------------------------------------------------------------------------
(* NetworkIQ, for any number of institutions.  First what a fold adds up:   *)
(* the table of partial sums over the subsets of a finite set exists, by    *)
(* induction on their size, so that it obeys its recursive equation, and    *)
(* by a second induction two sums that differ in one term differ by as much *)
(* as the term.  An induction over a set of naturals needs no operator      *)
(* parameter: the least number outside the set is the counterexample.       *)

\* Some element of a set, the one the folds take.
Some(s) == CHOOSE x \in s : TRUE

SumStep(S, f, g) ==
    [s \in SUBSET S |-> IF s = {} THEN 0 ELSE f[Some(s)] + g[s \ {Some(s)}]]

SumTable(S, f) == CHOOSE g : g = SumStep(S, f, g)

\* The fold is an entry of its table.
LEMMA SumIsItsTable ==
  ASSUME NEW S, NEW f, DOMAIN f = S
  PROVE  SumFunction(f) = SumTable(S, f)[S]
BY DEF SumFunction, SumFunctionOnSet, FoldFunctionOnSet, MapThenFoldSet, SumTable, SumStep, Some

LEMMA SetInduction ==
  ASSUME NEW P, 0 \in P, \A n \in Nat : n \in P => n + 1 \in P
  PROVE  Nat \subseteq P
<1> SUFFICES ASSUME Nat \ P # {} PROVE FALSE
  OBVIOUS
<1>1. PICK n \in Nat \ P : \A m \in Nat \ P : ~ (<<m, n>> \in OpToRel(<, Nat))
  BY NatLessThanWellFounded, WFMin
<1>2. OpToRel(<, Nat) = {ss \in Nat \X Nat : ss[1] < ss[2]}
  BY Zenon DEF OpToRel
<1>3. n - 1 \in Nat \ P
  OBVIOUS
<1>4. <<n - 1, n>> \in Nat \X Nat /\ n - 1 < n
  BY <1>3
<1>5. QED
  BY <1>1, <1>2, <1>3, <1>4

Small(S, n) == {s \in SUBSET S : Cardinality(s) <= n}

LEMMA NoneSmaller ==
  ASSUME NEW S, IsFiniteSet(S), NEW s \in Small(S, 0)
  PROVE  s = {}
BY FS_Subset, FS_CardinalityType, FS_EmptySet DEF Small

LEMMA SmallerByOne ==
  ASSUME NEW S, IsFiniteSet(S), NEW n \in Nat, NEW s \in Small(S, n + 1), s # {}
  PROVE  /\ Some(s) \in s /\ Some(s) \in S /\ s \in SUBSET S
         /\ s \ {Some(s)} \in Small(S, n)
<1>1. Some(s) \in s
  BY DEF Some
<1>2. IsFiniteSet(s) /\ Cardinality(s) \in Nat /\ Cardinality(s) <= n + 1
  BY FS_Subset, FS_CardinalityType DEF Small
<1>3. Cardinality(s \ {Some(s)}) = Cardinality(s) - 1
  BY <1>1, <1>2, FS_RemoveElement
<1>4. QED
  BY <1>1, <1>2, <1>3 DEF Small

\* g answers for every subset of at most n elements.
Tabulates(S, f, g, n) ==
    /\ g \in [Small(S, n) -> Nat]
    /\ \A s \in Small(S, n) : g[s] = IF s = {} THEN 0 ELSE f[Some(s)] + g[s \ {Some(s)}]

\* The tables of each size are built one size at a time.
LEMMA TableExists ==
  ASSUME NEW S, IsFiniteSet(S), NEW f \in [S -> Nat]
  PROVE  \E g \in [SUBSET S -> Nat] : g = SumStep(S, f, g)
<1> DEFINE P == {n \in Nat : \E g : Tabulates(S, f, g, n)}
<1>1. 0 \in P
  <2> DEFINE g == [s \in Small(S, 0) |-> 0]
  <2>1. \A s \in Small(S, 0) : s = {}
    BY NoneSmaller
  <2>2. Tabulates(S, f, g, 0)
    BY <2>1 DEF Tabulates
  <2>3. QED
    BY <2>2
<1>2. ASSUME NEW n \in Nat, n \in P PROVE n + 1 \in P
  <2>1. PICK g : Tabulates(S, f, g, n)
    BY <1>2
  <2> DEFINE h == [s \in Small(S, n + 1) |-> IF s = {} THEN 0 ELSE f[Some(s)] + g[s \ {Some(s)}]]
  <2>2. ASSUME NEW s \in Small(S, n + 1), s # {}
        PROVE  s \ {Some(s)} \in Small(S, n) /\ f[Some(s)] \in Nat
    <3> HIDE DEF h, P
    <3>1. Some(s) \in S /\ s \ {Some(s)} \in Small(S, n)
      BY <2>2, SmallerByOne
    <3>2. QED
      BY <3>1
  <2>3. \A s \in Small(S, n) : s \in Small(S, n + 1) /\ h[s] = g[s]
    <3> TAKE s \in Small(S, n)
    <3>1. s \in Small(S, n + 1)
      BY FS_Subset, FS_CardinalityType DEF Small
    <3>2. QED
      BY <2>1, <3>1 DEF Tabulates
  <2>4. h \in [Small(S, n + 1) -> Nat]
    BY <2>1, <2>2 DEF Tabulates
  <2>5. \A s \in Small(S, n + 1) : h[s] = IF s = {} THEN 0 ELSE f[Some(s)] + h[s \ {Some(s)}]
    BY <2>2, <2>3
  <2>6. Tabulates(S, f, h, n + 1)
    <3> HIDE DEF h
    <3>1. QED
      BY <2>4, <2>5 DEF Tabulates
  <2>7. QED
    BY <2>6
<1>3. Cardinality(S) \in P
  <2> HIDE DEF P
  <2>1. QED
    BY <1>1, <1>2, SetInduction, FS_CardinalityType
<1>4. PICK g : Tabulates(S, f, g, Cardinality(S))
  BY <1>3
<1>5. Small(S, Cardinality(S)) = SUBSET S
  BY FS_Subset DEF Small
<1>6. g \in [SUBSET S -> Nat] /\ g = SumStep(S, f, g)
  BY <1>4, <1>5 DEF SumStep, Tabulates
<1>7. QED
  BY <1>6

\* The recursive equation of the table.
LEMMA TableEquation ==
  ASSUME NEW S, IsFiniteSet(S), NEW f \in [S -> Nat]
  PROVE  \A s \in SUBSET S :
            SumTable(S, f)[s] = IF s = {} THEN 0 ELSE f[Some(s)] + SumTable(S, f)[s \ {Some(s)}]
<1>1. SumTable(S, f) = SumStep(S, f, SumTable(S, f))
  BY TableExists DEF SumTable
<1>2. QED
  BY <1>1 DEF SumStep

\* Two tables of numbers that differ at j only differ where j is counted, by as much.
LEMMA SumsDiffer ==
  ASSUME NEW S, IsFiniteSet(S), NEW f \in [S -> Nat], NEW h \in [S -> Nat],
         NEW j \in S, \A i \in S \ {j} : h[i] = f[i]
  PROVE  /\ SumFunction(f) \in Nat /\ SumFunction(h) \in Nat
         /\ SumFunction(h) = SumFunction(f) + h[j] - f[j]
<1> DEFINE F == SumTable(S, f)
           H == SumTable(S, h)
           Agree(s) == F[s] \in Nat /\ H[s] \in Nat
                       /\ H[s] = F[s] + (IF j \in s THEN h[j] - f[j] ELSE 0)
           P == {n \in Nat : \A s \in Small(S, n) : Agree(s)}
<1>1. \A s \in SUBSET S : /\ F[s] = IF s = {} THEN 0 ELSE f[Some(s)] + F[s \ {Some(s)}]
                          /\ H[s] = IF s = {} THEN 0 ELSE h[Some(s)] + H[s \ {Some(s)}]
  BY TableEquation
<1> HIDE DEF F, H
<1>2. Agree({})
  <2>1. {} \in SUBSET S
    OBVIOUS
  <2>2. F[{}] = 0 /\ H[{}] = 0
    BY <1>1, <2>1
  <2>3. QED
    BY <2>2
<1>3. 0 \in P
  <2>1. \A s \in Small(S, 0) : s = {}
    BY NoneSmaller
  <2>2. QED
    BY <1>2, <2>1
<1>4. ASSUME NEW n \in Nat, n \in P PROVE n + 1 \in P
  <2> SUFFICES ASSUME NEW s \in Small(S, n + 1), s # {} PROVE Agree(s)
    <3>1. ASSUME \A s \in Small(S, n + 1) : s # {} => Agree(s)
          PROVE  \A s \in Small(S, n + 1) : Agree(s)
      <4> HIDE DEF Agree, P
      <4>1. QED
        BY <1>2, <3>1, Zenon
    <3>2. n + 1 \in Nat
      OBVIOUS
    <3>3. QED
      BY <3>1, <3>2, Zenon
  <2> DEFINE x == Some(s)
             t == s \ {Some(s)}
  <2>1. x \in s /\ x \in S /\ t \in Small(S, n) /\ s \in SUBSET S
    BY SmallerByOne
  <2>2. Agree(t)
    BY <1>4, <2>1
  <2>3. F[s] = f[x] + F[t] /\ H[s] = h[x] + H[t]
    BY <1>1, <2>1
  <2>4. CASE x = j
    <3>1. j \in s /\ j \notin t
      BY <2>1, <2>4
    <3>2. QED
      BY <2>1, <2>2, <2>3, <2>4, <3>1
  <2>5. CASE x # j
    <3>1. h[x] = f[x] /\ (j \in s <=> j \in t)
      BY <2>1, <2>5
    <3>2. QED
      BY <2>1, <2>2, <2>3, <3>1
  <2>6. QED
    BY <2>4, <2>5
<1>5. Cardinality(S) \in P
  <2> HIDE DEF P
  <2>1. QED
    BY <1>3, <1>4, SetInduction, FS_CardinalityType
<1>6. Agree(S)
  BY <1>5, FS_Subset DEF Small
<1>7. SumFunction(f) = F[S] /\ SumFunction(h) = H[S]
  BY SumIsItsTable DEF F, H
<1>8. QED
  BY <1>6, <1>7

-----------------------------------------------------------------------------
(* The smoothed rate.  One more confirmed fraud raises the published fraud  *)
(* count by 0.3 at least and the published volume by 1 at most; below the   *)
(* rate of 0.3, past which network_rep is saturated, that cannot lower it.  *)

LEMMA DivBounds ==
  ASSUME NEW x \in Nat, NEW y \in Nat, y > 0
  PROVE  /\ x \div y \in Nat
         /\ y * (x \div y) <= x
         /\ x < y * ((x \div y) + 1)
OBVIOUS

\* A quotient reaches k when k times the divisor fits.
LEMMA DivReaches ==
  ASSUME NEW x \in Nat, NEW y \in Nat, y > 0, NEW k \in Nat, y * k <= x
  PROVE  x \div y >= k
<1> DEFINE q == x \div y
<1>1. q \in Nat /\ x < y * (q + 1)
  BY DivBounds
<1> HIDE DEF q
<1>2. CASE q < k
  <2>1. q + 1 <= k
    BY <1>1, <1>2
  <2>2. y * (q + 1) <= y * k
    BY <1>1, <2>1
  <2>3. y * (q + 1) \in Nat /\ y * k \in Nat
    BY <1>1
  <2>4. QED
    BY <1>1, <2>2, <2>3
<1>3. q >= k
  BY <1>1, <1>2
<1>4. QED
  BY <1>3 DEF q

\* The rate past which network_rep has nothing more to say.
Saturated == 6 * ALERT_THRESHOLD

\* A fraud count raised by 0.3 at least, over a volume raised by 1 at most,
\* does not lower the smoothed rate, or leaves it saturated.
LEMMA RateGrows ==
  ASSUME NEW f \in Nat, NEW t \in Nat, NEW g \in Nat, NEW u \in Nat,
         f + 300 <= g, t <= u, u <= t + 1000
  PROVE  /\ _smoothed(f, t) \in Nat /\ _smoothed(g, u) \in Nat
         /\ _smoothed(f, t) <= _smoothed(g, u) \/ Saturated <= _smoothed(g, u)
<1> DEFINE a == (f + 130) * 10000
           b == t + 20000
           c == (g + 130) * 10000
           d == u + 20000
           q == a \div b
<1>1. _smoothed(f, t) = a \div b /\ _smoothed(g, u) = c \div d
  BY DEF _smoothed, SMOOTH_K, PRIOR
<1>2. /\ a \in Nat /\ b \in Nat /\ c \in Nat /\ d \in Nat
      /\ b > 0 /\ d > 0 /\ b <= d /\ d <= b + 1000 /\ a + 3000000 <= c
  OBVIOUS
<1> HIDE DEF a, b, c, d
<1>3. q \in Nat /\ b * q <= a /\ c \div d \in Nat
  BY <1>2, DivBounds
<1> HIDE DEF q
<1>4. CASE q >= 3000
  <2>1. b * 3000 <= b * q
    BY <1>2, <1>3, <1>4
  <2>2. b * q \in Nat
    BY <1>2, <1>3
  <2>3. b * 3000 <= a
    BY <1>2, <1>3, <2>1, <2>2
  <2>4. d * 3000 <= c
    BY <1>2, <2>3
  <2>5. c \div d >= 3000
    BY <1>2, <2>4, DivReaches
  <2>6. QED
    BY <1>1, <1>3, <2>5 DEF Saturated, ALERT_THRESHOLD, q
<1>5. CASE q < 3000
  <2>1. d * q <= (b + 1000) * q
    BY <1>2, <1>3
  <2>2. (b + 1000) * q = b * q + 1000 * q
    BY <1>2, <1>3
  <2>3. b * q \in Nat /\ d * q \in Nat
    BY <1>2, <1>3
  <2>4. d * q <= c
    BY <1>2, <1>3, <1>5, <2>1, <2>2, <2>3
  <2>5. c \div d >= q
    BY <1>2, <1>3, <2>4, DivReaches
  <2>6. QED
    BY <1>1, <1>3, <2>5 DEF q
<1>6. QED
  BY <1>3, <1>4, <1>5

-----------------------------------------------------------------------------
(* One more confirmed fraud at one institution.                            *)

Counts == [INSTITUTIONS -> [tx: Nat, fraud: Nat]]

\* One more confirmed fraud at j.
OneFraudMore(counts, j) ==
    [counts EXCEPT ![j] = [tx |-> @.tx + 1, fraud |-> @.fraud + 1]]

LEMMA NoisyTyped ==
  ASSUME NEW n \in Nat, NEW noise \in Int
  PROVE  noisy(n, noise) \in Nat /\ noisy(n + 1, noise) \in Nat
BY DEF noisy

FraudSum(counts) == SumFunction([i \in INSTITUTIONS |-> noisy(counts[i].fraud, Noise[i].fraud)])
TxSum(counts) == SumFunction([i \in INSTITUTIONS |-> noisy(counts[i].tx, Noise[i].tx)])

\* What one more fraud changes in the three sums of consortium_view.
LEMMA SumsGrow ==
  ASSUME NetworkAssumption, MildNoise,
         NEW counts \in Counts, NEW j \in INSTITUTIONS
  PROVE  LET after == OneFraudMore(counts, j)
         IN  /\ Total(counts) \in Nat /\ Total(after) = Total(counts) + 1
             /\ FraudSum(counts) \in Nat /\ FraudSum(after) \in Nat
             /\ TxSum(counts) \in Nat /\ TxSum(after) \in Nat
             /\ FraudSum(counts) + 300 <= FraudSum(after)
             /\ FraudSum(after) <= FraudSum(counts) + 1000
             /\ TxSum(counts) <= TxSum(after)
             /\ TxSum(after) <= TxSum(counts) + 1000
<1> DEFINE after == OneFraudMore(counts, j)
<1>1. /\ after \in Counts
      /\ after[j].tx = counts[j].tx + 1 /\ after[j].fraud = counts[j].fraud + 1
      /\ \A i \in INSTITUTIONS \ {j} : after[i] = counts[i]
  BY DEF OneFraudMore, Counts
<1> HIDE DEF after
<1>2. /\ IsFiniteSet(INSTITUTIONS)
      /\ \A i \in INSTITUTIONS : /\ Noise[i].tx \in Int /\ Noise[i].fraud \in Int
                                 /\ counts[i].tx \in Nat /\ counts[i].fraud \in Nat
                                 /\ after[i].tx \in Nat /\ after[i].fraud \in Nat
  BY <1>1 DEF NetworkAssumption, Counts
<1>3. Total(counts) \in Nat /\ Total(after) = Total(counts) + 1
  <2> DEFINE f == [i \in INSTITUTIONS |-> counts[i].tx]
             h == [i \in INSTITUTIONS |-> after[i].tx]
  <2>1. /\ f \in [INSTITUTIONS -> Nat] /\ h \in [INSTITUTIONS -> Nat]
        /\ \A i \in INSTITUTIONS \ {j} : h[i] = f[i]
        /\ h[j] = f[j] + 1 /\ f[j] \in Nat
    BY <1>1, <1>2
  <2> HIDE DEF f, h
  <2>2. /\ SumFunction(f) \in Nat
        /\ SumFunction(h) = SumFunction(f) + h[j] - f[j]
    <3>1. IsFiniteSet(INSTITUTIONS)
      BY <1>2
    <3>2. f \in [INSTITUTIONS -> Nat] /\ h \in [INSTITUTIONS -> Nat]
      BY <2>1
    <3>3. \A i \in INSTITUTIONS \ {j} : h[i] = f[i]
      BY <2>1
    <3>4. QED
      BY <3>1, <3>2, <3>3, SumsDiffer
  <2>3. QED
    BY <2>1, <2>2 DEF Total, f, h
<1>4. /\ FraudSum(counts) \in Nat /\ FraudSum(after) \in Nat
      /\ FraudSum(counts) + 300 <= FraudSum(after)
      /\ FraudSum(after) <= FraudSum(counts) + 1000
  <2> DEFINE f == [i \in INSTITUTIONS |-> noisy(counts[i].fraud, Noise[i].fraud)]
             h == [i \in INSTITUTIONS |-> noisy(after[i].fraud, Noise[i].fraud)]
  <2>1. /\ f \in [INSTITUTIONS -> Nat] /\ h \in [INSTITUTIONS -> Nat]
        /\ \A i \in INSTITUTIONS \ {j} : h[i] = f[i]
    BY <1>1, <1>2, NoisyTyped
  <2>2. f[j] + 300 <= h[j] /\ h[j] <= f[j] + 1000 /\ f[j] \in Nat /\ h[j] \in Nat
    <3>1. /\ f[j] = noisy(counts[j].fraud, Noise[j].fraud)
          /\ h[j] = noisy(counts[j].fraud + 1, Noise[j].fraud)
      BY <1>1
    <3>2. counts[j].fraud \in Nat /\ Noise[j].fraud \in Int /\ Noise[j].fraud >= -700
      BY <1>2 DEF MildNoise
    <3> HIDE DEF f, h
    <3>3. PICK n \in Nat, noise \in Int :
             n = counts[j].fraud /\ noise = Noise[j].fraud /\ noise >= -700
      BY <3>2
    <3>4. /\ noisy(n, noise) \in Nat /\ noisy(n + 1, noise) \in Nat
          /\ noisy(n, noise) + 300 <= noisy(n + 1, noise)
          /\ noisy(n + 1, noise) <= noisy(n, noise) + 1000
      BY <3>3 DEF noisy
    <3>5. f[j] = noisy(n, noise) /\ h[j] = noisy(n + 1, noise)
      BY <3>1, <3>3, Zenon
    <3>6. QED
      BY <3>4, <3>5, Zenon
  <2>3. f = [i \in INSTITUTIONS |-> noisy(counts[i].fraud, Noise[i].fraud)]
        /\ h = [i \in INSTITUTIONS |-> noisy(after[i].fraud, Noise[i].fraud)]
    OBVIOUS
  <2> HIDE DEF f, h
  <2>4. /\ SumFunction(f) \in Nat /\ SumFunction(h) \in Nat
        /\ SumFunction(h) = SumFunction(f) + h[j] - f[j]
    <3>1. IsFiniteSet(INSTITUTIONS)
      BY <1>2
    <3>2. f \in [INSTITUTIONS -> Nat] /\ h \in [INSTITUTIONS -> Nat]
      BY <2>1
    <3>3. \A i \in INSTITUTIONS \ {j} : h[i] = f[i]
      BY <2>1
    <3>4. QED
      BY <3>1, <3>2, <3>3, SumsDiffer
  <2>5. FraudSum(counts) = SumFunction(f) /\ FraudSum(after) = SumFunction(h)
    BY <2>3 DEF FraudSum
  <2>6. QED
    BY <2>2, <2>4, <2>5
<1>5. /\ TxSum(counts) \in Nat /\ TxSum(after) \in Nat
      /\ TxSum(counts) <= TxSum(after)
      /\ TxSum(after) <= TxSum(counts) + 1000
  <2> DEFINE f == [i \in INSTITUTIONS |-> noisy(counts[i].tx, Noise[i].tx)]
             h == [i \in INSTITUTIONS |-> noisy(after[i].tx, Noise[i].tx)]
  <2>1. /\ f \in [INSTITUTIONS -> Nat] /\ h \in [INSTITUTIONS -> Nat]
        /\ \A i \in INSTITUTIONS \ {j} : h[i] = f[i]
    BY <1>1, <1>2, NoisyTyped
  <2>2. f[j] <= h[j] /\ h[j] <= f[j] + 1000 /\ f[j] \in Nat /\ h[j] \in Nat
    <3>1. f[j] = noisy(counts[j].tx, Noise[j].tx) /\ h[j] = noisy(counts[j].tx + 1, Noise[j].tx)
      BY <1>1
    <3>2. counts[j].tx \in Nat /\ Noise[j].tx \in Int
      BY <1>2
    <3> HIDE DEF f, h
    <3>3. PICK n \in Nat, noise \in Int :
             n = counts[j].tx /\ noise = Noise[j].tx
      BY <3>2
    <3>4. /\ noisy(n, noise) \in Nat /\ noisy(n + 1, noise) \in Nat
          /\ noisy(n, noise) <= noisy(n + 1, noise)
          /\ noisy(n + 1, noise) <= noisy(n, noise) + 1000
      BY <3>3 DEF noisy
    <3>5. f[j] = noisy(n, noise) /\ h[j] = noisy(n + 1, noise)
      BY <3>1, <3>3, Zenon
    <3>6. QED
      BY <3>4, <3>5, Zenon
  <2>3. f = [i \in INSTITUTIONS |-> noisy(counts[i].tx, Noise[i].tx)]
        /\ h = [i \in INSTITUTIONS |-> noisy(after[i].tx, Noise[i].tx)]
    OBVIOUS
  <2> HIDE DEF f, h
  <2>4. /\ SumFunction(f) \in Nat /\ SumFunction(h) \in Nat
        /\ SumFunction(h) = SumFunction(f) + h[j] - f[j]
    <3>1. IsFiniteSet(INSTITUTIONS)
      BY <1>2
    <3>2. f \in [INSTITUTIONS -> Nat] /\ h \in [INSTITUTIONS -> Nat]
      BY <2>1
    <3>3. \A i \in INSTITUTIONS \ {j} : h[i] = f[i]
      BY <2>1
    <3>4. QED
      BY <3>1, <3>2, <3>3, SumsDiffer
  <2>5. TxSum(counts) = SumFunction(f) /\ TxSum(after) = SumFunction(h)
    BY <2>3 DEF TxSum
  <2>6. QED
    BY <2>2, <2>4, <2>5
<1>6. QED
  BY <1>3, <1>4, <1>5 DEF after

\* The view neither loses its evidence nor its alert, and its rate grows or
\* stays saturated.
LEMMA ViewGrows ==
  ASSUME NetworkAssumption, MildNoise,
         NEW counts \in Counts, NEW j \in INSTITUTIONS
  PROVE  LET before == consortium_view(counts)
             after == consortium_view(OneFraudMore(counts, j))
         IN  /\ before.rate \in Nat /\ after.rate \in Nat
             /\ before.rate <= after.rate \/ Saturated <= after.rate
             /\ before.sufficient => after.sufficient
             /\ before.alerts => after.alerts
<1> DEFINE more == OneFraudMore(counts, j)
           F == FraudSum(counts)
           T == TxSum(counts)
           G == FraudSum(more)
           U == TxSum(more)
<1>1. /\ F \in Nat /\ T \in Nat /\ G \in Nat /\ U \in Nat
      /\ F + 300 <= G /\ G <= F + 1000 /\ T <= U /\ U <= T + 1000
      /\ Total(counts) \in Nat /\ Total(more) = Total(counts) + 1
  BY SumsGrow
<1>2. \A c : /\ consortium_view(c).rate
                  = _smoothed(FraudSum(c), IF TxSum(c) < FraudSum(c) THEN FraudSum(c) ELSE TxSum(c))
             /\ consortium_view(c).sufficient = (Total(c) >= MIN_EVIDENCE_TX)
             /\ consortium_view(c).alerts
                  = (consortium_view(c).rate >= ALERT_THRESHOLD /\ Total(c) >= MIN_EVIDENCE_TX)
  BY DEF consortium_view, FraudSum, TxSum
<1> HIDE DEF more, F, T, G, U
<1> DEFINE t == IF T < F THEN F ELSE T
           u == IF U < G THEN G ELSE U
<1>3. t \in Nat /\ u \in Nat /\ t <= u /\ u <= t + 1000
  BY <1>1
<1> HIDE DEF t, u
<1>4. /\ _smoothed(F, t) \in Nat /\ _smoothed(G, u) \in Nat
      /\ _smoothed(F, t) <= _smoothed(G, u) \/ Saturated <= _smoothed(G, u)
  BY <1>1, <1>3, RateGrows
<1>5. consortium_view(counts).rate = _smoothed(F, t) /\ consortium_view(more).rate = _smoothed(G, u)
  BY <1>2 DEF F, G, T, U, t, u
<1>6. consortium_view(counts).rate >= ALERT_THRESHOLD => consortium_view(more).rate >= ALERT_THRESHOLD
  BY <1>4, <1>5 DEF ALERT_THRESHOLD, Saturated
<1>7. Total(counts) >= MIN_EVIDENCE_TX => Total(more) >= MIN_EVIDENCE_TX
  BY <1>1 DEF MIN_EVIDENCE_TX
<1>8. QED
  BY <1>2, <1>4, <1>5, <1>6, <1>7 DEF more

\* network_rep's ramp, on rates.
Ramp(rate) == _norm(rate, ALERT_THRESHOLD, Saturated)

LEMMA RampGrows ==
  ASSUME NEW x \in Nat, NEW y \in Nat, x <= y \/ Saturated <= y
  PROVE  /\ Ramp(x) \in 0..1000 /\ Ramp(y) \in 0..1000
         /\ Ramp(x) <= Ramp(y)
BY DEF Ramp, _norm, Saturated, ALERT_THRESHOLD

LEMMA ReputationGrows ==
  ASSUME NetworkAssumption, MildNoise,
         NEW counts \in Counts, NEW j \in INSTITUTIONS
  PROVE  LET before == _insight_network_rep(counts)
             after == _insight_network_rep(OneFraudMore(counts, j))
         IN  before \in 0..1000 /\ after \in 0..1000 /\ before <= after
<1> DEFINE old == consortium_view(counts)
           new == consortium_view(OneFraudMore(counts, j))
<1>1. /\ old.rate \in Nat /\ new.rate \in Nat
      /\ old.rate <= new.rate \/ Saturated <= new.rate
      /\ old.sufficient => new.sufficient
  BY ViewGrows
<1>2. /\ _insight_network_rep(counts) = IF old.sufficient THEN Ramp(old.rate) ELSE 0
      /\ _insight_network_rep(OneFraudMore(counts, j))
            = IF new.sufficient THEN Ramp(new.rate) ELSE 0
  BY DEF _insight_network_rep, Ramp, Saturated
<1> HIDE DEF old, new
<1>3. PICK x \in Nat, y \in Nat : x = old.rate /\ y = new.rate
  BY <1>1
<1>4. /\ Ramp(x) \in 0..1000 /\ Ramp(y) \in 0..1000 /\ Ramp(x) <= Ramp(y)
  <2>1. x <= y \/ Saturated <= y
    BY <1>1, <1>3, Zenon
  <2>2. QED
    BY <2>1, RampGrows
<1>5. Ramp(old.rate) = Ramp(x) /\ Ramp(new.rate) = Ramp(y)
  BY <1>3, Zenon
<1>6. PICK p \in 0..1000, q \in 0..1000 : p = Ramp(x) /\ q = Ramp(y) /\ p <= q
  BY <1>4
<1>7. /\ _insight_network_rep(counts) = IF old.sufficient THEN p ELSE 0
      /\ _insight_network_rep(OneFraudMore(counts, j)) = IF new.sufficient THEN q ELSE 0
  BY <1>2, <1>5, <1>6, Zenon
<1>8. QED
  BY <1>1, <1>6, <1>7

\* What an institution sees of its own does not change, so a reveal to it stays.
LEMMA RevealStays ==
  ASSUME NetworkAssumption, MildNoise,
         NEW counts \in Counts, NEW j \in INSTITUTIONS, NEW i \in INSTITUTIONS \ {j}
  PROVE  network_reveal(counts, i) => network_reveal(OneFraudMore(counts, j), i)
<1>1. OneFraudMore(counts, j)[i] = counts[i]
  BY DEF OneFraudMore, Counts
<1>2. local_rate(OneFraudMore(counts, j), i) = local_rate(counts, i)
  BY <1>1 DEF local_rate
<1>3. consortium_view(counts).alerts => consortium_view(OneFraudMore(counts, j)).alerts
  BY ViewGrows
<1>4. QED
  BY <1>2, <1>3, Zenon DEF network_reveal

LEMMA NewnessTyped ==
  ASSUME NEW t \in Nat, NEW amount \in [over_norm: Nat, weight: Nat]
  PROVE  _insight_new_to_network(t, amount) \in Nat
<1> DEFINE n == _norm(NEW_TO_NETWORK_TX - t, 0, NEW_TO_NETWORK_TX)
<1>1. n \in Nat
  BY DEF _norm, NEW_TO_NETWORK_TX
<1> HIDE DEF n
<1>2. PICK w \in Nat : w = amount.weight
  OBVIOUS
<1>3. n * w \in Nat
  BY <1>1
<1>4. (n * w) \div 1000 \in Nat
  BY <1>3
<1>5. _insight_new_to_network(t, amount) = (n * amount.weight) \div 1000
  BY DEF _insight_new_to_network, n
<1>6. QED
  BY <1>2, <1>4, <1>5

Capped(sum) == IF sum \div 100 > 1000 THEN 1000 ELSE sum \div 100

LEMMA RiskGrows ==
  ASSUME NetworkAssumption, MildNoise,
         NEW counts \in Counts, NEW j \in INSTITUTIONS, NEW i \in INSTITUTIONS \ {j},
         NEW t \in Nat, NEW amount \in Amount
  PROVE  raises_to(counts, i, t, amount) <= raises_to(OneFraudMore(counts, j), i, t, amount)
<1> DEFINE more == OneFraudMore(counts, j)
<1>1. PICK p \in 0..1000, q \in 0..1000 :
         p = _insight_network_rep(counts) /\ q = _insight_network_rep(more) /\ p <= q
  <2>1. /\ _insight_network_rep(counts) \in 0..1000 /\ _insight_network_rep(more) \in 0..1000
        /\ _insight_network_rep(counts) <= _insight_network_rep(more)
    BY ReputationGrows
  <2> HIDE DEF more
  <2>2. QED
    BY <2>1
<1>2. network_reveal(counts, i) => network_reveal(more, i)
  BY RevealStays
<1>3. consortium_view(counts).sufficient => consortium_view(more).sufficient
  BY ViewGrows
<1>4. PICK n \in Nat, o \in Nat : n = _insight_new_to_network(t, amount) /\ o = amount.over_norm
  BY NewnessTyped DEF NetworkAssumption
<1> HIDE DEF more
<1> DEFINE r == IF network_reveal(counts, i) THEN p ELSE 0
           s == IF network_reveal(more, i) THEN q ELSE 0
<1>5. r \in Nat /\ s \in Nat /\ r <= s
  BY <1>1, <1>2
<1>6. /\ network_risk(counts, i, t, amount) = Capped(40 * p + 28 * r + 22 * o + 10 * n)
      /\ network_risk(more, i, t, amount) = Capped(40 * q + 28 * s + 22 * o + 10 * n)
  <2>1. \A c : network_risk(c, i, t, amount)
                 = Capped(40 * _insight_network_rep(c)
                            + 28 * (IF network_reveal(c, i) THEN _insight_network_rep(c) ELSE 0)
                            + 22 * amount.over_norm + 10 * _insight_new_to_network(t, amount))
    BY Zenon DEF network_risk, Capped
  <2>2. QED
    BY <1>1, <1>4, <2>1, Zenon
<1> HIDE DEF r, s
<1>7. PICK u \in Nat, v \in Nat :
         /\ u = Capped(40 * p + 28 * r + 22 * o + 10 * n)
         /\ v = Capped(40 * q + 28 * s + 22 * o + 10 * n)
         /\ u <= v
  <2> DEFINE x == 40 * p + 28 * r + 22 * o + 10 * n
             y == 40 * q + 28 * s + 22 * o + 10 * n
  <2>1. x \in Nat /\ y \in Nat /\ x <= y
    BY <1>1, <1>4, <1>5
  <2> HIDE DEF x, y
  <2>2. Capped(x) \in Nat /\ Capped(y) \in Nat /\ Capped(x) <= Capped(y)
    BY <2>1 DEF Capped
  <2>3. QED
    BY <2>2 DEF x, y
<1>8. /\ raises_to(counts, i, t, amount) = IF consortium_view(counts).sufficient THEN u ELSE 0
      /\ raises_to(more, i, t, amount) = IF consortium_view(more).sufficient THEN v ELSE 0
  BY <1>6, <1>7, Zenon DEF raises_to
<1>9. QED
  BY <1>3, <1>7, <1>8 DEF more

-----------------------------------------------------------------------------
(* The indexes hold counts.                                                 *)

NetworkInv ==
    /\ edges \in [Payee -> Counts]
    /\ \A p \in DOMAIN consortium : consortium[p] \in Counts
    /\ \A p \in DOMAIN aiq : aiq[p] \in Nat

LEMMA NothingBuilt == DOMAIN Unbuilt = {}
BY DEF Unbuilt

LEMMA TotalTyped ==
  ASSUME NetworkAssumption, NEW counts \in Counts
  PROVE  Total(counts) \in Nat
<1> DEFINE f == [i \in INSTITUTIONS |-> counts[i].tx]
<1>1. f \in [INSTITUTIONS -> Nat]
  BY DEF Counts
<1>2. IsFiniteSet(INSTITUTIONS) /\ Total(counts) = SumFunction(f)
  BY DEF NetworkAssumption, Total
<1> HIDE DEF f
<1>3. CASE INSTITUTIONS = {}
  <2>1. SumTable(INSTITUTIONS, f)[INSTITUTIONS] = 0
    BY <1>1, <1>2, <1>3, TableEquation
  <2>2. QED
    BY <1>1, <1>2, <2>1, SumIsItsTable
<1>4. CASE INSTITUTIONS # {}
  <2>1. PICK j : j \in INSTITUTIONS
    BY <1>4
  <2>2. SumFunction(f) \in Nat
    BY <1>1, <1>2, <2>1, SumsDiffer
  <2>3. QED
    BY <1>2, <2>2
<1>5. QED
  BY <1>3, <1>4

LEMMA NetworkTyped == ASSUME NetworkAssumption PROVE NetworkSpec => []NetworkInv
<1>1. NetworkInit => NetworkInv
  <2> SUFFICES ASSUME NetworkInit PROVE NetworkInv
    OBVIOUS
  <2>1. NoCounts \in Counts /\ LedgerCounts \subseteq Counts
    BY DEF NoCounts, Counts, NetworkAssumption
  <2>2. edges \in [Payee -> Counts]
    BY <2>1 DEF NetworkInit
  <2>3. QED
    BY <2>2, NothingBuilt DEF NetworkInit, NetworkInv
<1>2. NetworkInv /\ [NetworkNext]_networkVars => NetworkInv'
  <2> SUFFICES ASSUME NetworkInv, [NetworkNext]_networkVars PROVE NetworkInv'
    OBVIOUS
  <2>1. ASSUME NEW p \in Payee, NEW i \in INSTITUTIONS, Settle(p, i) PROVE NetworkInv'
    <3>1. PICK fraud \in {0, 1} :
             edges' = [edges EXCEPT ![p][i] = [tx |-> @.tx + 1, fraud |-> @.fraud + fraud]]
      BY <2>1 DEF Settle
    <3>2. edges' \in [Payee -> Counts]
      BY <3>1 DEF NetworkInv, Counts
    <3>3. QED
      BY <2>1, <3>2 DEF Settle, NetworkInv
  <2>2. CASE BuildConsortium
    BY <2>2 DEF BuildConsortium, NetworkInv
  <2>3. CASE BuildAiq
    <3>1. \A p \in InLedger : Total(edges[p]) \in Nat
      BY TotalTyped DEF NetworkInv, NetworkAssumption
    <3>2. QED
      BY <2>3, <3>1 DEF BuildAiq, NetworkInv
  <2>4. CASE RestartIndexes
    BY <2>4, NothingBuilt DEF RestartIndexes, NetworkInv
  <2>5. CASE UNCHANGED networkVars
    BY <2>5 DEF networkVars, NetworkInv
  <2>6. QED
    BY <2>1, <2>2, <2>3, <2>4, <2>5 DEF NetworkNext
<1>3. QED
  BY <1>1, <1>2, PTL DEF NetworkSpec

\* A payee's confirmed fraud at another institution never lowers what the
\* network can raise a payment to (core/authorization_iq.py authorize,
\* core/consortium.py consortium_view), for any institutions, counts and amounts
\* and any noise that hides less than 0.7 of a fraud.
THEOREM OthersFraudNeverHelps ==
  ASSUME NetworkAssumption, MildNoise
  PROVE  NetworkSpec => []FraudElsewhereNeverSoothes
<1>1. NetworkInv => FraudElsewhereNeverSoothes
  <2> SUFFICES ASSUME NetworkInv, aiq # Unbuilt,
                      NEW p \in DOMAIN consortium, NEW i \in INSTITUTIONS, NEW amount \in Amount,
                      NEW j \in INSTITUTIONS \ {i}
               PROVE  raises_to(consortium[p], i, recipient_tx(p), amount)
                        <= raises_to(OneFraudMore(consortium[p], j), i, recipient_tx(p), amount)
    BY Zenon DEF FraudElsewhereNeverSoothes, OneFraudMore
  <2>1. consortium[p] \in Counts /\ recipient_tx(p) \in Nat
    BY DEF NetworkInv, recipient_tx
  <2>2. QED
    BY <2>1, RiskGrows
<1>2. QED
  BY <1>1, NetworkTyped, PTL
=============================================================================
