------------------------------ MODULE StoreTxn ------------------------------
(***************************************************************************)
(* The transactions of core/store.py.  All threads of the server share one *)
(* SQLite connection, so there is one working image; writers hold an RLock *)
(* around a call or a batch(), every write method commits unless a batch   *)
(* is open, and whatever is in the image when anybody commits becomes      *)
(* durable.  add_label, the method of two statements, stands for the write *)
(* methods: it supersedes the standing label, then inserts its own.        *)
(***************************************************************************)
EXTENDS Integers

CONSTANTS
    Writer,         \* threads
    Nobody,         \* the lock is free
    LabelId,        \* uuid4 ids, each drawn once
    MaxDepth,       \* bound on the nesting of batches
    MaxCrash        \* bound on process crashes

ASSUME TxnAssumption ==
    /\ Nobody \notin Writer \cup LabelId
    /\ {"absent", "current"} \cap LabelId = {}
    /\ MaxDepth \in Nat /\ MaxCrash \in Nat

VARIABLES
    image,          \* the connection's rows: per label, absent, current or superseded_by
    durable,        \* the rows as of the last commit
    txn,            \* the RLock's holder, _batch_depth, the statement reached
    returned,       \* history: labels a finished call or batch reported written
    rolledBack,     \* history: labels of batches that failed
    broken,         \* history: an exception left statements behind
    crashCount

txnVars == <<image, durable, txn, returned, rolledBack, broken, crashCount>>

Free == [holder |-> Nobody, depth |-> 0, writing |-> Nobody, added |-> {}]

TxnInit ==
    /\ image = [l \in LabelId |-> "absent"]
    /\ durable = image
    /\ txn = Free
    /\ returned = {}
    /\ rolledBack = {}
    /\ broken = FALSE
    /\ crashCount = 0

\* The RLock lets its holder in again.
CanUse(w) ==
    /\ txn.holder \in {Nobody, w}
    /\ txn.writing = Nobody

Superseding(l) == [m \in LabelId |-> IF image[m] = "current" THEN l ELSE image[m]]

\* Mutant: the UPDATE is committed on its own.
Supersede_Committed(w, l) ==
    /\ CanUse(w)
    /\ image[l] = "absent" /\ l \notin returned \cup rolledBack
    /\ image' = Superseding(l)
    /\ durable' = image'
    /\ txn' = [txn EXCEPT !.holder = w, !.writing = l]
    /\ UNCHANGED <<returned, rolledBack, broken, crashCount>>

\* add_label's UPDATE, outside a batch or in the caller's own.
Supersede(w, l) ==
    /\ CanUse(w)
    /\ image[l] = "absent" /\ l \notin returned \cup rolledBack
    /\ image' = Superseding(l)
    /\ txn' = [txn EXCEPT !.holder = w, !.writing = l]
    /\ UNCHANGED <<durable, returned, rolledBack, broken, crashCount>>

\* Mutant: the commit is left to a batch.
Commits_InBatch == txn.depth > 0

\* _commit.
Commits == txn.depth = 0

InsertLabel(w) ==
    LET l == txn.writing
    IN  /\ txn.holder = w /\ l # Nobody
        /\ image' = [image EXCEPT ![l] = "current"]
        /\ durable' = IF Commits THEN image' ELSE durable
        /\ IF txn.depth = 0
           THEN txn' = Free /\ returned' = returned \cup {l}
           ELSE /\ txn' = [txn EXCEPT !.writing = Nobody, !.added = @ \cup {l}]
                /\ UNCHANGED returned
        /\ UNCHANGED <<rolledBack, broken, crashCount>>

\* The INSERT raises (a value SQLite cannot bind, a full disk).  Nothing undoes
\* the UPDATE; in a batch the caller may go on, or let the exception through.
InsertFails(w) ==
    /\ txn.holder = w /\ txn.writing # Nobody
    /\ txn' = IF txn.depth = 0 THEN Free ELSE [txn EXCEPT !.writing = Nobody]
    /\ broken' = TRUE
    /\ UNCHANGED <<image, durable, returned, rolledBack, crashCount>>

BeginBatch(w) ==
    /\ CanUse(w) /\ txn.depth < MaxDepth
    /\ txn' = [txn EXCEPT !.holder = w, !.depth = @ + 1]
    /\ UNCHANGED <<image, durable, returned, rolledBack, broken, crashCount>>

EndBatch(w) ==
    /\ txn.holder = w /\ txn.writing = Nobody /\ txn.depth > 0
    /\ IF txn.depth = 1
       THEN /\ durable' = image
            /\ returned' = returned \cup txn.added
            /\ txn' = Free
       ELSE /\ txn' = [txn EXCEPT !.depth = @ - 1]
            /\ UNCHANGED <<durable, returned>>
    /\ UNCHANGED <<image, rolledBack, broken, crashCount>>

RollsBack(isException) == isException /\ txn.depth = 1

\* An exception leaves the block.  A nested batch only passes it on, and a
\* BaseException neither rolls back nor commits.
FailBatch(w, isException) ==
    /\ txn.holder = w /\ txn.writing = Nobody /\ txn.depth > 0
    /\ image' = IF RollsBack(isException) THEN durable ELSE image
    /\ rolledBack' = IF txn.depth = 1 /\ isException THEN rolledBack \cup txn.added ELSE rolledBack
    /\ broken' = (broken \/ (txn.depth = 1 /\ ~isException))
    /\ txn' = IF txn.depth = 1 THEN Free ELSE [txn EXCEPT !.depth = @ - 1]
    /\ UNCHANGED <<durable, returned, crashCount>>

ProcessCrash ==
    /\ crashCount < MaxCrash
    /\ crashCount' = crashCount + 1
    /\ image' = durable
    /\ txn' = Free
    /\ UNCHANGED <<durable, returned, rolledBack, broken>>

TxnNext ==
    \/ \E w \in Writer :
        \/ \E l \in LabelId : Supersede(w, l)
        \/ InsertLabel(w)
        \/ InsertFails(w)
        \/ BeginBatch(w)
        \/ EndBatch(w)
        \/ \E isException \in BOOLEAN : FailBatch(w, isException)
    \/ ProcessCrash

TxnSpec == TxnInit /\ [][TxnNext]_txnVars

-----------------------------------------------------------------------------

Present(rows) == {l \in LabelId : rows[l] # "absent"}

Dangling(rows) == {l \in LabelId : rows[l] \in LabelId /\ rows[rows[l]] = "absent"}

\* What a call or a batch reported written survives every crash and rollback
\* after it ("a scoring decision must be durable before the response returns").
ReturnedIsDurable == returned \subseteq Present(durable)

\* "Rolls back on exception, so a failed batch leaves no partial substrate",
\* however its add_labels were nested and whoever commits next.
FailedBatchLeavesNothing ==
    rolledBack \cap (Present(image) \cup Present(durable)) = {}

\* As long as no exception left statements in the shared connection, what a
\* crash would leave is whole: every superseded label names one that exists,
\* and if there are labels then exactly one is standing.
DurableIsWhole ==
    ~broken => /\ Dangling(durable) = {}
               /\ Present(durable) # {} => \E l \in LabelId :
                    {m \in LabelId : durable[m] = "current"} = {l}

\* "'' = current; else the label_id that revised this".
SupersededNamesARevision == Dangling(durable) = {}
=============================================================================
