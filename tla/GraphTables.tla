----------------------------- MODULE GraphTables ----------------------------
(***************************************************************************)
(* The two lookup stores of entity reputation, gnn_lite.py (Tier 2) and    *)
(* graph_features.py (Tier 3): both are built from transactions.csv at     *)
(* start-up, rebuilt by main.py's hourly loop, and read by the threads     *)
(* that score.  POST /syntheticid/ingest rewrites the file in place.       *)
(*                                                                         *)
(* A table is the number of the load its entries come from, 0 while it is  *)
(* cleared.  Both writers hold their module's lock over clear() and        *)
(* update(); only graph_features' reader takes it.                         *)
(***************************************************************************)
EXTENDS Integers, Sequences

CONSTANTS
    Scorer,         \* threads inside build_event
    MaxLoads,       \* bound on loads of the file
    MaxIngests      \* bound on rewrites of the file

ASSUME GraphAssumption == MaxLoads \in Nat \ {0} /\ MaxIngests \in Nat

VARIABLES
    csv,            \* transactions.csv: "whole", or "torn" while it is rewritten
    ingests,
    refresh,        \* the hourly task: asleep, the store it rebuilds, or dead
    tables,         \* per store, its tables in the order they are swapped
    looked_up       \* per scorer, the loads its two lookups have read from

graphVars == <<csv, ingests, refresh, tables, looked_up>>

Store == {"gnn_lite", "graph_features"}

\* user, device, recipient, user_recipient_mean, device_couser_mean; and
\* device_user_count, device, recipient, recipient_tx_count, user, neighbors.
Tables == [s \in Store |-> IF s = "gnn_lite" THEN 1..5 ELSE 1..6]

Idle == [pc |-> "idle", gnn_lite |-> <<>>, graph_features |-> <<>>]

\* Start-up builds both stores before the first request is served.
GraphInit ==
    /\ csv = "whole"
    /\ ingests = 0
    /\ refresh = [pc |-> "asleep", load |-> 1]
    /\ tables = [s \in Store |-> [t \in Tables[s] |-> 1]]
    /\ looked_up = [w \in Scorer |-> Idle]

-----------------------------------------------------------------------------
(* The file.                                                               *)

\* to_csv truncates the file it has read,
Truncate ==
    /\ csv = "whole" /\ ingests < MaxIngests
    /\ csv' = "torn" /\ ingests' = ingests + 1
    /\ UNCHANGED <<refresh, tables, looked_up>>

\* and writes it with the new rows.
Rewrite ==
    /\ csv = "torn"
    /\ csv' = "whole"
    /\ UNCHANGED <<ingests, refresh, tables, looked_up>>

-----------------------------------------------------------------------------
(* _graph_refresh_loop: graph_features first, then gnn_lite.               *)

Swapping(s, load, t, cleared) ==
    [pc |-> "swapping", store |-> s, table |-> t, cleared |-> cleared, load |-> load]

\* A file cut to nothing raises (a longer torn one reads as a shorter file).
\* graph_features drops the exception, and the loop goes on; from gnn_lite it
\* ends the task.
Load(s) ==
    /\ refresh.pc = (IF s = "graph_features" THEN "asleep" ELSE "loading")
    /\ refresh.load < MaxLoads
    /\ \/ refresh' = Swapping(s, refresh.load + 1, 1, FALSE)
       \/ /\ csv = "torn"
          /\ refresh' = [pc |-> IF s = "graph_features" THEN "loading" ELSE "dead",
                         load |-> refresh.load]
    /\ UNCHANGED <<csv, ingests, tables, looked_up>>

Done(s) == [pc |-> IF s = "graph_features" THEN "loading" ELSE "asleep", load |-> refresh.load]

\* The lock of graph_features: a reader has it from its first table to its last.
Reading == {w \in Scorer : looked_up[w].pc = "graph_features" /\ looked_up[w].graph_features # <<>>}

\* Mutant: the lock is not taken.
Granted_Always(s) == TRUE

Granted(s) == s = "gnn_lite" \/ Reading = {}

\* One table cleared, or filled; the lock is held from the first to the last.
Swap ==
    /\ refresh.pc = "swapping" /\ Granted(refresh.store)
    /\ LET s == refresh.store
           t == refresh.table
       IN  /\ tables' = [tables EXCEPT ![s][t] = IF refresh.cleared THEN refresh.load ELSE 0]
           /\ refresh' = IF ~refresh.cleared THEN Swapping(s, refresh.load, t, TRUE)
                         ELSE IF t + 1 \in Tables[s]
                         THEN Swapping(s, refresh.load, t + 1, FALSE)
                         ELSE Done(s)
    /\ UNCHANGED <<csv, ingests, looked_up>>

Locked(s) ==
    /\ refresh.pc = "swapping" /\ refresh.store = s
    /\ refresh.table > 1 \/ refresh.cleared

-----------------------------------------------------------------------------
(* build_event: Tier 2 for a borderline score, then the graph context.     *)

Invoke(w, borderline) ==
    /\ looked_up[w].pc = "idle"
    /\ looked_up' = [looked_up EXCEPT ![w] = [Idle EXCEPT !.pc = IF borderline THEN "gnn_lite"
                                                                 ELSE "graph_features"]]
    /\ UNCHANGED <<csv, ingests, refresh, tables>>

\* What a lookup has seen after one more table.
Seen(seen, s) == Append(seen, tables[s][Len(seen) + 1])

After(seen, s, next) == IF Len(seen) + 1 \in 1 .. Len(tables[s]) - 1 THEN s ELSE next

\* gnn_lite.score reads without the lock.
ReadTier2(w) ==
    LET seen == looked_up[w].gnn_lite
    IN  /\ looked_up[w].pc = "gnn_lite"
        /\ looked_up' = [looked_up EXCEPT ![w] =
                            [pc |-> After(seen, "gnn_lite", "graph_features"),
                             gnn_lite |-> Seen(seen, "gnn_lite"),
                             graph_features |-> looked_up[w].graph_features]]
        /\ UNCHANGED <<csv, ingests, refresh, tables>>

\* get_features, under the lock.
ReadContext(w) ==
    LET seen == looked_up[w].graph_features
    IN  /\ looked_up[w].pc = "graph_features"
        /\ ~Locked("graph_features") /\ Reading \subseteq {w}
        /\ looked_up' = [looked_up EXCEPT ![w] =
                            [pc |-> After(seen, "graph_features", "scored"),
                             gnn_lite |-> looked_up[w].gnn_lite,
                             graph_features |-> Seen(seen, "graph_features")]]
        /\ UNCHANGED <<csv, ingests, refresh, tables>>

Respond(w) ==
    /\ looked_up[w].pc = "scored"
    /\ looked_up' = [looked_up EXCEPT ![w] = Idle]
    /\ UNCHANGED <<csv, ingests, refresh, tables>>

GraphNext ==
    \/ Truncate \/ Rewrite \/ Swap
    \/ \E s \in Store : Load(s)
    \/ \E w \in Scorer :
         \/ \E borderline \in BOOLEAN : Invoke(w, borderline)
         \/ ReadTier2(w) \/ ReadContext(w) \/ Respond(w)

GraphSpec == GraphInit /\ [][GraphNext]_graphVars

-----------------------------------------------------------------------------

OneLoad(seen) == \A t, u \in DOMAIN seen : seen[t] = seen[u] /\ seen[t] # 0

\* The graph context of an event comes from one load of the file, never from
\* tables half way through a refresh.
ContextFromOneSnapshot == \A w \in Scorer : OneLoad(looked_up[w].graph_features)

\* "Thread-safe atomic swap: reads are never blocked by a running init": what
\* Tier 2 reads while init swaps.
Tier2FromOneSnapshot == \A w \in Scorer : OneLoad(looked_up[w].gnn_lite)

\* "Refresh graph features every hour so the ring-detection context stays
\* current": the task outlives every refresh.
RefreshOutlivesIngest == refresh.pc # "dead"
=============================================================================
