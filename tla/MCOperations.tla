----------------------------- MODULE MCOperations ----------------------------
(* The components around the decision path that share no state with each    *)
(* other: a behaviour exercises one of them, chosen at the start, and the   *)
(* rest stay as they were initialised.                                      *)
EXTENDS RateLimiter, ModelRegistry, DriftMonitor, StoreTxn, RuleBook, GraphTables,
        ScoreLadder, DisputeDesk, NetworkIQ, ActorRead, TableConnector,
        InvestigationEnv, CardHistory, TLC

CONSTANTS
    h1, h2, h3, heavy,              \* callers, and a heavy route
    f1, f2,                         \* tracked features
    scorer, gate, rival, b1, b2,    \* two served models, a challenger, two builds
    w1, w2, l1, l2, l3,             \* writing threads and labels
    t1, t2, r1, r2,                 \* rule book threads and rules
    a1,                             \* a scoring thread
    s1, d1,                         \* a payment's subject, a device it names
    p1, q1, q2,                     \* a dispute, two clerks
    neobank, exchange, y1, y2,      \* institutions and payees
    v1,                             \* a session under way
    tbl1, pl1, pl2, conn1,          \* a source table, two pollers, their connector
    g1, c1, c2, k1, pan1, pan2, n1, n2, n3, salt1   \* a handler, cards and references

VARIABLE desk

\* The global limiter earns a token a tick; the heavy route one in two ticks.
MCRate == [l \in Limiter |-> IF l = "global" THEN 2 ELSE 1]
MCPeriod == [l \in Limiter |-> IF l = "global" THEN 1 ELSE 2]

MCPurpose == (scorer :> "risk") @@ (gate :> "novelty") @@ (rival :> "risk")

\* Two whole fingerprints that differ in two anchors, one of them with a tell,
\* and a browser that withholds what identifies it.
MCReport ==
    LET same == [cpu_cores |-> "x", screen_w |-> "x", audio_dsp_hash |-> "x"]
    IN  {[components |-> same @@ [gpu_renderer |-> "x", screen_h |-> "x"],
          tells |-> {}],
         [components |-> same @@ [gpu_renderer |-> "y", screen_h |-> "y"],
          tells |-> {"bot"}],
         [components |-> [gpu_renderer |-> "absent", audio_dsp_hash |-> "malformed",
                          cpu_cores |-> "x", screen_w |-> "x", canvas_hash |-> "x",
                          font_hash |-> "x"],
          tells |-> {}]}
MCSuspectDevice ==
    {d1, device_id((CHOOSE r \in MCReport : r.tells # {}).components)}
MCRow ==
    {[subject |-> s1, rail |-> rail, card_key |-> TRUE, device |-> d, recipient |-> TRUE,
      is_fraud |-> FALSE] : rail \in {"card", "ach"}, d \in {d1, NoDevice}}

\* The noise one seed gives two of the institutions.
MCNoise == (neobank :> [tx |-> 4837, fraud |-> 1373]) @@ (exchange :> [tx |-> -4387, fraud |-> -204])
\* What OthersFraudNeverHelps is proved from, of that noise.
ASSUME NoiseIsMild == MildNoise

MCLedgerCounts ==
    {[i \in INSTITUTIONS |-> IF i = neobank THEN [tx |-> 40, fraud |-> 0]
                             ELSE [tx |-> 35, fraud |-> 24]],
     [i \in INSTITUTIONS |-> [tx |-> 23, fraud |-> 2]]}
MCAmount == {[over_norm |-> 0, weight |-> 1000], [over_norm |-> 1000, weight |-> 0]}

\* Up to three signs at once, at full strength or the levels at half.
MCSigns ==
    {"call_active", "remote_access", "dictation", "duress", "automation", "tooling", "fast",
     "hesitation", "online_only", "crypto_payee", "fee_to_release"}
MCRaw ==
    UNION {{[f \in RawField |-> IF f \notin on THEN 0
                                ELSE IF f \in Level /\ mild THEN 500 ELSE 1000] :
            mild \in BOOLEAN} : on \in {x \in SUBSET MCSigns : Cardinality(x) \in 1..3}}

MCPollRequest ==
    {[table |-> tbl1, connector |-> conn1, mapped |-> whole] : whole \in BOOLEAN}

\* Rows whose verification all passed or all failed.
MCDataRow ==
    {[fraud |-> f, card |-> c, avs |-> IF ok THEN "match" ELSE "no_match",
      cvv |-> IF ok THEN "match" ELSE "not_provided", authenticated |-> ok,
      ring |-> r, playbook |-> p, points |-> n, disputed |-> d, prior |-> FALSE,
      score |-> s] :
        f \in BOOLEAN, c \in BOOLEAN, ok \in BOOLEAN, r \in BOOLEAN, p \in BOOLEAN,
        n \in {0, 2}, d \in BOOLEAN, s \in {20, 55}}
MCPanel ==
    {<<"investigator", "trigger_happy", "cautious", "llm_agent">>,
     <<"investigator", "trigger_happy", "cautious">>}

\* One card by PAN, by token and by both, another by PAN, one by nothing.
MCMessage(arn, card, token, pan, amount) ==
    [arn |-> arn, card |-> card, token |-> token, pan |-> pan, card_key |-> NoKey,
     amount |-> amount]
MCCardMessage ==
    {MCMessage(n1, c1, NoToken, pan1, "ok"), MCMessage(n2, c1, k1, pan1, "ok"),
     MCMessage(NoRef, c1, k1, NoPan, "missing"), MCMessage(n3, c2, NoToken, pan2, "ok"),
     MCMessage(n3, c2, NoToken, NoPan, "ok")}

operationsVars ==
    <<desk, limiterVars, registryVars, driftVars, txnVars, bookVars, graphVars,
      ladderVars, disputeVars, networkVars, actorVars, tableVars, benchVars,
      cardVars>>

OperationsInit ==
    /\ LimiterInit /\ RegistryInit /\ DriftInit /\ TxnInit /\ BookInit
    /\ GraphInit /\ LadderInit /\ DisputeInit /\ NetworkInit /\ ActorInit
    /\ TableInit /\ BenchInit /\ CardInit
    /\ desk \in {"limiter", "registry", "drift", "txn", "book", "graph", "ladder", "dispute",
                 "network", "actor", "table", "bench", "card"}
    /\ desk # "registry" => artifact = [m \in Served |-> b1]
    /\ desk # "ladder" => layers = {}
    /\ desk # "network" => edges[y1] = [i \in INSTITUTIONS |-> [tx |-> 23, fraud |-> 2]]
    /\ desk # "card" => salt = NoSalt

OperationsNext ==
    /\ UNCHANGED desk
    /\ \/ /\ desk = "limiter" /\ LimiterNext
          /\ UNCHANGED <<registryVars, driftVars, txnVars, bookVars, graphVars,
                      ladderVars, disputeVars, networkVars, actorVars,
                      tableVars, benchVars, cardVars>>
       \/ /\ desk = "registry" /\ RegistryNext
          /\ UNCHANGED <<limiterVars, driftVars, txnVars, bookVars, graphVars,
                      ladderVars, disputeVars, networkVars, actorVars,
                      tableVars, benchVars, cardVars>>
       \/ /\ desk = "drift" /\ DriftNext
          /\ UNCHANGED <<limiterVars, registryVars, txnVars, bookVars, graphVars,
                      ladderVars, disputeVars, networkVars, actorVars,
                      tableVars, benchVars, cardVars>>
       \/ /\ desk = "txn" /\ TxnNext
          /\ UNCHANGED <<limiterVars, registryVars, driftVars, bookVars, graphVars,
                      ladderVars, disputeVars, networkVars, actorVars,
                      tableVars, benchVars, cardVars>>
       \/ /\ desk = "book" /\ BookNext
          /\ UNCHANGED <<limiterVars, registryVars, driftVars, txnVars, graphVars,
                      ladderVars, disputeVars, networkVars, actorVars,
                      tableVars, benchVars, cardVars>>
       \/ /\ desk = "graph" /\ GraphNext
          /\ UNCHANGED <<limiterVars, registryVars, driftVars, txnVars, bookVars,
                      ladderVars, disputeVars, networkVars, actorVars,
                      tableVars, benchVars, cardVars>>
       \/ /\ desk = "ladder" /\ LadderNext
          /\ UNCHANGED <<limiterVars, registryVars, driftVars, txnVars, bookVars,
                      graphVars, disputeVars, networkVars, actorVars,
                      tableVars, benchVars, cardVars>>
       \/ /\ desk = "dispute" /\ DisputeNext
          /\ UNCHANGED <<limiterVars, registryVars, driftVars, txnVars, bookVars,
                      graphVars, ladderVars, networkVars, actorVars,
                      tableVars, benchVars, cardVars>>
       \/ /\ desk = "network" /\ NetworkNext
          /\ UNCHANGED <<limiterVars, registryVars, driftVars, txnVars, bookVars,
                      graphVars, ladderVars, disputeVars, actorVars,
                      tableVars, benchVars, cardVars>>
       \/ /\ desk = "actor" /\ ActorNext
          /\ UNCHANGED <<limiterVars, registryVars, driftVars, txnVars, bookVars,
                      graphVars, ladderVars, disputeVars, networkVars,
                      tableVars, benchVars, cardVars>>
       \/ /\ desk = "table" /\ TableNext
          /\ UNCHANGED <<limiterVars, registryVars, driftVars, txnVars, bookVars,
                      graphVars, ladderVars, disputeVars, networkVars,
                      actorVars, benchVars, cardVars>>
       \/ /\ desk = "bench" /\ BenchNext
          /\ UNCHANGED <<limiterVars, registryVars, driftVars, txnVars, bookVars,
                      graphVars, ladderVars, disputeVars, networkVars,
                      actorVars, tableVars, cardVars>>
       \/ /\ desk = "card" /\ CardNext
          /\ UNCHANGED <<limiterVars, registryVars, driftVars, txnVars, bookVars,
                      graphVars, ladderVars, disputeVars, networkVars,
                      actorVars, tableVars, benchVars>>

OperationsSpec == OperationsInit /\ [][OperationsNext]_operationsVars
=============================================================================
