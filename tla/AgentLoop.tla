----------------------------- MODULE AgentLoop ------------------------------
(***************************************************************************)
(* The autonomous agent: the coroutine run_agent of agent.py, the handlers *)
(* of main.py that start, stop and configure it and resolve its cases, and *)
(* the learning tasks that cut its backlog of novel attacks and start a    *)
(* rule factory pipeline, whose book operations are those of RuleBook.     *)
(*                                                                         *)
(* Coroutines share one event loop: between two awaits only threads run,   *)
(* which are stop, PUT /agent/config, deploy, retire and the pipelines.    *)
(* A tick therefore has two halves, the decision and the filing, and each  *)
(* reads the configuration a PUT empties before it fills it.               *)
(***************************************************************************)
EXTENDS RuleBook, AgentPolicy

CONSTANTS
    Loop,           \* run_agent tasks
    Putter,         \* threads inside PUT /agent/config
    Body,           \* partial configurations an analyst may send
    Tx,             \* scored payments
    MaxCases,       \* case_queue's maxlen
    MaxTicks        \* bound on decided payments

\* int() of what was sent for the buffer's size.
ASSUME AgentAssumption ==
    \A body \in Body : BufferSizeKey \in DOMAIN body => body[BufferSizeKey] \in Int

VARIABLES
    running,        \* agent_state.running
    stage,          \* per task: none, queued, ready, asleep, or the decision it is filing
    config,         \* agent_config; empty between clear() and update()
    saved_config,   \* agent_config.json
    put,            \* per thread: idle, or how far its PUT has come
    novel,          \* length of novel_attack_buffer
    tasks,          \* learning tasks the event loop has not run yet
    pipelines,      \* per thread: free, or inside run_pipeline
    learned,        \* agent_state.patterns_learned
    case_queue,     \* statuses, newest first
    counted,        \* blocked, flagged and allowed counts
    api_key,        \* whether the environment has a key for the language model
    owed            \* history: the ticks that flagged and put no case in the queue yet

agentVars == <<running, stage, config, saved_config, put, novel, tasks, pipelines, learned,
               case_queue, counted, api_key, owed>>

\* What only the ticks change.
tickVars == <<case_queue, counted, owed>>

Live(l) == stage[l].pc # "none"
At(pc) == [pc |-> pc]
EventLoopFree == \A l \in Loop : stage[l].pc \notin {"ready", "filing"}

Emptied == <<>>
SizeNow == IF BufferSizeKey \in DOMAIN config THEN config[BufferSizeKey] ELSE 10

Ticks == counted["block"] + counted["flag"] + counted["allow"]

\* The import of the modules, over the file an earlier process saved, if any:
\* load_config merges it with the defaults.
AgentInit ==
    /\ BookInit
    /\ running = FALSE
    /\ stage = [l \in Loop |-> At("none")]
    /\ saved_config \in {Emptied} \cup {validate_config(body) : body \in Body}
    /\ config = validate_config(saved_config)
    /\ put = [p \in Putter |-> At("idle")]
    /\ novel = 0 /\ tasks = 0 /\ learned = 0
    /\ pipelines = [w \in Thread |-> "free"]
    /\ case_queue = <<>>
    /\ counted = [a \in {"block", "flag", "allow"} |-> 0]
    /\ api_key \in BOOLEAN
    /\ owed = {}

-----------------------------------------------------------------------------
(* The handlers.                                                           *)

\* start_agent creates the task; only the task sets running.
Start ==
    /\ EventLoopFree /\ ~running
    /\ \E l \in Loop : ~Live(l) /\ stage' = [stage EXCEPT ![l] = At("queued")]
    /\ UNCHANGED <<bookVars, running, config, saved_config, put, novel, tasks, pipelines, learned,
                   api_key, tickVars>>

Stop ==
    /\ running' = FALSE
    /\ UNCHANGED <<bookVars, stage, config, saved_config, put, novel, tasks, pipelines, learned,
                   api_key, tickVars>>

ClearConfig(p) ==
    /\ put[p].pc = "idle"
    /\ \E body \in Body : put' = [put EXCEPT ![p] = [pc |-> "cleared", config |-> validate_config(body)]]
    /\ config' = Emptied
    /\ UNCHANGED <<bookVars, running, stage, saved_config, novel, tasks, pipelines, learned,
                   api_key, tickVars>>

UpdateConfig(p) ==
    /\ put[p].pc = "cleared"
    /\ config' = put[p].config
    /\ put' = [put EXCEPT ![p].pc = "updated"]
    /\ UNCHANGED <<bookVars, running, stage, saved_config, novel, tasks, pipelines, learned,
                   api_key, tickVars>>

SaveConfig(p) ==
    /\ put[p].pc = "updated"
    /\ saved_config' = put[p].config
    /\ put' = [put EXCEPT ![p] = At("idle")]
    /\ UNCHANGED <<bookVars, running, stage, config, novel, tasks, pipelines, learned,
                   api_key, tickVars>>

\* A case can be resolved, and resolved again, as long as it is in the queue.
Resolve ==
    /\ EventLoopFree
    /\ \E i \in DOMAIN case_queue, status \in {"approved", "declined"} :
            case_queue' = [case_queue EXCEPT ![i] = status]
    /\ UNCHANGED <<bookVars, running, stage, config, saved_config, put, novel, tasks, pipelines,
                   learned, counted, api_key, owed>>

-----------------------------------------------------------------------------
(* run_agent.                                                              *)

\* A fresh task sets running, even if the agent was stopped before it ran.
Begin(l) ==
    /\ EventLoopFree /\ stage[l].pc = "queued"
    /\ running' = TRUE
    /\ stage' = [stage EXCEPT ![l] = At("ready")]
    /\ UNCHANGED <<bookVars, config, saved_config, put, novel, tasks, pipelines, learned,
                   api_key, tickVars>>

\* The task ends before its loop: there is no data, or sampling it fails.
Abort(l) ==
    /\ EventLoopFree /\ stage[l].pc = "queued"
    /\ running' = FALSE
    /\ stage' = [stage EXCEPT ![l] = At("none")]
    /\ UNCHANGED <<bookVars, config, saved_config, put, novel, tasks, pipelines, learned,
                   api_key, tickVars>>

Awake(l) == stage[l].pc = "ready" \/ (stage[l].pc = "asleep" /\ EventLoopFree)

\* Mutant: the flag is read once, before the loop.
Leave_OnlyFresh(l) ==
    /\ stage[l].pc = "ready" /\ ~running
    /\ stage' = [stage EXCEPT ![l] = At("none")]
    /\ UNCHANGED <<bookVars, running, config, saved_config, put, novel, tasks, pipelines, learned,
                   api_key, tickVars>>

Leave(l) ==
    /\ Awake(l) /\ ~running
    /\ stage' = [stage EXCEPT ![l] = At("none")]
    /\ UNCHANGED <<bookVars, running, config, saved_config, put, novel, tasks, pipelines, learned,
                   api_key, tickVars>>

\* The first half of a tick.  An emptied configuration raises a KeyError: the
\* payment is dropped and the coroutine sleeps.
Tick(l, tx) ==
    LET sig == detect_ai_signature(tx)
        made == autonomous_decision(classify_threat(tx, sig), tx, sig, config)
    IN  /\ Awake(l) /\ running /\ Ticks < MaxTicks
        /\ \/ /\ config = Emptied
              /\ stage' = [stage EXCEPT ![l] = At("asleep")]
              /\ UNCHANGED <<counted, owed>>
           \/ /\ config # Emptied
              /\ stage' = [stage EXCEPT ![l] =
                    [pc |-> "filing", made |-> made, novel |-> is_novel(tx), tick |-> Ticks + 1]]
              /\ counted' = [counted EXCEPT ![made.action] = @ + 1]
              /\ owed' = IF made.action = "flag" THEN owed \cup {Ticks + 1} ELSE owed
        /\ UNCHANGED <<bookVars, running, config, saved_config, put, novel, tasks, pipelines,
                       learned, api_key, case_queue>>

\* Mutant: the toggle is looked up before the action is.
Raises_First(made) == made.action # "allow" /\ config = Emptied

\* _should_create_case reads the toggles only for a block.
Raises(made) == made.action = "block" /\ config = Emptied

_should_create_case(made) ==
    \/ made.action = "flag"
    \/ made.action = "block" /\ config[<<"toggles", "human_review_required">>]
    \/ made.action = "block" /\ made.escalate

\* The newest MaxCases are kept.
Queued(q) == IF Len(q) < MaxCases THEN <<"pending">> \o q
             ELSE <<"pending">> \o SubSeq(q, 1, MaxCases - 1)

\* Mutant: one task for each full buffer, not for each event that finds it full.
TasksAfter_Exactly(n) == IF n = SizeNow THEN tasks + 1 ELSE tasks

TasksAfter(n) == IF n >= SizeNow THEN tasks + 1 ELSE tasks

\* The second half.  What raises is swallowed, and the rest of the tick with it.
File(l) ==
    /\ stage[l].pc = "filing"
    /\ LET made == stage[l].made
       IN  IF Raises(made)
           THEN UNCHANGED <<case_queue, owed, novel, tasks>>
           ELSE /\ IF _should_create_case(made)
                   THEN /\ case_queue' = Queued(case_queue)
                        /\ owed' = owed \ {stage[l].tick}
                   ELSE UNCHANGED <<case_queue, owed>>
                /\ IF stage[l].novel
                   THEN novel' = novel + 1 /\ tasks' = TasksAfter(novel + 1)
                   ELSE UNCHANGED <<novel, tasks>>
    /\ stage' = [stage EXCEPT ![l] = At("asleep")]
    /\ UNCHANGED <<bookVars, running, config, saved_config, put, pipelines, learned, api_key,
                   counted>>

-----------------------------------------------------------------------------
(* Self-learning.                                                          *)

\* trigger_learning up to its await.  Switched off, without a key for the
\* language model or with the configuration emptied, the task ends and the
\* buffer stays.
GivesUp == config = Emptied \/ ~config[<<"toggles", "self_learning">>] \/ ~api_key

\* What is cut off the buffer is kept nowhere: the pipeline is given the static
\* patterns, never the cut.
Learn ==
    /\ EventLoopFree /\ tasks > 0
    /\ tasks' = tasks - 1
    /\ IF GivesUp
       THEN UNCHANGED <<novel, pipelines>>
       ELSE /\ novel' = IF novel > SizeNow THEN novel - SizeNow ELSE 0
            /\ \E w \in Thread : /\ pipelines[w] = "free" /\ edit[w] = NoEdit
                                 /\ pipelines' = [pipelines EXCEPT ![w] = "running"]
    /\ UNCHANGED <<bookVars, running, stage, config, saved_config, put, learned, api_key,
                   tickVars>>

\* run_pipeline saves the candidates its backtest does not reject.
PipelineSaves(w) ==
    /\ pipelines[w] = "running"
    /\ \E r \in Rule, status \in {"deployed", "shadow"} : ReadBook(w, status, r)
    /\ UNCHANGED agentVars

\* A pipeline that answers is a pattern learned, also one that answers
\* {"error": ...} or that found no gaps; one that raises is not.
PipelineEnds(w, answered) ==
    /\ pipelines[w] = "running" /\ edit[w] = NoEdit
    /\ pipelines' = [pipelines EXCEPT ![w] = "free"]
    /\ learned' = IF answered THEN learned + 1 ELSE learned
    /\ UNCHANGED <<bookVars, running, stage, config, saved_config, put, novel, tasks,
                   api_key, tickVars>>

\* POST /rule-factory/deploy and /retire, in a thread of their own.
Moderate(w) ==
    /\ pipelines[w] = "free"
    /\ \E r \in Rule : ReadBook(w, "deploy", r) \/ ReadBook(w, "retire", r)
    /\ UNCHANGED agentVars

Write(w) == (OpenBook(w) \/ WriteBook(w)) /\ UNCHANGED agentVars

RestartAgent ==
    /\ ReloadRules
    /\ running' = FALSE
    /\ stage' = [l \in Loop |-> At("none")]
    /\ config' = validate_config(saved_config)
    /\ put' = [p \in Putter |-> At("idle")]
    /\ novel' = 0 /\ tasks' = 0 /\ learned' = 0
    /\ pipelines' = [w \in Thread |-> "free"]
    /\ case_queue' = <<>>
    /\ counted' = [a \in DOMAIN counted |-> 0]
    /\ owed' = {}
    /\ api_key' \in BOOLEAN
    /\ UNCHANGED saved_config

AgentNext ==
    \/ Start \/ Stop \/ Resolve \/ Learn \/ RestartAgent
    \/ \E p \in Putter : ClearConfig(p) \/ UpdateConfig(p) \/ SaveConfig(p)
    \/ \E l \in Loop : Begin(l) \/ Abort(l) \/ Leave(l) \/ File(l) \/ (\E tx \in Tx : Tick(l, tx))
    \/ \E w \in Thread :
         \/ PipelineSaves(w) \/ Moderate(w) \/ Write(w)
         \/ \E answered \in BOOLEAN : PipelineEnds(w, answered)

\* The event loop comes back to every runnable coroutine and every PUT thread
\* finishes; nobody has to start, stop or configure anything.
AgentSpec ==
    /\ AgentInit /\ [][AgentNext]_<<bookVars, agentVars>>
    /\ \A l \in Loop : WF_<<bookVars, agentVars>>(Leave(l)) /\ WF_<<bookVars, agentVars>>(File(l))

-----------------------------------------------------------------------------

\* A payment that was flagged gets its case, unless the process ends first:
\* what a PUT of the configuration does between the decision and the filing
\* cannot make a flag that is filed go without.
FlaggedGetsACase ==
    \A n \in owed : \E l \in Loop : stage[l].pc = "filing" /\ stage[l].tick = n

\* The buffer of novel attacks holds no more than one buffer's worth and one
\* for each task that will cut it, unless a PUT changes the size or a task
\* gives up: no tick takes it past that.
Overfull == novel >= SizeNow + tasks
BacklogIsCut ==
    [][Overfull' => \/ Overfull
                    \/ SizeNow' # SizeNow
                    \/ Learn /\ GivesUp]_<<bookVars, agentVars>>

\* A stopped agent's loops end, unless it is started again.
StopDrains ==
    \A l \in Loop : (~running /\ Live(l) /\ stage[l].pc # "queued") ~> (running \/ ~Live(l))

\* "Start the autonomous agent if not already running. Idempotent."
AtMostOneLoop == Cardinality({l \in Loop : Live(l)}) <= 1
=============================================================================
