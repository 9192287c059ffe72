---------------------------- MODULE DriftMonitor ----------------------------
(***************************************************************************)
(* drift_monitor.py: rolling buffers of scores and of five features, split *)
(* in half every CheckEvery samples and compared by their population       *)
(* stability index; the worst index that could be computed is the state.   *)
(*                                                                         *)
(* The index of a full enough buffer is any of the three bands: what the   *)
(* samples say is data.  Whether it can be computed is a matter of how     *)
(* many samples the buffer holds, and that is counted.                     *)
(***************************************************************************)
EXTENDS Integers, Sequences, FiniteSets

CONSTANTS
    Feature,        \* TRACKED_FEATURES
    BufferSize,     \* BUFFER_SIZE
    CheckEvery,     \* CHECK_EVERY
    MinPerSide,     \* MIN_PER_SIDE
    KeptEvents,     \* transitions kept in _drift_events
    ShownEvents,    \* transitions shown in _status
    MaxSamples      \* bound on the samples recorded

ASSUME DriftAssumption ==
    /\ Feature # {}
    /\ {BufferSize, CheckEvery, MinPerSide, KeptEvents, ShownEvents, MaxSamples} \subseteq Nat \ {0}
    /\ 2 * MinPerSide <= BufferSize
    /\ ShownEvents <= KeptEvents

VARIABLES
    held,           \* samples in each buffer, "score" included
    monitor,        \* state, samples, since the last check
    drift_events,   \* the transitions kept: [from_state, state]
    shown,          \* the transitions /drift/status answers with
    raised          \* the last record raised

driftVars == <<held, monitor, drift_events, shown, raised>>

WarmupMin == 2 * MinPerSide
Bands == <<"stable", "warning", "drift">>

Fresh == [state |-> "warming_up", samples |-> 0, since |-> 0]

DriftInit ==
    /\ held = [b \in Feature \cup {"score"} |-> 0]
    /\ monitor = Fresh
    /\ drift_events = <<>>
    /\ shown = <<>>
    /\ raised = FALSE

\* What _compute_psi may return for a buffer of n samples: a band (1 to 3), or
\* None (0) when a half is under the floor.
PossiblePsi(n) == IF n \div 2 < MinPerSide THEN {0} ELSE 1 .. 3

\* None does not vote.
Classify(psi) ==
    LET worst == CHOOSE b \in {psi[x] : x \in DOMAIN psi} :
                    \A x \in DOMAIN psi : psi[x] <= b
    IN  IF worst = 0 THEN "warming_up" ELSE Bands[worst]

\* max(feat_psi, key=feat_psi.get) compares the indices of the features, and
\* None compares with nothing.
CannotName(psi) == Cardinality(Feature) > 1 /\ \E f \in Feature : psi[f] = 0

Latest(s, n) == IF Len(s) <= n THEN s ELSE SubSeq(s, Len(s) - n + 1, Len(s))

\* Mutant: the condition the comment in _check says it used to have.
Recorded_LeavingStable(from, to) ==
    IF from = "stable" /\ to \in {"warning", "drift"}
    THEN Latest(Append(drift_events, [from_state |-> from, state |-> to]), KeptEvents)
    ELSE drift_events

Recorded(from, to) ==
    IF from # to
    THEN Latest(Append(drift_events, [from_state |-> from, state |-> to]), KeptEvents)
    ELSE drift_events

\* record appends and counts before it checks, so when the check raises the
\* samples stay, the counter is not reset and the next record checks again.
Record(features) ==
    /\ monitor.samples < MaxSamples
    /\ held' = [b \in DOMAIN held |->
                  IF (b = "score" \/ b \in features) /\ held[b] < BufferSize
                  THEN held[b] + 1 ELSE held[b]]
    /\ LET counted == [monitor EXCEPT !.samples = @ + 1, !.since = @ + 1]
       IN  IF counted.samples < WarmupMin \/ counted.since < CheckEvery
           THEN /\ monitor' = counted
                /\ raised' = FALSE
                /\ UNCHANGED <<drift_events, shown>>
           ELSE \E psi \in [DOMAIN held -> 0 .. 3] :
                  /\ \A b \in DOMAIN held : psi[b] \in PossiblePsi(held'[b])
                  /\ LET new == Classify(psi)
                     IN  IF new # monitor.state /\ CannotName(psi)
                         THEN /\ monitor' = counted
                              /\ raised' = TRUE
                              /\ UNCHANGED <<drift_events, shown>>
                         ELSE /\ monitor' = [counted EXCEPT !.state = new, !.since = 0]
                              /\ drift_events' = Recorded(monitor.state, new)
                              /\ shown' = Latest(drift_events', ShownEvents)
                              /\ raised' = FALSE

ResetMonitor ==
    /\ held' = [b \in DOMAIN held |-> 0]
    /\ monitor' = Fresh
    /\ drift_events' = <<>>
    /\ shown' = <<>>
    /\ raised' = FALSE

DriftNext ==
    \/ \E features \in SUBSET Feature : Record(features)
    \/ ResetMonitor

DriftSpec == DriftInit /\ [][DriftNext]_driftVars

-----------------------------------------------------------------------------

\* The history reads as complete because it is: each transition starts where
\* the one before ended, the last one ends in the state reported, and a monitor
\* that left its warm-up has an entry ("A history that is silently partial is
\* worse than no history").
HistoryUnbroken ==
    /\ \A i \in 1 .. Len(drift_events) - 1 : drift_events[i + 1].from_state = drift_events[i].state
    /\ IF drift_events = <<>> THEN monitor.state = "warming_up"
       ELSE drift_events[Len(drift_events)].state = monitor.state
    /\ \A i \in DOMAIN shown :
          shown[Len(shown) + 1 - i] = drift_events[Len(drift_events) + 1 - i]

\* Scoring a payment never fails on a feature whose buffer is still short:
\* "_compute_psi returns None for the ones that are still short, and _classify
\* does not let them vote".
ShortFeaturesAreHarmless == ~raised
=============================================================================
