---------------------------- MODULE ModelRegistry ---------------------------
(***************************************************************************)
(* core/model_registry.py and the start-up of main.py that fills it.  Each *)
(* artifact is unpickled first and registered and loaded afterwards; the   *)
(* version is a hash of the FILE taken at that later moment.  Training     *)
(* replaces files whenever it finishes.  Scoring uses the unpickled        *)
(* objects themselves; only the stamp of a decision is the registry's.     *)
(***************************************************************************)
EXTENDS Integers, FiniteSets

CONSTANTS
    Served,         \* models main.py loads: "supervised_scorer", "novelty_gate", ...
    Required,       \* those without which nothing is scored: "supervised_scorer"
    Challenger,     \* models a team registers beside them
    Purpose,        \* Purpose[m]
    Build,          \* contents an artifact may have
    Fits            \* the builds fitted on the live feature set

ASSUME RegistryAssumption ==
    /\ Required \subseteq Served
    /\ Served \cap Challenger = {}
    /\ DOMAIN Purpose = Served \cup Challenger
    /\ Fits \subseteq Build /\ "no build" \notin Build
    /\ \A m, n \in Served : Purpose[m] = Purpose[n] => m = n

VARIABLES
    artifact,       \* per served model, the content of its file
    unpickled,      \* per served model, the build start-up has in memory
    specs,          \* Registry._specs
    stamped,        \* the last decision: what scored, and its model_version
    swapped         \* history: served models retrained between unpickling and hashing

registryVars == <<artifact, unpickled, specs, stamped, swapped>>

CHAMPION == "champion"
States == {CHAMPION, "challenger", "shadow", "retired"}
NoBuild == "no build"
Unregistered == [state |-> "unregistered", version |-> NoBuild]
Undecided == [scored |-> {}, model_version |-> {}]

Loaded(m) == specs[m].version # NoBuild

RegistryInit ==
    /\ artifact \in [Served -> Build]
    /\ unpickled = [m \in Served |-> NoBuild]
    /\ specs = [m \in Served \cup Challenger |-> Unregistered]
    /\ stamped = Undecided
    /\ swapped = {}

Unpickle(m) ==
    /\ unpickled[m] = NoBuild
    /\ unpickled' = [unpickled EXCEPT ![m] = artifact[m]]
    /\ UNCHANGED <<artifact, specs, stamped, swapped>>

contract_ok(b) == b \in Fits

\* Mutant: the contract is not checked.
artifact_version_Unfitted(m) ==
    IF unpickled[m] # NoBuild THEN artifact[m] ELSE NoBuild

artifact_version(m) ==
    IF contract_ok(unpickled[m]) THEN artifact[m] ELSE NoBuild

\* A refused model stays registered, as a champion, with no object and no version.
RegisterAndLoad(m) ==
    /\ unpickled[m] # NoBuild /\ specs[m] = Unregistered
    /\ specs' = [specs EXCEPT ![m] = [state |-> CHAMPION, version |-> artifact_version(m)]]
    /\ UNCHANGED <<artifact, unpickled, stamped, swapped>>

Retrain(m, b) ==
    /\ b # artifact[m]
    /\ artifact' = [artifact EXCEPT ![m] = b]
    /\ swapped' = IF unpickled[m] # NoBuild /\ specs[m] = Unregistered
                  THEN swapped \cup {m} ELSE swapped
    /\ UNCHANGED <<unpickled, specs, stamped>>

Started == \A m \in Served : specs[m] # Unregistered

Register(m, b) ==
    /\ Started
    /\ specs' = [specs EXCEPT ![m] = [state |-> "challenger",
                                      version |-> IF contract_ok(b) THEN b ELSE NoBuild]]
    /\ UNCHANGED <<artifact, unpickled, stamped, swapped>>

\* The champions a promotion retires.
Demoted(m) ==
    {n \in DOMAIN specs \ {m} : Purpose[n] = Purpose[m] /\ specs[n].state = CHAMPION}

Promote(m, to_state) ==
    /\ Started /\ specs[m] # Unregistered
    /\ specs' = [n \in DOMAIN specs |->
                    IF n = m THEN [specs[n] EXCEPT !.state = to_state]
                    ELSE IF to_state = CHAMPION /\ n \in Demoted(m)
                         THEN [specs[n] EXCEPT !.state = "retired"]
                         ELSE specs[n]]
    /\ UNCHANGED <<artifact, unpickled, stamped, swapped>>

decision_versions ==
    {<<m, specs[m].version>> : m \in {n \in DOMAIN specs :
        Loaded(n) /\ specs[n].state = CHAMPION}}

\* After start-up.  An object that does not fit is not consulted: the gate's
\* compatibility is checked again by main.py, and a required model handed the
\* wrong number of features raises before there is a decision.
Decide ==
    /\ Started
    /\ \A m \in Required : contract_ok(unpickled[m])
    /\ stamped' = [scored |-> {<<m, unpickled[m]>> :
                                  m \in {n \in Served : contract_ok(unpickled[n])}},
                   model_version |-> decision_versions]
    /\ UNCHANGED <<artifact, unpickled, specs, swapped>>

\* Roles live in memory: a retired champion of main.py is a champion again.
Restart ==
    /\ unpickled' = [m \in Served |-> NoBuild]
    /\ specs' = [m \in DOMAIN specs |-> Unregistered]
    /\ stamped' = Undecided
    /\ swapped' = {}
    /\ UNCHANGED artifact

RegistryNext ==
    \/ \E m \in Served : Unpickle(m) \/ RegisterAndLoad(m)
    \/ \E m \in Served, b \in Build : Retrain(m, b)
    \/ \E m \in Challenger, b \in Build : Register(m, b)
    \/ \E m \in Served \cup Challenger, s \in States : Promote(m, s)
    \/ Decide
    \/ Restart

RegistrySpec == RegistryInit /\ [][RegistryNext]_registryVars

-----------------------------------------------------------------------------

\* A served champion named in a decision's model_version is the very build that
\* scored it, and one that scored is named, unless training replaced its file
\* while start-up was between reading it and hashing it.  A retraining at any
\* later time never changes what a stamp means.
StampNamesTheScorer ==
    [][stamped' \notin {stamped, Undecided} =>
         \A m \in Served \ swapped :
            specs[m].state = CHAMPION =>
                \A b \in Build : <<m, b>> \in stamped'.model_version <=> <<m, b>> \in stamped'.scored
      ]_registryVars

\* "Hashing the bytes means the version cannot disagree with what is actually
\* loaded."
VersionIsWhatIsLoaded ==
    \A m \in Served : Loaded(m) => specs[m].version = unpickled[m]
=============================================================================
