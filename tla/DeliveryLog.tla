---------------------------- MODULE DeliveryLog -----------------------------
(***************************************************************************)
(* What the streaming transport promises its producers: at-least-once      *)
(* delivery of every accepted message.  A message that was accepted is     *)
(* owed to the scorer; the debt ends when the message has been scored, or  *)
(* when the transport openly gives it up to the dead letters; only an      *)
(* operator's replay restores it.  No attempts, batches or consumer.       *)
(***************************************************************************)
CONSTANT Message    \* the seq numbers a message can get

VARIABLES
    accepted,       \* messages the transport took (their seq)
    owed,           \* of these, the ones still to be scored
    scored,         \* messages the scorer completed at least once
    dead            \* messages given up

Init == accepted = {} /\ owed = {} /\ scored = {} /\ dead = {}

Accept(m) ==
    /\ m \notin accepted
    /\ accepted' = accepted \cup {m}
    /\ owed' = owed \cup {m}
    /\ UNCHANGED <<scored, dead>>

Score(m) ==
    /\ m \in owed
    /\ scored' = scored \cup {m}
    /\ UNCHANGED <<accepted, owed, dead>>

Acknowledge(m) ==
    /\ m \in owed \cap scored
    /\ owed' = owed \ {m}
    /\ UNCHANGED <<accepted, scored, dead>>

GiveUp(m) ==
    /\ m \in owed
    /\ owed' = owed \ {m}
    /\ dead' = dead \cup {m}
    /\ UNCHANGED <<accepted, scored>>

Restore(ms) ==
    /\ ms \subseteq accepted \ owed
    /\ owed' = owed \cup ms
    /\ dead' = dead \ ms
    /\ UNCHANGED <<accepted, scored>>

Next ==
    \/ \E m \in Message : Accept(m) \/ Score(m) \/ Acknowledge(m) \/ GiveUp(m)
    \/ \E ms \in SUBSET accepted : Restore(ms)

Spec == Init /\ [][Next]_<<accepted, owed, scored, dead>>
=============================================================================
