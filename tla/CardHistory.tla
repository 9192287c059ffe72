----------------------------- MODULE CardHistory ----------------------------
(***************************************************************************)
(* core/card_identity.py, core/card_history.py, the identity side of       *)
(* core/ingest_schema.py, and the doors a card payment comes in by: which  *)
(* earlier authorizations the sequence gate is shown for it.               *)
(* The two hundred rows a window is cut to are beyond the bounds here.     *)
(***************************************************************************)
EXTENDS Integers, FiniteSets

CONSTANTS
    CardMessage,    \* messages: [arn, card, token, pan, card_key, amount]
    NoRef,          \* the message has no arn, rrn or transaction id
    NoToken, NoPan, NoKey,
    Salt, NoSalt,   \* REDWING_CARD_SALT
    Handler,        \* handler threads
    DayTicks,       \* the trailing window
    MaxTick,        \* bound on the clock
    MaxQueued       \* bound on the events waiting in the transport

ASSUME CardHistoryAssumption ==
    /\ {DayTicks, MaxTick, MaxQueued} \subseteq Nat
    /\ \A m \in CardMessage :
          /\ m = [arn |-> m.arn, card |-> m.card, token |-> m.token, pan |-> m.pan,
                  card_key |-> m.card_key, amount |-> m.amount]
          /\ m.amount \in {"ok", "missing", "invalid"}

\* The tokens a message carries, and what the hashes of its identity may be.
Tokens(m) == {v \in {m.token} : v # NoToken} \cup {v \in {m.card_key} : v # NoKey}

Digests(m) ==
    [prefix: {"tok_"}, salt: Salt \cup {NoSalt}, of: Tokens(m)]
        \cup [prefix: {"pan_"}, salt: Salt \cup {NoSalt}, of: {m.pan} \ {NoPan}]

\* A token, a PAN and an upstream's key each name one card.
ASSUME CardIdentityAssumption ==
    \A m, n \in CardMessage :
        \/ Tokens(m) \cap (Tokens(n) \cup Digests(n)) # {}
        \/ m.pan # NoPan /\ m.pan = n.pan
        => m.card = n.card

VARIABLES
    trail,          \* card decisions: [id, card, key, ts]; card is history only
    payment,        \* per thread, [door, msg, key, seen] of the payment in hand, or NoPayment
    waiting,        \* published events, [msg, event], the message as it was posted
    salt,           \* the salt this process was started with
    tick

cardVars == <<trail, payment, waiting, salt, tick>>

NoPayment == [door |-> "none"]

\* _hash: the salt and the prefix go into the digest with the value.
_hash(prefix, value) == [prefix |-> prefix, salt |-> salt, of |-> value]

\* Mutant: a card that nothing identifies falls back to a key of its own,
\* which every such card shares.
card_key_Fallback(msg) ==
    IF msg.token # NoToken THEN _hash("tok_", msg.token)
    ELSE IF msg.card_key # NoKey THEN _hash("tok_", msg.card_key)
    ELSE IF msg.pan # NoPan /\ salt # NoSalt THEN _hash("pan_", msg.pan)
    ELSE _hash("pan_", NoPan)

\* TOKEN_FIELDS come first and card_key is the last of them; a PAN is not
\* hashed without a salt.
card_key(msg) ==
    IF msg.token # NoToken THEN _hash("tok_", msg.token)
    ELSE IF msg.card_key # NoKey THEN _hash("tok_", msg.card_key)
    ELSE IF msg.pan # NoPan /\ salt # NoSalt THEN _hash("pan_", msg.pan)
    ELSE NoKey

\* What becomes of the identity at the ingestion boundary: the PAN is
\* dropped and the key computed from the message put in its place.
Stripped(msg) ==
    IF msg.pan = NoPan THEN msg
    ELSE [msg EXCEPT !.pan = NoPan,
                     !.card_key = IF card_key(msg) = NoKey THEN @ ELSE card_key(msg)]

validate_event(msg) == [valid |-> msg.amount = "ok", event |-> Stripped(msg)]

sequence_view(key) ==
    IF key = NoKey THEN {}
    ELSE {r \in trail : r.key = key /\ tick - DayTicks <= r.ts /\ r.ts < tick}

CardInit ==
    /\ trail = {}
    /\ payment = [d \in Handler |-> NoPayment]
    /\ waiting = {}
    /\ salt \in Salt \cup {NoSalt}
    /\ tick = 0

Take(d, door, msg, key, seen) ==
    /\ payment[d] = NoPayment
    /\ payment' = [payment EXCEPT ![d] = [door |-> door, msg |-> msg, key |-> key, seen |-> seen]]
    /\ UNCHANGED <<trail, salt, tick>>

\* The gate is shown the window of the card the message names.
Gate(d, door, msg, scored) ==
    Take(d, door, msg, card_key(scored), sequence_view(card_key(scored)))

\* A hard decline comes before the score, and is recorded as well.
AuthorizeCard(d, msg) ==
    /\ Gate(d, "authorize", msg, msg) \/ Take(d, "authorize", msg, card_key(msg), {})
    /\ UNCHANGED waiting

\* POST /score scores the body as it is, without validating it.
ScoreCard(d, msg) == Gate(d, "score", msg, msg) /\ UNCHANGED waiting

\* /ingest scores what it validated.
IngestCard(d, msg) ==
    /\ validate_event(msg).valid
    /\ Gate(d, "ingest", msg, validate_event(msg).event)
    /\ UNCHANGED waiting

\* /stream/publish and an authenticated webhook queue what they validated; the
\* queue is durable, and the dispatcher scores it whenever it comes to it.
PublishCard(msg) ==
    /\ validate_event(msg).valid
    /\ Cardinality(waiting) < MaxQueued
    /\ waiting' = waiting \cup {[msg |-> msg, event |-> validate_event(msg).event]}
    /\ UNCHANGED <<trail, payment, salt, tick>>

ConsumeCard(d) ==
    \E q \in waiting :
        /\ Gate(d, "ingest", q.msg, q.event)
        /\ waiting' = waiting \ {q}

\* An authorization with a reference replaces its row, keyed by a hash of the
\* reference; the other doors leave no card decision behind.
PersistAuthorization(d) ==
    /\ payment[d].door = "authorize"
    /\ LET m   == payment[d].msg
           row == [id |-> m.arn, card |-> m.card, key |-> card_key(m), ts |-> tick]
       IN  trail' = IF m.arn = NoRef THEN trail ELSE {r \in trail : r.id # m.arn} \cup {row}
    /\ payment' = [payment EXCEPT ![d] = NoPayment]
    /\ UNCHANGED <<waiting, salt, tick>>

\* The write raised, or the door writes no row.
Answered(d) ==
    /\ payment[d] # NoPayment
    /\ payment' = [payment EXCEPT ![d] = NoPayment]
    /\ UNCHANGED <<trail, waiting, salt, tick>>

NextTick ==
    /\ tick < MaxTick
    /\ tick' = tick + 1
    /\ UNCHANGED <<trail, payment, waiting, salt>>

\* A deployment may come up with another salt, or with none.
RestartSalt ==
    /\ salt' \in (Salt \cup {NoSalt}) \ {salt}
    /\ payment' = [d \in Handler |-> NoPayment]
    /\ UNCHANGED <<trail, waiting, tick>>

CardNext ==
    \/ \E d \in Handler, msg \in CardMessage :
          AuthorizeCard(d, msg) \/ ScoreCard(d, msg) \/ IngestCard(d, msg)
    \/ \E msg \in CardMessage : PublishCard(msg)
    \/ \E d \in Handler : ConsumeCard(d) \/ PersistAuthorization(d) \/ Answered(d)
    \/ NextTick \/ RestartSalt

CardSpec == CardInit /\ [][CardNext]_cardVars

-----------------------------------------------------------------------------
\* The window the gate reads holds authorizations of the payment's own card,
\* whichever door it came in by, whatever its message carried and through
\* changes of the salt: cards that nothing identifies share no history.
HistoryIsThisCards ==
    \A d \in Handler :
        payment[d] # NoPayment =>
            \A r \in payment[d].seen : r.card = payment[d].msg.card

\* "The IDENTITY is preserved while the PAN is destroyed ... so the sequence
\* gate still has something to join on" (ingest_schema.py:123): a payment is
\* looked up under the key /authorize files that card under.
SameHistoryAtBothDoors ==
    \A d \in Handler :
        payment[d].door = "ingest" => payment[d].key = card_key(payment[d].msg)

\* "The authorization being scored cannot be in its own history"
\* (card_history.py:11), also when the acquirer sends it again.
NotInItsOwnHistory ==
    \A d \in Handler :
        payment[d] # NoPayment => \A r \in payment[d].seen : r.id # payment[d].msg.arn
=============================================================================
