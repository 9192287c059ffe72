----------------------------- MODULE RateLimiter ----------------------------
(***************************************************************************)
(* The token buckets of core/ratelimit.py and the middleware of main.py    *)
(* that charges them.  A bucket grants Rate tokens per window, refilled    *)
(* continuously, to one caller; a limiter keeps at most Capacity buckets   *)
(* and forgets one of the stalest when a new caller needs room.            *)
(*                                                                         *)
(* Time is counted in ticks.  A limiter earns one token in Period[l]       *)
(* ticks, and a bucket's credit is counted in ticks too: Period[l] of them *)
(* are one token.  allow runs on the event loop, so a request is a step.   *)
(***************************************************************************)
EXTENDS Integers, SequencesExt

CONSTANTS
    Limiter,        \* the limiters: "global", and one per heavy route
    Host,           \* peers, as the socket names them
    NoHeader,       \* a request without X-Forwarded-For
    TrustProxy,     \* REDWING_TRUST_PROXY
    Rate,           \* Rate[l]: tokens of a full bucket
    Period,         \* Period[l]: ticks in which one token is earned
    Capacity,       \* callers a limiter remembers
    EvictSample,    \* buckets considered when it must forget one
    EndOfTime       \* bound on the clock

ASSUME LimiterAssumption ==
    /\ "global" \in Limiter
    /\ TrustProxy \in BOOLEAN
    /\ Rate \in [Limiter -> Nat \ {0}]
    /\ Period \in [Limiter -> Nat \ {0}]
    /\ Capacity \in Nat \ {0}
    /\ EvictSample \in Nat \ {0}
    /\ EndOfTime \in Nat

VARIABLES
    buckets,        \* per limiter, the bucket of each remembered caller: [credit, last]
    order,          \* per limiter, the callers of its OrderedDict, stalest first
    ticks,          \* time.monotonic
    admitted        \* history, per limiter and remembered caller: when it was admitted

limiterVars == <<buckets, order, ticks, admitted>>

Caller == Host \cup {NoHeader}

Full(l) == Rate[l] * Period[l]

client_key(host, forwarded) ==
    IF TrustProxy /\ forwarded # NoHeader THEN forwarded ELSE host

Known(l) == DOMAIN buckets[l]

Sample(l) ==
    {order[l][i] : i \in 1 .. (IF Len(order[l]) < EvictSample THEN Len(order[l])
                                                             ELSE EvictSample)}

\* The stalest of the sampled callers with the most RECORDED credit: nothing is
\* refilled before the comparison.
Victim(l) ==
    order[l][CHOOSE i \in DOMAIN order[l] :
                /\ order[l][i] \in Sample(l)
                /\ \A k \in Sample(l) : buckets[l][k].credit <= buckets[l][order[l][i]].credit
                /\ \A j \in 1 .. i - 1 :
                        buckets[l][order[l][j]].credit < buckets[l][order[l][i]].credit]

Forgotten(l, k) ==
    IF k \notin Known(l) /\ Len(order[l]) >= Capacity THEN {Victim(l)} ELSE {}

\* Mutant: an idle caller banks credit.
CreditOf_NoCeiling(l, k) ==
    IF k \in Known(l) THEN buckets[l][k].credit + (ticks - buckets[l][k].last) ELSE Full(l)

CreditOf(l, k) ==
    IF k \notin Known(l)
    THEN Full(l)
    ELSE LET credit == buckets[l][k].credit + (ticks - buckets[l][k].last)
         IN  IF credit > Full(l) THEN Full(l) ELSE credit

allows(l, k) == CreditOf(l, k) >= Period[l]

Charged(l, k) ==
    [credit |-> IF allows(l, k) THEN CreditOf(l, k) - Period[l] ELSE CreditOf(l, k),
     last   |-> ticks]

BucketsAfter(l, k) ==
    [c \in (Known(l) \ Forgotten(l, k)) \cup {k} |->
        IF c = k THEN Charged(l, k) ELSE buckets[l][c]]

\* move_to_end, admitted or refused: "a refusal is still activity".
OrderAfter(l, k) ==
    Append(SelectSeq(order[l], LAMBDA c : c \notin Forgotten(l, k) \cup {k}), k)

\* An admission is remembered as long as the bucket it was charged to.
AdmittedAfter(l, k) ==
    [c \in Caller |->
        IF c = k
        THEN IF allows(l, k)
             THEN Append(IF k \in Known(l) THEN admitted[l][k] ELSE <<>>, ticks)
             ELSE IF k \in Known(l) THEN admitted[l][k] ELSE <<>>
        ELSE IF c \in Forgotten(l, k) THEN <<>> ELSE admitted[l][c]]

LimiterInit ==
    /\ buckets = [l \in Limiter |-> <<>>]
    /\ order = [l \in Limiter |-> <<>>]
    /\ ticks = 0
    /\ admitted = [l \in Limiter |-> [k \in Caller |-> <<>>]]

\* The limiters a request is charged to: its heavy route's first, and the
\* global one only if that let it pass.
ChargedTo(route, k) ==
    IF route = "global" THEN {"global"}
    ELSE {route} \cup (IF allows(route, k) THEN {"global"} ELSE {})

Request(k, route) ==
    LET charged == ChargedTo(route, k)
    IN  /\ buckets' = [l \in Limiter |-> IF l \in charged THEN BucketsAfter(l, k) ELSE buckets[l]]
        /\ order' = [l \in Limiter |-> IF l \in charged THEN OrderAfter(l, k) ELSE order[l]]
        /\ admitted' = [l \in Limiter |-> IF l \in charged THEN AdmittedAfter(l, k) ELSE admitted[l]]
        /\ UNCHANGED ticks

Tick ==
    /\ ticks < EndOfTime
    /\ ticks' = ticks + 1
    /\ UNCHANGED <<buckets, order, admitted>>

LimiterNext ==
    \/ \E k \in {client_key(host, forwarded) : host \in Host, forwarded \in Caller},
          route \in Limiter : Request(k, route)
    \/ Tick

LimiterSpec == LimiterInit /\ [][LimiterNext]_limiterVars

-----------------------------------------------------------------------------

\* Between any two admissions of a caller whose bucket was kept, the budget is
\* respected: no more requests than a full bucket plus what the time between
\* them earns, wherever the window is placed ("a caller cannot spend a full
\* budget at 11:59:59 and another at 12:00:00").
NoBurst ==
    \A l \in Limiter, k \in Caller :
        LET at == admitted[l][k]
        IN  \A i, j \in DOMAIN at :
                i <= j => (j - i + 1) * Period[l] <= Full(l) + (at[j] - at[i])
=============================================================================
