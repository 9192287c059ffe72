------------------------------ MODULE NetworkIQ -----------------------------
(***************************************************************************)
(* The cross-institution network view: core/consortium.py's noised rates,  *)
(* core/authorization_iq.py's insight pack, and the two indexes main.py    *)
(* builds once per process from the ledger in memory and the store.        *)
(*                                                                         *)
(* Counts are in thousandths, because noise is added to them; rates are in *)
(* ten-thousandths and risks in thousandths, rounded down.  The insights   *)
(* whose weight in the score is zero (fan-in, corridor) are left out.      *)
(***************************************************************************)
EXTENDS Integers, FiniteSets, FiniteSetsExt

CONSTANTS
    Payee,
    INSTITUTIONS,
    Noise,          \* per institution, the noise of its [tx, fraud]: one seed for every payee
    InLedger,       \* payees of transactions.csv, which a process reads when it starts
    LedgerCounts,   \* what it may say of such a payee: institution -> [tx, fraud]
    Amount,         \* payments, by [over_norm, weight]: two risks in thousandths
    MaxTx           \* bound on what one institution sends one payee

ASSUME NetworkAssumption ==
    /\ IsFiniteSet(INSTITUTIONS)
    /\ InLedger \subseteq Payee
    /\ LedgerCounts \subseteq [INSTITUTIONS -> [tx: Nat, fraud: Nat]]
    /\ Noise \in [INSTITUTIONS -> [tx: Int, fraud: Int]]
    /\ Amount \subseteq [over_norm: Nat, weight: Nat]

VARIABLES
    edges,          \* per payee and institution, [tx, fraud] in ledger or store
    consortium,     \* _consortium_index: counts per payee, or Unbuilt
    aiq             \* _aiq_index: the payee transaction counts beside it, or Unbuilt

networkVars == <<edges, consortium, aiq>>

PRIOR == 65
SMOOTH_K == 20
ALERT_THRESHOLD == 500
MIN_EVIDENCE_TX == 8
NEW_TO_NETWORK_TX == 5

Unbuilt == <<>>
NoCounts == [i \in INSTITUTIONS |-> [tx |-> 0, fraud |-> 0]]

\* A count as its institution publishes it: noised, and cut off at zero.
noisy(count, noise) == IF 1000 * count + noise < 0 THEN 0 ELSE 1000 * count + noise
Total(counts) == SumFunction([i \in INSTITUTIONS |-> counts[i].tx])

-----------------------------------------------------------------------------
(* core/consortium.py.                                                     *)

\* fraud and tx in thousandths; the answer in ten-thousandths.
_smoothed(fraud, tx) ==
    ((fraud + (SMOOTH_K * PRIOR) \div 10) * 10000) \div (tx + SMOOTH_K * 1000)

local_rate(counts, i) == _smoothed(1000 * counts[i].fraud, 1000 * counts[i].tx)

consortium_view(counts) ==
    LET fraud == SumFunction([i \in INSTITUTIONS |-> noisy(counts[i].fraud, Noise[i].fraud)])
        tx    == SumFunction([i \in INSTITUTIONS |-> noisy(counts[i].tx, Noise[i].tx)])
        rate  == _smoothed(fraud, IF tx < fraud THEN fraud ELSE tx)
    IN  [rate       |-> rate,
         sufficient |-> Total(counts) >= MIN_EVIDENCE_TX,
         alerts     |-> rate >= ALERT_THRESHOLD /\ Total(counts) >= MIN_EVIDENCE_TX]

\* Mutant: a payee some member already flags is no reveal to anybody.
network_reveal_Anyone(counts, i) ==
    /\ consortium_view(counts).alerts
    /\ \A j \in INSTITUTIONS : local_rate(counts, j) < ALERT_THRESHOLD

network_reveal(counts, i) ==
    /\ consortium_view(counts).alerts
    /\ local_rate(counts, i) < ALERT_THRESHOLD

-----------------------------------------------------------------------------
(* core/authorization_iq.py.                                               *)

\* A ramp from lo to hi, clamped, in thousandths.
_norm(x, lo, hi) ==
    IF x <= lo THEN 0 ELSE IF x >= hi THEN 1000 ELSE ((x - lo) * 1000) \div (hi - lo)

_insight_network_rep(counts) ==
    LET view == consortium_view(counts)
    IN  IF view.sufficient THEN _norm(view.rate, ALERT_THRESHOLD, 6 * ALERT_THRESHOLD) ELSE 0

\* recipient_tx is what the index holds, which need not be the counts' total.
_insight_new_to_network(recipient_tx, amount) ==
    (_norm(NEW_TO_NETWORK_TX - recipient_tx, 0, NEW_TO_NETWORK_TX) * amount.weight) \div 1000

network_risk(counts, i, recipient_tx, amount) ==
    LET rep    == _insight_network_rep(counts)
        reveal == IF network_reveal(counts, i) THEN rep ELSE 0
        newness == _insight_new_to_network(recipient_tx, amount)
        sum    == (40 * rep + 28 * reveal + 22 * amount.over_norm + 10 * newness) \div 100
    IN  IF sum > 1000 THEN 1000 ELSE sum

\* What the pack can raise a score to: nothing below the evidence floor.
raises_to(counts, i, recipient_tx, amount) ==
    IF consortium_view(counts).sufficient
    THEN network_risk(counts, i, recipient_tx, amount) ELSE 0

-----------------------------------------------------------------------------
(* The indexes of main.py.                                                 *)

NetworkInit ==
    /\ \E counts \in [InLedger -> LedgerCounts] :
          edges = [p \in Payee |-> IF p \in InLedger THEN counts[p] ELSE NoCounts]
    /\ consortium = Unbuilt
    /\ aiq = Unbuilt

\* A payment to a payee the ledger does not know; it reaches the store alone.
Settle(p, i) ==
    /\ p \notin InLedger
    /\ edges[p][i].tx < MaxTx
    /\ \E fraud \in {0, 1} :
          edges' = [edges EXCEPT ![p][i] = [tx |-> @.tx + 1, fraud |-> @.fraud + fraud]]
    /\ UNCHANGED <<consortium, aiq>>

\* The ledger's payees, then the store's others, whatever they have had so far;
\* if reading the store fails, the ledger's alone, and nobody is told.
BuildConsortium ==
    /\ consortium = Unbuilt
    /\ \E overlaid \in {Payee, InLedger} :
          consortium' = [p \in {q \in overlaid : edges[q] # NoCounts} |-> edges[p]]
    /\ UNCHANGED <<edges, aiq>>

\* _get_aiq_index takes the consortium's index, and counts the ledger alone.
BuildAiq ==
    /\ aiq = Unbuilt
    /\ consortium # Unbuilt
    /\ aiq' = [p \in InLedger |-> Total(edges[p])]
    /\ UNCHANGED <<edges, consortium>>

\* The store survives; the indexes are rebuilt.
RestartIndexes ==
    /\ consortium # Unbuilt
    /\ consortium' = Unbuilt
    /\ aiq' = Unbuilt
    /\ UNCHANGED edges

NetworkNext ==
    \/ \E p \in Payee, i \in INSTITUTIONS : Settle(p, i)
    \/ BuildConsortium \/ BuildAiq \/ RestartIndexes

NetworkSpec == NetworkInit /\ [][NetworkNext]_networkVars

recipient_tx(p) == IF p \in DOMAIN aiq THEN aiq[p] ELSE 0

-----------------------------------------------------------------------------

\* No institution's fraud count is pushed so far below zero that one more fraud
\* is published as less than 0.3 more.  The one seed of the code, at epsilon 1,
\* gives 1.373 and -0.204.
MildNoise == \A i \in INSTITUTIONS : Noise[i].fraud >= -700

\* "Every institution that joins makes the signal better for all of them": one
\* more confirmed fraud at another institution never lets a payee's next
\* payment score lower than before, through the noise, the evidence floor and
\* the reveal, at whatever counts the index was built.
FraudElsewhereNeverSoothes ==
    aiq # Unbuilt =>
        \A p \in DOMAIN consortium, i \in INSTITUTIONS, amount \in Amount :
            \A j \in INSTITUTIONS \ {i} :
                LET before == consortium[p]
                    after == [before EXCEPT ![j] = [tx |-> @.tx + 1, fraud |-> @.fraud + 1]]
                IN  raises_to(before, i, recipient_tx(p), amount)
                        <= raises_to(after, i, recipient_tx(p), amount)

\* "build_index is the tested reference; this populates the same AIQIndex
\* fields": there, a payee with evidence enough to speak is not "new to the
\* entire network".
SpokenForIsNotNew ==
    aiq # Unbuilt =>
        \A p \in DOMAIN consortium, amount \in Amount :
            consortium_view(consortium[p]).sufficient =>
                _insight_new_to_network(recipient_tx(p), amount) = 0
=============================================================================
