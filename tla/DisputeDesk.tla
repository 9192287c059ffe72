----------------------------- MODULE DisputeDesk ----------------------------
(***************************************************************************)
(* core/dispute.py and POST /disputes: a card dispute goes through the     *)
(* network's stages, an acquirer posts its file as often as it likes, and  *)
(* every post folds the file afresh and settles the label it implies.      *)
(* What the ledger then makes of the record is OutcomeLedger's; here a     *)
(* chargeback's label gives way to the next one that says something else.  *)
(***************************************************************************)
EXTENDS Integers, Sequences, FiniteSets, SequencesExt

CONSTANTS
    Dispute,        \* the disputed authorizations
    Code,           \* the reason codes disputes are opened with
    NoLabel,
    Clerk,          \* handler threads inside post_dispute
    MaxFiled,       \* bound on what the network does to one dispute
    MaxFiles        \* bound on the different files posted for one dispute

ASSUME DisputeAssumption == {MaxFiled, MaxFiles} \subseteq Nat

VARIABLES
    filed,          \* per dispute, what happened at the network, in order
    logged,         \* per dispute, the files the event log holds
    label,          \* per dispute, the ledger's standing chargeback label
    desk_call       \* per thread, the post it is working on

disputeVars == <<filed, logged, label, desk_call>>

STAGES == <<"chargeback", "representment", "pre_arbitration", "arbitration">>
TERMINAL == {"issuer_won", "merchant_won", "withdrawn", "expired"}

\* REASON_CODES: the fraud family, and those of it a monitoring program raises.
FraudCodes == {"10.1", "10.2", "10.3", "10.4", "10.5", "4837", "4849", "4863", "4870", "4871"}
ProgramCodes == {"10.5", "4849"}
AMBIGUOUS_FRAUD_CODES == {"10.4", "4863"}
OtherCodes ==
    {"11.1", "11.2", "11.3", "12.1", "12.5", "12.6", "13.1", "13.2", "13.3", "13.6", "13.7",
     "4808", "4834", "4831", "4853"}

classify(code) ==
    [known               |-> code \in FraudCodes \cup OtherCodes,
     fraud_eligible      |-> code \in FraudCodes,
     cardholder_asserted |-> code \notin ProgramCodes,
     ambiguous           |-> code \in AMBIGUOUS_FRAUD_CODES]

\* An event names a stage, a ruling, or both; the opening one names the code.
Event(stage, terminal, code, evidence) ==
    [stage |-> stage, terminal |-> terminal, reason_code |-> code, evidence |-> evidence]

StageIndex(stage) ==
    IF stage \in Range(STAGES) THEN CHOOSE i \in DOMAIN STAGES : STAGES[i] = stage ELSE 0

furthest(events) == Max({0} \cup {StageIndex(events[i].stage) : i \in DOMAIN events})

Rulings(events) == {i \in DOMAIN events : events[i].terminal \in TERMINAL}

Openings(events) == {i \in DOMAIN events : events[i].reason_code # ""}

\* What the loop over the events leaves: the furthest stage, the last ruling,
\* the first reason code, and whether compelling evidence was ever sent.
advance(events) ==
    [stage       |-> IF furthest(events) = 0 THEN "" ELSE STAGES[furthest(events)],
     terminal    |-> IF Rulings(events) = {} THEN "" ELSE events[Max(Rulings(events))].terminal,
     reason_code |-> IF Openings(events) = {} THEN "" ELSE events[Min(Openings(events))].reason_code,
     evidence    |-> \E i \in DOMAIN events : events[i].evidence]

settled(st) == st.terminal # ""

\* Mutant: a chargeback is taken for its own outcome.
may_emit_Claim(st) ==
    LET cls == classify(st.reason_code)
    IN  /\ cls.known
        /\ cls.fraud_eligible
        /\ cls.cardholder_asserted
        /\ st.terminal # "expired"

may_emit(st) ==
    LET cls == classify(st.reason_code)
    IN  /\ cls.known
        /\ settled(st)
        /\ cls.fraud_eligible
        /\ cls.cardholder_asserted
        /\ st.terminal # "expired"

\* Confidence in hundredths.
derive_outcome(st) ==
    IF st.terminal = "merchant_won"
    THEN [value |-> "legit", confidence |-> IF st.evidence THEN 80 ELSE 65]
    ELSE IF st.terminal = "withdrawn" THEN [value |-> "legit", confidence |-> 55]
    ELSE [value |-> "fraud", confidence |-> IF classify(st.reason_code).ambiguous THEN 75 ELSE 90]

DisputeInit ==
    /\ filed = [d \in Dispute |-> <<>>]
    /\ logged = [d \in Dispute |-> {}]
    /\ label = [d \in Dispute |-> NoLabel]
    /\ desk_call = [c \in Clerk |-> <<>>]

-----------------------------------------------------------------------------
(* The network.                                                            *)

\* The next stage, with a merchant's evidence at representment, or a ruling,
\* which the loser may still escalate.
NetworkMoves(d) ==
    LET st == advance(filed[d])
    IN  /\ Len(filed[d]) < MaxFiled
        /\ st.terminal \notin {"withdrawn", "expired"}
        /\ \/ /\ StageIndex(st.stage) < Len(STAGES)
              /\ LET stage == STAGES[StageIndex(st.stage) + 1]
                 IN  \E code \in IF stage = "chargeback" THEN Code ELSE {""} :
                     \E evidence \in IF stage = "representment" THEN BOOLEAN ELSE {FALSE} :
                        filed' = [filed EXCEPT ![d] = Append(@, Event(stage, "", code, evidence))]
           \/ /\ filed[d] # <<>> /\ Last(filed[d]).terminal = ""
              /\ \E terminal \in TERMINAL :
                    filed' = [filed EXCEPT ![d] = Append(@, Event("", terminal, "", FALSE))]
        /\ UNCHANGED <<logged, label, desk_call>>

\* A file is what the acquirer knew at some time; "acquirers do re-send", so
\* one of its events may come again at the end.
Files(d) ==
    LET prefixes == {SubSeq(filed[d], 1, n) : n \in 1..Len(filed[d])}
    IN  prefixes \cup UNION {{Append(file, file[i]) : i \in DOMAIN file} : file \in prefixes}

-----------------------------------------------------------------------------
(* post_dispute, in a thread of the server's pool.                         *)

\* The fold, and the event that records the file; either store call may fail,
\* and the answer then says so.
LogFile(c) ==
    /\ desk_call[c] = <<>>
    /\ \E d \in Dispute : \E file \in Files(d) :
          /\ file \in logged[d] \/ Cardinality(logged[d]) < MaxFiles
          /\ logged' = [logged EXCEPT ![d] = @ \cup {file}]
          /\ desk_call' = IF may_emit(advance(file)) THEN [desk_call EXCEPT ![c] = <<d, file>>]
                          ELSE desk_call
    /\ UNCHANGED <<filed, label>>

\* record_outcome: what the label already says is a duplicate.
SettleLabel(c) ==
    /\ desk_call[c] # <<>>
    /\ LET d == desk_call[c][1]
           outcome == derive_outcome(advance(desk_call[c][2]))
       IN  label' = [label EXCEPT ![d] =
                        IF @ # NoLabel /\ @.value = outcome.value THEN @ ELSE outcome]
    /\ desk_call' = [desk_call EXCEPT ![c] = <<>>]
    /\ UNCHANGED <<filed, logged>>

LedgerFails(c) ==
    /\ desk_call[c] # <<>>
    /\ desk_call' = [desk_call EXCEPT ![c] = <<>>]
    /\ UNCHANGED <<filed, logged, label>>

DisputeNext ==
    \/ \E d \in Dispute : NetworkMoves(d)
    \/ \E c \in Clerk : LogFile(c) \/ SettleLabel(c) \/ LedgerFails(c)

DisputeSpec == DisputeInit /\ [][DisputeNext]_disputeVars

-----------------------------------------------------------------------------

\* A label "is adjudicated": it says what the network ruled at some time on a
\* claim a cardholder made of fraud, and the event log holds a file that shows
\* the ruling, whichever of two posts of the same dispute wrote last.
LabelFollowsARuling ==
    \A d \in Dispute : label[d] # NoLabel =>
        /\ filed[d][1].reason_code \in FraudCodes \ ProgramCodes
        /\ \E file \in logged[d] : \E i \in DOMAIN file :
              /\ file[i] \in Range(filed[d])
              /\ IF label[d].value = "fraud" THEN file[i].terminal = "issuer_won"
                 ELSE file[i].terminal \in {"merchant_won", "withdrawn"}

\* "A dispute that appears to regress would reopen an already-emitted label":
\* once a complete file has been folded, an older or re-sent one changes nothing.
RulingIsNotReopened ==
    [][\A d \in Dispute :
          label[d] # NoLabel /\ filed[d] \in logged[d]
              /\ derive_outcome(advance(filed[d])).value = label[d].value
              /\ may_emit(advance(filed[d]))
          => label'[d] = label[d]]_disputeVars
=============================================================================
