------------------------- MODULE FeedbackLoopProofs -------------------------
(***************************************************************************)
(* Proofs about FeedbackLoop, for any number of handlers, payees, requests *)
(* and failures.  Every step of the loop is a step of the label store or   *)
(* leaves it alone, so what is proved of LabelStore holds of its tables    *)
(* here; and the durable counters of a payee stay a rate.                  *)
(***************************************************************************)
EXTENDS FeedbackLoop, LabelStoreProofs, FiniteSetTheorems

USE FeedbackAssumption

\* What one step of one handler, or of the process, is.
Step(w) ==
    \/ \E b \in Body : Post(w, b)
    \/ AppendLog(w) \/ ReadCount(w) \/ WriteCount(w)
    \/ AppendDisposition(w) \/ GetEntity(w) \/ CreateEntity(w) \/ UpdateReputation(w)
    \/ AppendFeedback(w) \/ QueueRetrain(w) \/ AddOutcomeLabel(w) \/ AddIntentLabel(w)
    \/ Answer(w) \/ StoreRaises(w)

LEMMA LoopNextCases ==
  ASSUME LoopNext
  PROVE  (\E w \in Handler : Step(w)) \/ Restart \/ \E r \in Recipient : ScoredFirst(r)
BY Zenon DEF LoopNext, record, close_loop, Step

-----------------------------------------------------------------------------
(* The inductive invariant: the shape of a call at each of its stages, and *)
(* counters that are a rate wherever they are kept, in the entity or in a  *)
(* handler that read them.                                                 *)

Tally == {t \in [tx: Nat, fraud: Nat] : t.fraud <= t.tx}
Rate == [tx: Int, fraud: Int]

Early == {"log", "count"}
Late == {"event", "entity", "feedback", "queue", "label", "intent", "answer"}

CallShape ==
    {Idle}
    \cup [pc: Early, body: Body, rate: Rate]
    \cup [pc: Late \cup {"write"}, body: Body, rate: Rate, read: Nat]
    \cup [pc: Late \cup {"create", "patch"}, body: Body, rate: Rate, before: Tally]

EntityShape == {NoEntity} \cup {e \in [tx: Nat, fraud: Nat, rate: Rate] : e.fraud <= e.tx}

Paid(c) == c.pc \in {"entity", "create", "patch"} => c.body.recipient # NoRecipient

LoopInv ==
    /\ call \in [Handler -> CallShape]
    /\ \A w \in Handler : Paid(call[w])
    /\ live \in [Recipient -> [tx: Nat, fraud: Nat]]
    /\ entity \in [Recipient -> EntityShape]
    /\ counts \in [Class -> Nat] /\ logged \in [Class -> Nat] /\ queued \in Nat
    /\ raced \subseteq Recipient \cup {NoRecipient}

LEMMA TalliedIsTally ==
  ASSUME NEW t \in Tally, NEW b PROVE Tallied(t, b) \in Tally
BY DEF Tally, Tallied, FraudOf

LEMMA TalliedIsNat ==
  ASSUME NEW t \in [tx: Nat, fraud: Nat], NEW b PROVE Tallied(t, b) \in [tx: Nat, fraud: Nat]
BY DEF Tallied, FraudOf

LEMMA ClassOfBody == ASSUME NEW b \in Body PROVE b.class \in Class
BY DEF FeedbackAssumption

LEMMA InitLoopInv == LoopInit => LoopInv
BY DEF LoopInit, LoopInv, CallShape, Paid, Idle, Untouched, EntityShape, NoEntity, NoClasses

\* A call that only moves on keeps its shape.
LEMMA GotoShape ==
  ASSUME LoopInv, NEW w \in Handler, NEW pc \in Late, call[w] # Idle, pc # "entity",
         call[w].pc \notin Early, Goto(w, pc)
  PROVE  /\ call' \in [Handler -> CallShape]
         /\ \A v \in Handler : Paid(call'[v])
<1>1. [call[w] EXCEPT !.pc = pc] \in CallShape
  BY DEF LoopInv, CallShape, Late
<1>2. call' = [call EXCEPT ![w] = [call[w] EXCEPT !.pc = pc]]
  BY DEF Goto
<1>3. [call[w] EXCEPT !.pc = pc].pc = pc
  BY DEF LoopInv, CallShape
<1>4. QED
  BY <1>1, <1>2, <1>3 DEF LoopInv, Paid, Late

-----------------------------------------------------------------------------
(* One lemma per stage of a request.                                       *)

LEMMA PostInv ==
  ASSUME LoopInv, NEW w \in Handler, NEW b \in Body, Post(w, b)
  PROVE  LoopInv'
<1>1. b.recipient \in Recipient \cup {NoRecipient}
  BY DEF FeedbackAssumption
<1>2. raced' \subseteq Recipient \cup {NoRecipient}
  BY <1>1 DEF LoopInv, Post
<1>3. PICK rate \in Rate : call' = [call EXCEPT ![w] = [pc |-> "log", body |-> b, rate |-> rate]]
  <2>1. NoRate \in Rate
    BY DEF NoRate, Rate
  <2>2. b.recipient \in Recipient => Tallied(live[b.recipient], b) \in Rate
    BY TalliedIsNat DEF LoopInv, Rate
  <2>3. QED
    BY <1>1, <2>1, <2>2 DEF Post
<1>4. [pc |-> "log", body |-> b, rate |-> rate] \in CallShape
  BY DEF CallShape, Early
<1>5. call' \in [Handler -> CallShape] /\ \A v \in Handler : Paid(call'[v])
  BY <1>3, <1>4 DEF LoopInv, Paid
<1>6. live' \in [Recipient -> [tx: Nat, fraud: Nat]]
  <2>1. b.recipient \in Recipient => Tallied(live[b.recipient], b) \in [tx: Nat, fraud: Nat]
    BY TalliedIsNat DEF LoopInv
  <2>2. live' = live \/ live' = [live EXCEPT ![b.recipient] = Tallied(live[b.recipient], b)]
    BY DEF Post
  <2>3. QED
    BY <1>1, <2>1, <2>2 DEF LoopInv
<1>7. QED
  BY <1>2, <1>5, <1>6 DEF LoopInv, Post

LEMMA RecordInv ==
  ASSUME LoopInv, NEW w \in Handler, AppendLog(w) \/ ReadCount(w) \/ WriteCount(w)
  PROVE  LoopInv'
<1>0. call[w] \in CallShape /\ call[w] # Idle
  BY DEF LoopInv, AppendLog, ReadCount, WriteCount, Idle
<1>1. CASE AppendLog(w)
  <2>1. call[w] \in [pc: Early, body: Body, rate: Rate]
    BY <1>0, <1>1 DEF AppendLog, CallShape, Late
  <2>2. [call[w] EXCEPT !.pc = "count"] \in CallShape
    BY <2>1 DEF CallShape, Early
  <2>3. call' = [call EXCEPT ![w] = [call[w] EXCEPT !.pc = "count"]]
    BY <1>1 DEF AppendLog, Goto
  <2>4. call' \in [Handler -> CallShape] /\ \A v \in Handler : Paid(call'[v])
    BY <2>1, <2>2, <2>3 DEF LoopInv, Paid
  <2>5. logged' \in [Class -> Nat]
    BY <1>1 DEF AppendLog, LoopInv
  <2>6. QED
    BY <1>1, <2>4, <2>5 DEF LoopInv, AppendLog
<1>2. CASE ReadCount(w)
  <2>1. call[w] \in [pc: Early, body: Body, rate: Rate]
    BY <1>0, <1>2 DEF ReadCount, CallShape, Late
  <2> DEFINE c == [pc |-> "write", body |-> call[w].body, rate |-> call[w].rate,
                   read |-> counts[call[w].body.class]]
  <2>2. c \in CallShape /\ Paid(c)
    BY <2>1, ClassOfBody DEF CallShape, Paid, LoopInv
  <2>3. call' = [call EXCEPT ![w] = c]
    BY <1>2 DEF ReadCount
  <2>4. call' \in [Handler -> CallShape] /\ \A v \in Handler : Paid(call'[v])
    BY <2>2, <2>3 DEF LoopInv
  <2>5. QED
    BY <1>2, <2>4 DEF LoopInv, ReadCount, loopVarsButCall
<1>3. CASE WriteCount(w)
  <2>1. call[w] \in [pc: Late \cup {"write"}, body: Body, rate: Rate, read: Nat]
    BY <1>0, <1>3 DEF WriteCount, CallShape, Early, Late
  <2>2. call' \in [Handler -> CallShape] /\ \A v \in Handler : Paid(call'[v])
    BY <1>0, <1>3, GotoShape DEF WriteCount, Late, Early
  <2>3. counts' \in [Class -> Nat]
    BY <1>3, <2>1 DEF WriteCount, LoopInv
  <2>4. QED
    BY <1>3, <2>2, <2>3 DEF LoopInv, WriteCount
<1>4. QED
  BY <1>1, <1>2, <1>3

LEMMA GetEntityInv ==
  ASSUME LoopInv, NEW w \in Handler, GetEntity(w)
  PROVE  LoopInv'
<1>1. call[w] \in CallShape /\ call[w] # Idle /\ call[w].pc = "entity"
  BY DEF LoopInv, GetEntity, Idle
<1> DEFINE r == call[w].body.recipient
           held == entity[r]
           before == IF held = NoEntity THEN Untouched ELSE [tx |-> held.tx, fraud |-> held.fraud]
           c == [pc |-> IF held = NoEntity THEN "create" ELSE "patch",
                 body |-> call[w].body, rate |-> call[w].rate, before |-> before]
<1>2. call[w].body \in Body /\ call[w].rate \in Rate
  BY <1>1 DEF CallShape
<1>3. r \in Recipient
  BY <1>1, <1>2 DEF LoopInv, Paid, FeedbackAssumption
<1>4. before \in Tally
  <2>1. held \in EntityShape
    BY <1>3 DEF LoopInv
  <2>2. Untouched \in Tally
    BY DEF Untouched, Tally
  <2>3. held # NoEntity => [tx |-> held.tx, fraud |-> held.fraud] \in Tally
    BY <2>1 DEF EntityShape, Tally
  <2>4. QED
    BY <2>2, <2>3
<1>5. c \in [pc: {"create", "patch"}, body: Body, rate: Rate, before: Tally]
  BY <1>2, <1>4
<1>6. c \in CallShape /\ Paid(c)
  <2> HIDE DEF before
  <2>1. c \in CallShape
    BY <1>2, <1>4 DEF CallShape
  <2>2. Paid(c)
    BY <1>1 DEF Paid, LoopInv
  <2>3. QED
    BY <2>1, <2>2
<1>7. call' = [call EXCEPT ![w] = c]
  BY DEF GetEntity
<1>8. call' \in [Handler -> CallShape] /\ \A v \in Handler : Paid(call'[v])
  <2> HIDE DEF c
  <2> QED
    BY <1>6, <1>7 DEF LoopInv
<1>9. QED
  BY <1>8 DEF LoopInv, GetEntity, loopVarsButCall

\* The counters a request merges over an entity come from one read.
LEMMA EntityWritesInv ==
  ASSUME LoopInv, NEW w \in Handler, CreateEntity(w) \/ UpdateReputation(w)
  PROVE  LoopInv'
<1>1. call[w] \in CallShape /\ call[w] # Idle /\ call[w].pc \in {"create", "patch"}
  BY DEF LoopInv, CreateEntity, UpdateReputation, Idle
<1>2. call[w] \in [pc: Late \cup {"create", "patch"}, body: Body, rate: Rate, before: Tally]
  BY <1>1 DEF CallShape, Early, Late
<1> DEFINE r == call[w].body.recipient
<1>3. r \in Recipient
  BY <1>1, <1>2 DEF LoopInv, Paid, FeedbackAssumption
<1>4. entity[r].rate \in Rate
  <2>1. entity[r] \in EntityShape
    BY <1>3 DEF LoopInv
  <2>2. QED
    BY <2>1 DEF EntityShape, NoEntity, NoRate, Rate
<1>5. CASE CreateEntity(w)
  <2>1. [tx |-> 0, fraud |-> 0, rate |-> entity[r].rate] \in EntityShape
    BY <1>4 DEF EntityShape
  <2>2. entity' = [entity EXCEPT ![r] = [tx |-> 0, fraud |-> 0, rate |-> entity[r].rate]]
    BY <1>5 DEF CreateEntity
  <2>3. [call[w] EXCEPT !.pc = "patch"] \in CallShape /\ Paid([call[w] EXCEPT !.pc = "patch"])
    BY <1>1, <1>2 DEF CallShape, Paid, LoopInv
  <2>4. call' = [call EXCEPT ![w] = [call[w] EXCEPT !.pc = "patch"]]
    BY <1>5 DEF CreateEntity, Goto
  <2>5. call' \in [Handler -> CallShape] /\ \A v \in Handler : Paid(call'[v])
    BY <2>3, <2>4 DEF LoopInv
  <2>6. entity' \in [Recipient -> EntityShape]
    BY <2>1, <2>2 DEF LoopInv
  <2>7. QED
    BY <1>5, <2>5, <2>6 DEF LoopInv, CreateEntity
<1>6. CASE UpdateReputation(w)
  <2>1. Tallied(call[w].before, call[w].body) \in Tally
    BY <1>2, TalliedIsTally
  <2>2. Patched(entity[r], call[w]) \in EntityShape
    BY <1>2, <1>4, <2>1 DEF Patched, EntityShape, Tally
  <2>3. entity' = entity \/ entity' = [entity EXCEPT ![r] = Patched(entity[r], call[w])]
    BY <1>6 DEF UpdateReputation
  <2>4. entity' \in [Recipient -> EntityShape]
    BY <2>2, <2>3 DEF LoopInv
  <2>5. call' \in [Handler -> CallShape] /\ \A v \in Handler : Paid(call'[v])
    BY <1>1, <1>6, GotoShape DEF UpdateReputation, Late, Early
  <2>6. QED
    BY <1>6, <2>4, <2>5 DEF LoopInv, UpdateReputation
<1>7. QED
  BY <1>5, <1>6

LEMMA DispositionInv ==
  ASSUME LoopInv, NEW w \in Handler, AppendDisposition(w)
  PROVE  LoopInv'
<1>1. call[w] \in CallShape /\ call[w] # Idle /\ call[w].pc = "event"
  BY DEF LoopInv, AppendDisposition, Idle
<1> DEFINE next == IF call[w].body.recipient = NoRecipient THEN "feedback" ELSE "entity"
           c == [call[w] EXCEPT !.pc = next]
<1>2. c \in CallShape /\ Paid(c)
  BY <1>1 DEF CallShape, Paid, Late, Early
<1>3. call' = [call EXCEPT ![w] = c]
  BY DEF AppendDisposition, Goto
<1>4. call' \in [Handler -> CallShape] /\ \A v \in Handler : Paid(call'[v])
  <2> HIDE DEF c
  <2> QED
    BY <1>2, <1>3 DEF LoopInv
<1>5. QED
  BY <1>4 DEF LoopInv, AppendDisposition

LEMMA LateInv ==
  ASSUME LoopInv, NEW w \in Handler,
         \/ AppendFeedback(w) \/ QueueRetrain(w) \/ AddOutcomeLabel(w) \/ AddIntentLabel(w)
  PROVE  LoopInv'
<1>1. call[w].pc \in {"feedback", "queue", "label", "intent"}
  <2>1. AppendFeedback(w) => call[w].pc = "feedback"
    BY Zenon DEF AppendFeedback
  <2>2. QED
    BY <2>1 DEF QueueRetrain, AddOutcomeLabel, AddIntentLabel
<1>2. PICK pc \in Late : pc # "entity" /\ Goto(w, pc)
  <2>1. AppendFeedback(w) => Goto(w, AfterTrail(call[w].body))
    BY Zenon DEF AppendFeedback
  <2>2. AfterTrail(call[w].body) \in Late \ {"entity"}
    BY DEF AfterTrail, Late
  <2>3. QED
    BY <2>1, <2>2 DEF QueueRetrain, AddOutcomeLabel, AddIntentLabel, Late
<1>3. call[w] # Idle /\ call[w].pc \notin Early
  BY <1>1 DEF Idle, Early
<1>4. call' \in [Handler -> CallShape] /\ \A v \in Handler : Paid(call'[v])
  BY <1>2, <1>3, GotoShape
<1>5. /\ UNCHANGED <<live, entity, counts, logged, raced>>
      /\ queued' = queued \/ queued' = queued + 1
  <2>1. AppendFeedback(w) => UNCHANGED <<live, entity, counts, logged, raced, queued>>
    BY Zenon DEF AppendFeedback
  <2>2. QED
    BY <2>1 DEF QueueRetrain, AddOutcomeLabel, AddIntentLabel, loopVarsButCall
<1>6. QED
  BY <1>4, <1>5 DEF LoopInv

\* A request ends, with its answer, an exception or the process.
LEMMA EndInv ==
  ASSUME LoopInv,
         \/ \E w \in Handler : Answer(w) \/ StoreRaises(w)
         \/ Restart
  PROVE  LoopInv'
<1>1. Idle \in CallShape /\ Paid(Idle)
  BY DEF CallShape, Paid, Idle
<1>2. \A w \in Handler : Answer(w) => LoopInv'
  BY <1>1 DEF LoopInv, Answer
<1>3. \A w \in Handler : StoreRaises(w) => LoopInv'
  BY <1>1 DEF LoopInv, StoreRaises
<1>4. Restart => LoopInv'
  BY <1>1 DEF LoopInv, Restart, LoadExisting, Untouched
<1>5. QED
  BY <1>2, <1>3, <1>4

LEMMA ScoredFirstInv ==
  ASSUME LoopInv, NEW r \in Recipient, ScoredFirst(r)
  PROVE  LoopInv'
<1>1. [tx |-> 0, fraud |-> 0, rate |-> NoRate] \in EntityShape
  BY DEF EntityShape, NoRate, Rate
<1>2. entity' \in [Recipient -> EntityShape]
  BY <1>1 DEF LoopInv, ScoredFirst
<1>3. QED
  BY <1>2 DEF LoopInv, ScoredFirst

LEMMA StepInv == ASSUME LoopInv, NEW w \in Handler, Step(w) PROVE LoopInv'
<1>1. CASE \E b \in Body : Post(w, b)
  BY <1>1, PostInv
<1>2. CASE AppendLog(w) \/ ReadCount(w) \/ WriteCount(w)
  BY <1>2, RecordInv
<1>3. CASE AppendDisposition(w)
  BY <1>3, DispositionInv
<1>4. CASE GetEntity(w)
  BY <1>4, GetEntityInv
<1>5. CASE CreateEntity(w) \/ UpdateReputation(w)
  BY <1>5, EntityWritesInv
<1>6. CASE AppendFeedback(w) \/ QueueRetrain(w) \/ AddOutcomeLabel(w) \/ AddIntentLabel(w)
  BY <1>6, LateInv
<1>7. CASE Answer(w) \/ StoreRaises(w)
  BY <1>7, EndInv
<1>8. QED
  BY <1>1, <1>2, <1>3, <1>4, <1>5, <1>6, <1>7 DEF Step

LEMMA NextLoopInv == LoopInv /\ [LoopNext]_vars => LoopInv'
<1> SUFFICES ASSUME LoopInv, [LoopNext]_vars PROVE LoopInv'
  OBVIOUS
<1>1. CASE LoopNext
  BY <1>1, LoopNextCases, StepInv, EndInv, ScoredFirstInv
<1>2. CASE UNCHANGED vars
  BY <1>2 DEF LoopInv, vars, loopVars
<1>3. QED
  BY <1>1, <1>2

\* The loop's invariant holds for any handlers, requests and failures.
THEOREM LoopInductive == LoopSpec => []LoopInv
<1>1. QED
  BY InitLoopInv, NextLoopInv, PTL DEF LoopSpec

\* A payee's durable counters never show more frauds than payments, although
\* close_loop reads, adds and writes them back in separate store calls.
THEOREM FraudStaysWithinTotal == LoopSpec => []FraudWithinTotal
<1>1. LoopInv => FraudWithinTotal
  BY DEF LoopInv, FraudWithinTotal, EntityShape, NoEntity
<1>2. QED
  BY <1>1, LoopInductive, PTL

-----------------------------------------------------------------------------
(* The loop never touches the label store but through its verbs.           *)

LEMMA AddsALabel ==
  ASSUME NEW b \in Body, NEW target \in {OutcomeTarget, MotiveTarget},
         NEW source \in {outcome_source(b.source), "analyst"},
         add_label(b.transaction, NoDecision, target, source, b.fact, FALSE)
  PROVE  AddLabel
<1>1. b.transaction \in Subject /\ source \in Source /\ target \in Target /\ b.fact \in Fact
  BY DEF FeedbackAssumption
<1>2. QED
  BY <1>1 DEF AddLabel

LEMMA StepIsStoreStep ==
  ASSUME LoopInv, [LoopNext]_vars PROVE [Next]_storeVars
<1>1. ASSUME NEW w \in Handler, AddOutcomeLabel(w) \/ AddIntentLabel(w) PROVE AddLabel
  <2>1. call[w].pc \in {"label", "intent"}
    BY <1>1 DEF AddOutcomeLabel, AddIntentLabel
  <2>2. call[w].body \in Body
    BY <2>1 DEF LoopInv, CallShape, Idle
  <2>3. CASE AddOutcomeLabel(w)
    BY <2>2, <2>3, AddsALabel DEF AddOutcomeLabel
  <2>4. CASE AddIntentLabel(w)
    BY <2>2, <2>4, AddsALabel DEF AddIntentLabel
  <2>5. QED
    BY <1>1, <2>3, <2>4
<1>2. ASSUME NEW w \in Handler, Step(w), ~(AddOutcomeLabel(w) \/ AddIntentLabel(w))
      PROVE  UNCHANGED storeVars
  BY <1>2 DEF Step, Post, AppendLog, ReadCount, WriteCount, AppendDisposition, GetEntity,
              CreateEntity, UpdateReputation, AppendFeedback, QueueRetrain, Answer, StoreRaises,
              storeVars
<1>3. Restart => UNCHANGED storeVars
  BY DEF Restart, storeVars
<1>4. \A r \in Recipient : ScoredFirst(r) => UNCHANGED storeVars
  BY DEF ScoredFirst, storeVars
<1>5. CASE LoopNext
  BY <1>1, <1>2, <1>3, <1>4, <1>5, LoopNextCases DEF Next
<1>6. CASE UNCHANGED vars
  BY <1>6 DEF vars, storeVars
<1>7. QED
  BY <1>5, <1>6

\* Whatever the feedback handlers do, the decision and label tables go through
\* a behaviour of LabelStore.
THEOREM LoopUsesTheStore == LoopSpec => Spec
<1>1. LoopInit => Init
  BY DEF LoopInit
<1>2. LoopInv /\ [LoopNext]_vars => [Next]_storeVars
  BY StepIsStoreStep
<1>3. QED
  BY <1>1, <1>2, LoopInductive, PTL DEF LoopSpec, Spec

\* One standing label per cell, however many dispositions of a transaction
\* arrive at once and wherever their handlers are stopped.
THEOREM LoopKeepsStanding == LoopSpec => []OneStandingPerCell
<1>1. QED
  BY LoopUsesTheStore, StandingUnique, PTL

\* Every disposition of every thread reaches the readers of the labels as the
\* abstract promise has it: an equal or stronger claim replaces what stands.
THEOREM LoopKeepsThePromise == LoopSpec => ImplementsStandingLabels
BY LoopUsesTheStore, Refinement

\* Types of the store and of the loop together.
THEOREM LoopTypeCorrect == LoopSpec => []LoopTypeOK
<1>1. LoopInv => \A w \in Handler : call[w] # Idle => call[w].body \in Body
  BY DEF LoopInv, CallShape
<1>2. LoopInv => \A r \in Recipient : /\ live[r].tx \in Nat /\ live[r].fraud \in Nat
                                      /\ entity[r].tx \in Counter /\ entity[r].fraud \in Counter
  BY DEF LoopInv, EntityShape, NoEntity, Counter
<1>3. LoopInv /\ TypeOK => LoopTypeOK
  BY <1>1, <1>2 DEF LoopTypeOK, LoopInv
<1>4. QED
  BY <1>3, LoopInductive, LoopUsesTheStore, TypeCorrect, PTL

-----------------------------------------------------------------------------
(* A payee's counters against the verdicts filed about it.  A request that *)
(* has read them holds no more than was filed; where no other request ever *)
(* overlapped, it holds exactly that.                                      *)

Holding == {"create", "patch"}

Owes(w, r) == call[w] # Idle /\ call[w].body.recipient = r /\ call[w].pc \in Updating

Within(c, f) == c.tx <= f.tx /\ c.fraud <= f.fraud
Same(c, f) == c.tx = f.tx /\ c.fraud = f.fraud

HeldWithin ==
    \A w \in Handler : call[w].pc \in Holding =>
        Within(call[w].before, filed[call[w].body.recipient])

Alone(r) == \A w, v \in Handler : Owes(w, r) /\ Owes(v, r) => w = v

\* What holds of a payee no two requests ever updated at once.
Exact(r) ==
    /\ Alone(r)
    /\ entity[r] # NoEntity => Same(entity[r], filed[r])
    /\ \A w \in Handler : Owes(w, r) /\ call[w].pc \in Holding =>
          /\ Same(call[w].before, filed[r])
          /\ call[w].pc = "create" => Same(Untouched, filed[r])

FiledOK ==
    /\ filed \in [Recipient -> [tx: Nat, fraud: Nat]]
    /\ \A r \in Recipient : /\ Within(entity[r], filed[r])
                            /\ entity[r] = NoEntity => Same(Untouched, filed[r])

CountInv ==
    /\ FiledOK
    /\ HeldWithin
    /\ \A r \in Recipient \ raced : Exact(r)

LEMMA InitCountInv == LoopInit => CountInv
BY DEF LoopInit, CountInv, FiledOK, HeldWithin, Exact, Alone, Owes, Within, Same, Untouched,
       NoEntity, Idle, Holding

\* Goto moves one request on and leaves the rest of it, and the others, alone.
LEMMA GotoMoves ==
  ASSUME LoopInv, NEW w \in Handler, NEW pc, call[w] # Idle, Goto(w, pc)
  PROVE  /\ call'[w].pc = pc
         /\ call'[w].body = call[w].body /\ call'[w].rate = call[w].rate
         /\ \A v \in Handler \ {w} : call'[v] = call[v]
<1>1. call' = [call EXCEPT ![w] = [call[w] EXCEPT !.pc = pc]]
  BY DEF Goto
<1>2. /\ [call[w] EXCEPT !.pc = pc].pc = pc
      /\ [call[w] EXCEPT !.pc = pc].body = call[w].body
      /\ [call[w] EXCEPT !.pc = pc].rate = call[w].rate
  BY DEF LoopInv, CallShape
<1>3. QED
  BY <1>1, <1>2 DEF LoopInv

\* A step that leaves entity and verdicts alone, and lets no request begin
\* to owe a payee or take hold of its counters, keeps the invariant.
LEMMA QuietKeepsCounts ==
  ASSUME LoopInv, CountInv, UNCHANGED <<entity, filed, raced>>,
         \A v \in Handler : \/ call'[v] = call[v]
                            \/ /\ call'[v].pc \notin Holding
                               /\ \A r \in Recipient : Owes(v, r)' => Owes(v, r)
  PROVE  CountInv'
<1>1. FiledOK' /\ HeldWithin'
  BY DEF CountInv, FiledOK, HeldWithin
<1>2. ASSUME NEW r \in Recipient \ raced PROVE Exact(r)'
  <2>1. Exact(r)
    BY DEF CountInv
  <2>2. \A v \in Handler : Owes(v, r)' => Owes(v, r)
    BY DEF Owes
  <2>3. QED
    BY <2>1, <2>2 DEF Exact, Alone
<1>3. QED
  BY <1>1, <1>2 DEF CountInv

\* A request that arrives while another is updating its payee marks the race.
LEMMA PostKeepsCounts ==
  ASSUME LoopInv, CountInv, NEW w \in Handler, NEW b \in Body, Post(w, b)
  PROVE  CountInv'
<1>1. PICK rate : call' = [call EXCEPT ![w] = [pc |-> "log", body |-> b, rate |-> rate]]
  BY DEF Post
<1>2. UNCHANGED <<entity, filed>> /\ call[w] = Idle
  BY DEF Post
<1>3. /\ call'[w] = [pc |-> "log", body |-> b, rate |-> rate]
      /\ \A v \in Handler \ {w} : call'[v] = call[v]
  BY <1>1 DEF LoopInv
<1>4. FiledOK' /\ HeldWithin'
  BY <1>2, <1>3 DEF CountInv, FiledOK, HeldWithin, Holding
<1>5. ASSUME NEW r \in Recipient \ raced' PROVE Exact(r)'
  <2>1. r \notin raced /\ (r = b.recipient => UpdatingNow(r) = {})
    BY <1>5 DEF Post
  <2>2. Exact(r)
    BY <2>1 DEF CountInv
  <2>3. \A v \in Handler \ {w} : Owes(v, r)' <=> Owes(v, r)
    BY <1>3 DEF Owes
  <2>4. Owes(w, r)' => \A v \in Handler : ~Owes(v, r)
    BY <1>3, <2>1 DEF Owes, UpdatingNow
  <2>5. QED
    BY <1>2, <1>3, <2>2, <2>3, <2>4 DEF Exact, Alone, Holding
<1>6. QED
  BY <1>4, <1>5 DEF CountInv

\* A request past its first stages is about a payee of its own.
LEMMA PaidBody ==
  ASSUME LoopInv, NEW w \in Handler, call[w].pc \in {"entity", "create", "patch"}
  PROVE  /\ call[w] # Idle /\ call[w].body \in Body
         /\ call[w].body.recipient \in Recipient
         /\ call[w].pc \in Holding => call[w].before \in Tally
<1>1. call[w] \in CallShape /\ call[w] # Idle
  BY DEF LoopInv, Idle
<1>2. call[w].body \in Body
  BY <1>1 DEF CallShape
<1>3. call[w].body.recipient \in Recipient
  BY <1>2 DEF LoopInv, Paid, FeedbackAssumption
<1>4. call[w].pc \in Holding => call[w].before \in Tally
  BY <1>1 DEF CallShape, Holding, Early, Late
<1>5. QED
  BY <1>1, <1>2, <1>3, <1>4

\* What a request reads of a payee is what was filed, if nobody overlaps it.
LEMMA GetEntityKeepsCounts ==
  ASSUME LoopInv, CountInv, NEW w \in Handler, GetEntity(w)
  PROVE  CountInv'
<1> DEFINE r == call[w].body.recipient
           held == entity[r]
           before == IF held = NoEntity THEN Untouched ELSE [tx |-> held.tx, fraud |-> held.fraud]
           c == [pc |-> IF held = NoEntity THEN "create" ELSE "patch",
                 body |-> call[w].body, rate |-> call[w].rate, before |-> before]
<1>1. call[w].pc = "entity" /\ call' = [call EXCEPT ![w] = c]
  BY DEF GetEntity
<1>2. call[w] # Idle /\ r \in Recipient
  BY <1>1, PaidBody
<1>3. UNCHANGED <<entity, filed, raced>>
  BY DEF GetEntity, loopVarsButCall
<1>4. call'[w] = c /\ \A v \in Handler \ {w} : call'[v] = call[v]
  BY <1>1 DEF LoopInv
<1>5. /\ c.body = call[w].body /\ c.before = before
      /\ c.pc = (IF held = NoEntity THEN "create" ELSE "patch")
      /\ c # Idle
  BY DEF Idle
<1>6. IF held = NoEntity THEN Same(before, filed[r]) /\ Same(Untouched, filed[r])
                         ELSE Same(before, held)
  BY <1>2 DEF CountInv, FiledOK, Same
<1>7. Within(before, filed[r])
  BY <1>2, <1>6 DEF CountInv, FiledOK, Within, Same
<1> HIDE DEF c, before
<1>8. FiledOK' /\ HeldWithin'
  <2>1. FiledOK'
    BY <1>3 DEF CountInv, FiledOK
  <2>2. ASSUME NEW v \in Handler, call'[v].pc \in Holding
        PROVE  Within(call'[v].before, filed[call'[v].body.recipient])
    <3>1. CASE v = w
      BY <1>4, <1>5, <1>7, <3>1
    <3>2. CASE v # w
      BY <1>4, <2>2, <3>2 DEF CountInv, HeldWithin
    <3>3. QED
      BY <3>1, <3>2
  <2>3. QED
    BY <1>3, <2>1, <2>2 DEF HeldWithin
<1>9. ASSUME NEW q \in Recipient \ raced' PROVE Exact(q)'
  <2>1. Exact(q)
    BY <1>3 DEF CountInv
  <2>2. \A v \in Handler : Owes(v, q)' => Owes(v, q)
    BY <1>1, <1>2, <1>4, <1>5 DEF Owes, Updating
  <2>3. Alone(q)'
    BY <2>1, <2>2 DEF Exact, Alone
  <2>4. ASSUME NEW v \in Handler, Owes(v, q)', call'[v].pc \in Holding
        PROVE  /\ Same(call'[v].before, filed[q])
               /\ call'[v].pc = "create" => Same(Untouched, filed[q])
    <3>1. CASE v = w
      <4>1. q = r
        BY <1>4, <1>5, <2>4, <3>1 DEF Owes
      <4>2. QED
        BY <1>4, <1>5, <1>6, <2>1, <3>1, <4>1 DEF Exact, Same
    <3>2. CASE v # w
      BY <1>4, <2>1, <2>2, <2>4, <3>2 DEF Exact
    <3>3. QED
      BY <3>1, <3>2
  <2>5. QED
    BY <1>3, <2>1, <2>3, <2>4 DEF Exact
<1>10. QED
  BY <1>8, <1>9 DEF CountInv

\* The zeros a request merges over the entity it did not find are exact when
\* nothing was filed, and behind what was filed when something was.
LEMMA CreateKeepsCounts ==
  ASSUME LoopInv, CountInv, NEW w \in Handler, CreateEntity(w)
  PROVE  CountInv'
<1>1. PICK r \in Recipient : /\ call[w].body.recipient = r /\ call[w].pc = "create"
                             /\ call[w] # Idle
  BY PaidBody DEF CreateEntity
<1>2. PICK e : /\ entity' = [entity EXCEPT ![r] = e]
               /\ e = [tx |-> 0, fraud |-> 0, rate |-> entity[r].rate]
  BY <1>1 DEF CreateEntity
<1>3. Same(e, Untouched) /\ e # NoEntity
  BY <1>2 DEF Same, Untouched, NoEntity
<1>4. /\ entity'[r] = e
      /\ \A q \in Recipient \ {r} : entity'[q] = entity[q]
  BY <1>2 DEF LoopInv
<1>5. UNCHANGED <<filed, raced>>
  BY DEF CreateEntity
<1>6. /\ call'[w].pc = "patch" /\ call'[w].body = call[w].body
      /\ call'[w].before = call[w].before
      /\ \A v \in Handler \ {w} : call'[v] = call[v]
  <2>1. call[w] \in CallShape
    BY DEF LoopInv
  <2>2. call[w] \in [pc: Late \cup {"create", "patch"}, body: Body, rate: Rate, before: Tally]
    BY <1>1, <2>1 DEF CallShape, Early, Late, Idle
  <2>3. call' = [call EXCEPT ![w] = [call[w] EXCEPT !.pc = "patch"]]
    BY DEF CreateEntity, Goto
  <2>4. QED
    BY <2>2, <2>3 DEF LoopInv
<1>7. FiledOK'
  <2>1. filed[r] \in [tx: Nat, fraud: Nat]
    BY DEF CountInv, FiledOK
  <2>2. Within(e, filed[r])
    BY <1>3, <2>1 DEF Within, Same, Untouched
  <2>3. QED
    BY <1>3, <1>4, <1>5, <2>2 DEF CountInv, FiledOK
<1>8. HeldWithin'
  BY <1>1, <1>5, <1>6 DEF CountInv, HeldWithin, Holding
<1>9. ASSUME NEW q \in Recipient \ raced PROVE Exact(q)'
  <2>1. Exact(q)
    BY DEF CountInv
  <2>2. \A v \in Handler : Owes(v, q)' => Owes(v, q)
    BY <1>1, <1>6 DEF Owes, Updating
  <2>3. Alone(q)'
    BY <2>1, <2>2 DEF Exact, Alone
  <2>4. entity'[q] # NoEntity => Same(entity'[q], filed[q])
    <3>1. CASE q = r
      <4>1. Owes(w, r)
        BY <1>1 DEF Owes, Updating
      <4>2. Same(Untouched, filed[r])
        BY <1>1, <2>1, <3>1, <4>1 DEF Exact, Holding
      <4>3. QED
        BY <1>3, <1>4, <3>1, <4>2 DEF Same
    <3>2. CASE q # r
      BY <1>4, <2>1, <3>2 DEF Exact
    <3>3. QED
      BY <3>1, <3>2
  <2>5. ASSUME NEW v \in Handler, Owes(v, q)', call'[v].pc \in Holding
        PROVE  /\ Same(call'[v].before, filed[q])
               /\ call'[v].pc = "create" => Same(Untouched, filed[q])
    <3>1. CASE v = w
      BY <1>1, <1>6, <2>1, <2>2, <2>5, <3>1 DEF Exact, Holding
    <3>2. CASE v # w
      BY <1>6, <2>1, <2>2, <2>5, <3>2 DEF Exact
    <3>3. QED
      BY <3>1, <3>2
  <2>6. QED
    BY <1>5, <2>3, <2>4, <2>5 DEF Exact
<1>10. QED
  BY <1>5, <1>7, <1>8, <1>9 DEF CountInv

\* A verdict adds one to what was read and one to what was filed.
LEMMA TalliedKeeps ==
  ASSUME NEW t \in [tx: Nat, fraud: Nat], NEW f \in [tx: Nat, fraud: Nat], NEW b
  PROVE  /\ Within(t, f) => Within(Tallied(t, b), Tallied(f, b))
         /\ Same(t, f) => Same(Tallied(t, b), Tallied(f, b))
         /\ Within(f, Tallied(f, b)) /\ Tallied(f, b) \in [tx: Nat, fraud: Nat]
BY DEF Within, Same, Tallied, FraudOf

LEMMA UpdateKeepsCounts ==
  ASSUME LoopInv, CountInv, NEW w \in Handler, UpdateReputation(w)
  PROVE  CountInv'
<1>1. PICK r \in Recipient : /\ call[w].body.recipient = r /\ call[w].pc = "patch"
                             /\ call[w] # Idle /\ call[w].before \in Tally
  BY PaidBody DEF UpdateReputation, Holding
<1>2. /\ call'[w].pc = "feedback"
      /\ \A v \in Handler \ {w} : call'[v] = call[v]
      /\ UNCHANGED raced
  <2>1. call' = [call EXCEPT ![w] = [call[w] EXCEPT !.pc = "feedback"]] /\ UNCHANGED raced
    BY DEF UpdateReputation, Goto
  <2>2. call[w] \in [pc: Late \cup {"create", "patch"}, body: Body, rate: Rate, before: Tally]
    BY <1>1 DEF LoopInv, CallShape, Early, Late, Idle
  <2>3. QED
    BY <2>1, <2>2 DEF LoopInv
<1>3. \A q \in Recipient : \A v \in Handler : Owes(v, q)' => v # w /\ Owes(v, q)
  BY <1>2 DEF Owes, Updating
<1>4. CASE ~IsVerdict(call[w].body)
  <2>1. UNCHANGED <<entity, filed>>
    BY <1>4 DEF UpdateReputation
  <2>2. QED
    BY <1>2, <1>3, <2>1, QuietKeepsCounts DEF Holding
<1>5. CASE IsVerdict(call[w].body)
  <2>1. PICK b, before : b = call[w].body /\ before = call[w].before /\ before \in Tally
    BY <1>1
  <2>2. PICK e, f : /\ e = Patched(entity[r], call[w]) /\ f = Tallied(filed[r], b)
                    /\ entity' = [entity EXCEPT ![r] = e]
                    /\ filed' = [filed EXCEPT ![r] = f]
    BY <1>1, <1>5, <2>1 DEF UpdateReputation
  <2>3. Same(e, Tallied(before, b)) /\ e.tx # NoEntity.tx
    BY <2>1, <2>2 DEF Patched, Same, Tallied, Tally, NoEntity
  <2>4. filed[r] \in [tx: Nat, fraud: Nat] /\ before \in [tx: Nat, fraud: Nat]
    BY <2>1 DEF CountInv, FiledOK, Tally
  <2>5. /\ f \in [tx: Nat, fraud: Nat] /\ Within(filed[r], f)
        /\ Within(e, f)
        /\ Same(before, filed[r]) => Same(e, f)
    <3>1. Within(before, filed[r])
      BY <1>1, <2>1 DEF CountInv, HeldWithin, Holding
    <3>2. QED
      BY <2>2, <2>3, <2>4, <3>1, TalliedKeeps DEF Same, Within
  <2>6. /\ entity'[r] = e /\ \A q \in Recipient \ {r} : entity'[q] = entity[q]
        /\ filed'[r] = f /\ \A q \in Recipient \ {r} : filed'[q] = filed[q]
        /\ filed' \in [Recipient -> [tx: Nat, fraud: Nat]]
    BY <2>2, <2>5 DEF LoopInv, CountInv, FiledOK
  <2>7. FiledOK'
    BY <2>3, <2>5, <2>6 DEF CountInv, FiledOK
  <2>8. HeldWithin'
    <3> SUFFICES ASSUME NEW v \in Handler, call'[v].pc \in Holding
                 PROVE  Within(call'[v].before, filed'[call'[v].body.recipient])
      BY DEF HeldWithin
    <3>1. v # w /\ call'[v] = call[v]
      BY <1>2 DEF Holding
    <3>2. /\ Within(call[v].before, filed[call[v].body.recipient])
          /\ call[v].body.recipient \in Recipient /\ call[v].before \in Tally
      BY <3>1, PaidBody DEF CountInv, HeldWithin, Holding
    <3>3. CASE call[v].body.recipient = r
      BY <2>4, <2>5, <2>6, <3>1, <3>2, <3>3 DEF Within, Tally
    <3>4. CASE call[v].body.recipient # r
      BY <2>6, <3>1, <3>2, <3>4
    <3>5. QED
      BY <3>3, <3>4
  <2>9. ASSUME NEW q \in Recipient \ raced PROVE Exact(q)'
    <3>1. Exact(q)
      BY DEF CountInv
    <3>2. Alone(q)'
      BY <1>3, <3>1 DEF Exact, Alone
    <3>3. CASE q = r
      <4>1. Owes(w, r)
        BY <1>1 DEF Owes, Updating
      <4>2. \A v \in Handler : ~Owes(v, r)'
        BY <1>3, <3>1, <3>3, <4>1 DEF Exact, Alone
      <4>3. Same(e, f)
        BY <1>1, <2>1, <2>5, <3>1, <3>3, <4>1 DEF Exact, Holding
      <4>4. QED
        BY <2>6, <3>2, <3>3, <4>2, <4>3 DEF Exact
    <3>4. CASE q # r
      BY <1>2, <1>3, <2>6, <3>1, <3>2, <3>4 DEF Exact
    <3>5. QED
      BY <3>3, <3>4
  <2>10. QED
    BY <1>2, <2>7, <2>8, <2>9 DEF CountInv
<1>6. QED
  BY <1>4, <1>5

LEMMA ScoredFirstKeepsCounts ==
  ASSUME LoopInv, CountInv, NEW r \in Recipient, ScoredFirst(r)
  PROVE  CountInv'
<1>1. PICK e : /\ e = [tx |-> 0, fraud |-> 0, rate |-> NoRate]
               /\ entity' = [entity EXCEPT ![r] = e]
  BY DEF ScoredFirst
<1>2. Same(e, Untouched) /\ e # NoEntity
  BY <1>1 DEF Same, Untouched, NoEntity
<1>3. UNCHANGED <<call, filed, raced>> /\ Same(Untouched, filed[r])
  BY DEF ScoredFirst, CountInv, FiledOK
<1>4. entity'[r] = e /\ \A q \in Recipient \ {r} : entity'[q] = entity[q]
  BY <1>1 DEF LoopInv
<1>5. Same(e, filed[r]) /\ Within(e, filed[r])
  BY <1>2, <1>3 DEF Same, Within, Untouched
<1>6. FiledOK' /\ HeldWithin'
  BY <1>2, <1>3, <1>4, <1>5 DEF CountInv, FiledOK, HeldWithin
<1>7. \A q \in Recipient \ raced : Exact(q)'
  BY <1>3, <1>4, <1>5 DEF CountInv, Exact, Alone, Owes
<1>8. QED
  BY <1>3, <1>6, <1>7 DEF CountInv

\* The other steps of a request neither take hold of counters nor owe more.
LEMMA StageKeepsCounts ==
  ASSUME LoopInv, CountInv, NEW w \in Handler,
         \/ AppendLog(w) \/ ReadCount(w) \/ WriteCount(w) \/ AppendDisposition(w)
         \/ AppendFeedback(w) \/ QueueRetrain(w) \/ AddOutcomeLabel(w) \/ AddIntentLabel(w)
         \/ Answer(w) \/ StoreRaises(w)
  PROVE  CountInv'
<1>1. UNCHANGED <<entity, filed, raced>>
  <2>1. AppendFeedback(w) => UNCHANGED <<entity, filed, raced>>
    BY Zenon DEF AppendFeedback
  <2>2. QED
    BY <2>1 DEF AppendLog, ReadCount, WriteCount, AppendDisposition, QueueRetrain,
                AddOutcomeLabel, AddIntentLabel, Answer, StoreRaises, loopVarsButCall
<1>2. call[w] \in CallShape
  BY DEF LoopInv
<1>3. CASE Answer(w) \/ StoreRaises(w)
  <2>1. call' = [call EXCEPT ![w] = Idle]
    BY <1>3 DEF Answer, StoreRaises
  <2>2. call'[w] = Idle /\ \A v \in Handler \ {w} : call'[v] = call[v]
    BY <2>1 DEF LoopInv
  <2>3. QED
    BY <1>1, <2>2, QuietKeepsCounts DEF Owes, Idle, Holding
<1>4. CASE ReadCount(w)
  <2>1. /\ call[w].pc = "count" /\ call[w] # Idle
        /\ call'[w].pc = "write" /\ call'[w].body = call[w].body
        /\ \A v \in Handler \ {w} : call'[v] = call[v]
    BY <1>4 DEF ReadCount, LoopInv, Idle
  <2>2. QED
    BY <1>1, <2>1, QuietKeepsCounts DEF Owes, Updating, Holding
<1>5. CASE AppendLog(w) \/ WriteCount(w) \/ AppendDisposition(w)
  <2>1. PICK pc \in {"count", "event", "entity", "feedback"} : Goto(w, pc)
    BY <1>5 DEF AppendLog, WriteCount, AppendDisposition
  <2>2. call[w].pc \in {"log", "write", "event"} /\ call[w] # Idle
    BY <1>5 DEF AppendLog, WriteCount, AppendDisposition, Idle
  <2>3. /\ call'[w].pc = pc /\ call'[w].body = call[w].body
        /\ \A v \in Handler \ {w} : call'[v] = call[v]
    BY <1>2, <2>1, <2>2, GotoMoves
  <2>4. QED
    BY <1>1, <2>1, <2>2, <2>3, QuietKeepsCounts DEF Owes, Updating, Holding
<1>6. CASE AppendFeedback(w) \/ QueueRetrain(w) \/ AddOutcomeLabel(w) \/ AddIntentLabel(w)
  <2>1. PICK pc \in {"queue", "label", "intent", "answer"} : Goto(w, pc)
    <3>1. AppendFeedback(w) => Goto(w, AfterTrail(call[w].body))
      BY Zenon DEF AppendFeedback
    <3>2. AfterTrail(call[w].body) \in {"queue", "intent", "answer"}
      BY DEF AfterTrail
    <3>3. QED
      BY <1>6, <3>1, <3>2 DEF QueueRetrain, AddOutcomeLabel, AddIntentLabel
  <2>2. call[w] # Idle
    <3>1. AppendFeedback(w) => call[w].pc = "feedback"
      BY Zenon DEF AppendFeedback
    <3>2. call[w].pc \in {"feedback", "queue", "label", "intent"}
      BY <1>6, <3>1, Zenon DEF QueueRetrain, AddOutcomeLabel, AddIntentLabel
    <3>3. QED
      BY <3>2 DEF Idle
  <2>3. call'[w].pc = pc /\ \A v \in Handler \ {w} : call'[v] = call[v]
    BY <1>2, <2>1, <2>2, GotoMoves
  <2>4. QED
    BY <1>1, <2>1, <2>3, QuietKeepsCounts DEF Owes, Updating, Holding
<1>7. QED
  BY <1>3, <1>4, <1>5, <1>6

LEMMA NextKeepsCounts ==
  ASSUME LoopInv, CountInv, [LoopNext]_vars
  PROVE  CountInv'
<1>1. CASE Restart
  <2>1. /\ UNCHANGED <<entity, filed, raced>>
        /\ \A v \in Handler : call'[v] = Idle
    BY <1>1 DEF Restart
  <2>2. QED
    BY <2>1, QuietKeepsCounts DEF Owes, Idle, Holding
<1>2. CASE UNCHANGED vars
  BY <1>2, QuietKeepsCounts DEF vars, loopVars
<1>3. ASSUME NEW w \in Handler, Step(w) PROVE CountInv'
  BY <1>3, PostKeepsCounts, GetEntityKeepsCounts, CreateKeepsCounts, UpdateKeepsCounts,
     StageKeepsCounts DEF Step
<1>4. QED
  BY <1>1, <1>2, <1>3, ScoredFirstKeepsCounts, LoopNextCases

\* A disposition moves its payee's durable counters by one and never by more,
\* and where no two requests about a payee overlapped the counters are exact,
\* for any number of handlers, requests, failed writes and restarts.
THEOREM CountersAreExact == LoopSpec => []DispositionsCounted
<1>1. LoopInit => CountInv
  BY InitCountInv
<1>2. LoopInv /\ CountInv /\ [LoopNext]_vars => CountInv'
  BY NextKeepsCounts
<1>3. CountInv => DispositionsCounted
  BY DEF CountInv, FiledOK, Exact, Within, Same, DispositionsCounted
<1>4. QED
  BY <1>1, <1>2, <1>3, LoopInductive, PTL DEF LoopSpec

-----------------------------------------------------------------------------
(* Revisions supersede, they do not overwrite: every receipt, and every     *)
(* verdict labelled but not yet answered, has a label of its own.           *)

Given(t, s) == {i \in Outcomes(t) : labels[i].source = s}

\* Requests whose outcome label is written and whose receipt is not.
Pending(t, s) ==
    {w \in Handler : /\ call[w] # Idle /\ call[w].pc \in {"intent", "answer"}
                     /\ IsVerdict(call[w].body) /\ call[w].body.transaction = t
                     /\ outcome_source(call[w].body.source) = s}

ReceiptInv ==
    /\ receipts \in [Subject \X Source -> Nat]
    /\ \A t \in Subject, s \in Source :
          Cardinality(Given(t, s)) >= receipts[<<t, s>>] + Cardinality(Pending(t, s))

LEMMA GivenFinite ==
  ASSUME TypeOK, NEW t, NEW s
  PROVE  /\ IsFiniteSet(Given(t, s)) /\ Cardinality(Given(t, s)) \in Nat
         /\ IsFiniteSet(Pending(t, s)) /\ Cardinality(Pending(t, s)) \in Nat
<1>1. Len(labels) \in Nat /\ Given(t, s) \subseteq 1..Len(labels)
  BY LabelRows DEF Given, Outcomes
<1>2. IsFiniteSet(1..Len(labels))
  BY <1>1, FS_Interval
<1>3. Pending(t, s) \subseteq Handler /\ IsFiniteSet(Handler)
  BY DEF Pending
<1>4. QED
  BY <1>1, <1>2, <1>3, FS_Subset, FS_CardinalityType

\* Rows stay, so what was given stays given.
LEMMA GivenStays ==
  ASSUME TypeOK', RowsKept, NEW t, NEW s
  PROVE  /\ Given(t, s) \subseteq Given(t, s)'
         /\ IsFiniteSet(Given(t, s)')
<1>1. Given(t, s) \subseteq Given(t, s)'
  BY DEF RowsKept, Given, Outcomes
<1>2. PICK n \in Nat : DOMAIN labels' = 1..n
  BY LenProperties DEF TypeOK
<1>3. Given(t, s)' \subseteq 1..n /\ IsFiniteSet(1..n)
  BY <1>2, FS_Interval DEF Given, Outcomes
<1>4. QED
  BY <1>1, <1>3, FS_Subset

\* A step that answers nobody keeps every receipt backed, unless it labels.
LEMMA ReceiptsStay ==
  ASSUME TypeOK, TypeOK', RowsKept, ReceiptInv, NEW t \in Subject, NEW s \in Source,
         receipts'[<<t, s>>] = receipts[<<t, s>>],
         Pending(t, s)' \subseteq Pending(t, s)
  PROVE  Cardinality(Given(t, s)') >= receipts'[<<t, s>>] + Cardinality(Pending(t, s)')
<1>1. PICK given, given2, pending, pending2 :
        /\ given = Given(t, s) /\ given2 = Given(t, s)'
        /\ pending = Pending(t, s) /\ pending2 = Pending(t, s)'
  OBVIOUS
<1>2. /\ IsFiniteSet(given2) /\ given \subseteq given2
      /\ IsFiniteSet(pending) /\ pending2 \subseteq pending
  BY <1>1, GivenFinite, GivenStays
<1>3. /\ Cardinality(given) <= Cardinality(given2) /\ Cardinality(pending2) <= Cardinality(pending)
      /\ IsFiniteSet(given) /\ IsFiniteSet(pending2)
  BY <1>2, FS_Subset
<1>4. /\ Cardinality(given) \in Nat /\ Cardinality(given2) \in Nat
      /\ Cardinality(pending) \in Nat /\ Cardinality(pending2) \in Nat
  BY <1>2, <1>3, FS_CardinalityType
<1>5. Cardinality(given) >= receipts[<<t, s>>] + Cardinality(pending) /\ receipts[<<t, s>>] \in Nat
  BY <1>1 DEF ReceiptInv
<1>6. QED
  BY <1>1, <1>3, <1>4, <1>5

\* The label a verdict is given is one more of its source.
LEMMA LabelBacksReceipt ==
  ASSUME LoopInv, TypeOK, TypeOK', RowsKept, ReceiptInv, NEW w \in Handler, AddOutcomeLabel(w)
  PROVE  ReceiptInv'
<1>1. call[w].pc = "label" /\ call[w] # Idle /\ UNCHANGED receipts
  BY DEF AddOutcomeLabel, Idle, loopVarsButCall
<1>2. PICK b \in Body : b = call[w].body
  BY <1>1 DEF LoopInv, CallShape
<1>3. /\ call'[w].pc \in {"intent", "answer"} /\ call'[w].body = b
      /\ \A v \in Handler \ {w} : call'[v] = call[v]
  <2>1. PICK pc \in {"intent", "answer"} : Goto(w, pc)
    BY DEF AddOutcomeLabel
  <2>2. QED
    BY <1>1, <1>2, <2>1, GotoMoves
<1>4. add_label(b.transaction, NoDecision, OutcomeTarget, outcome_source(b.source), b.fact, FALSE)
  BY <1>2 DEF AddOutcomeLabel
<1>5. PICK n : n = Len(labels) + 1
  OBVIOUS
<1>6. /\ n \in DOMAIN labels' /\ n \notin DOMAIN labels
      /\ labels'[n].subject = b.transaction /\ labels'[n].target = OutcomeTarget
      /\ labels'[n].source = outcome_source(b.source)
  <2>1. PICK tx, source, fact :
          tx = b.transaction /\ source = outcome_source(b.source) /\ fact = b.fact
    OBVIOUS
  <2>2. add_label(tx, NoDecision, OutcomeTarget, source, fact, FALSE)
    BY <1>4, <2>1
  <2>3. n \notin DOMAIN labels
    BY <1>5, LabelRows
  <2>4. QED
    BY <1>5, <2>1, <2>2, <2>3, AddLabelWrites
<1>7. ASSUME NEW t \in Subject, NEW s \in Source
      PROVE  Cardinality(Given(t, s)') >= receipts'[<<t, s>>] + Cardinality(Pending(t, s)')
  <2>1. CASE t = b.transaction /\ s = outcome_source(b.source)
    <3>1. PICK given, given2, pending, pending2 :
            /\ given = Given(t, s) /\ given2 = Given(t, s)'
            /\ pending = Pending(t, s) /\ pending2 = Pending(t, s)'
      OBVIOUS
    <3>2. n \notin given /\ given \cup {n} \subseteq given2 /\ IsFiniteSet(given2)
      <4>1. n \notin given
        BY <1>6, <3>1 DEF Given, Outcomes
      <4>2. n \in Given(t, s)'
        BY <1>6, <2>1 DEF Given, Outcomes
      <4>3. QED
        BY <3>1, <4>1, <4>2, GivenStays
    <3>3. w \notin pending /\ pending2 \subseteq pending \cup {w}
      BY <1>1, <1>3, <3>1 DEF Pending
    <3>4. IsFiniteSet(given) /\ IsFiniteSet(pending)
      BY <3>1, GivenFinite
    <3>5. /\ Cardinality(given \cup {n}) = Cardinality(given) + 1
          /\ Cardinality(pending \cup {w}) = Cardinality(pending) + 1
          /\ IsFiniteSet(pending \cup {w})
      BY <3>2, <3>3, <3>4, FS_AddElement
    <3>6. /\ Cardinality(given \cup {n}) <= Cardinality(given2)
          /\ Cardinality(pending2) <= Cardinality(pending \cup {w})
          /\ IsFiniteSet(pending2)
      BY <3>2, <3>3, <3>5, FS_Subset
    <3>7. /\ Cardinality(given) \in Nat /\ Cardinality(given2) \in Nat
          /\ Cardinality(pending) \in Nat /\ Cardinality(pending2) \in Nat
      BY <3>2, <3>4, <3>6, FS_CardinalityType
    <3>8. /\ Cardinality(given) >= receipts[<<t, s>>] + Cardinality(pending)
          /\ receipts[<<t, s>>] \in Nat
      BY <3>1 DEF ReceiptInv
    <3>9. QED
      BY <1>1, <3>1, <3>5, <3>6, <3>7, <3>8
  <2>2. CASE ~(t = b.transaction /\ s = outcome_source(b.source))
    <3>1. Pending(t, s)' \subseteq Pending(t, s)
      BY <1>3, <2>2 DEF Pending
    <3>2. QED
      BY <1>1, <3>1, ReceiptsStay
  <2>3. QED
    BY <2>1, <2>2
<1>8. QED
  BY <1>1, <1>7 DEF ReceiptInv

\* A receipt takes the place of the request that was owed it.
LEMMA AnswerBacksReceipt ==
  ASSUME LoopInv, TypeOK, TypeOK', RowsKept, ReceiptInv, NEW w \in Handler, Answer(w)
  PROVE  ReceiptInv'
<1>1. call[w].pc = "answer" /\ call[w] # Idle /\ UNCHANGED labels
  BY DEF Answer, Idle, storeVars
<1>2. PICK b \in Body : b = call[w].body
  BY <1>1 DEF LoopInv, CallShape
<1>3. call'[w] = Idle /\ \A v \in Handler \ {w} : call'[v] = call[v]
  BY DEF Answer, LoopInv
<1>4. PICK c : c = <<b.transaction, outcome_source(b.source)>>
  OBVIOUS
<1>5. c \in Subject \X Source
  BY <1>4 DEF FeedbackAssumption
<1>6. receipts' = IF IsVerdict(b) THEN [receipts EXCEPT ![c] = receipts[c] + 1] ELSE receipts
  BY <1>2, <1>4 DEF Answer
<1>7. receipts' \in [Subject \X Source -> Nat]
  BY <1>5, <1>6 DEF ReceiptInv
<1>8. ASSUME NEW t \in Subject, NEW s \in Source
      PROVE  Cardinality(Given(t, s)') >= receipts'[<<t, s>>] + Cardinality(Pending(t, s)')
  <2>1. Pending(t, s)' = Pending(t, s) \ {w}
    BY <1>3 DEF Pending
  <2>2. CASE IsVerdict(b) /\ <<t, s>> = c
    <3>1. PICK given, pending : given = Given(t, s) /\ pending = Pending(t, s)
      OBVIOUS
    <3>2. Given(t, s)' = given
      BY <1>1, <3>1 DEF Given, Outcomes
    <3>3. w \in pending
      BY <1>1, <1>2, <1>4, <2>2, <3>1 DEF Pending
    <3>4. IsFiniteSet(pending) /\ Cardinality(pending) \in Nat /\ Cardinality(given) \in Nat
      BY <3>1, GivenFinite
    <3>5. Cardinality(pending \ {w}) = Cardinality(pending) - 1
      BY <3>3, <3>4, FS_RemoveElement
    <3>6. /\ Cardinality(given) >= receipts[<<t, s>>] + Cardinality(pending)
          /\ receipts[<<t, s>>] \in Nat
      BY <3>1 DEF ReceiptInv
    <3>7. receipts'[<<t, s>>] = receipts[<<t, s>>] + 1
      BY <1>5, <1>6, <2>2 DEF ReceiptInv
    <3>8. QED
      BY <2>1, <3>1, <3>2, <3>4, <3>5, <3>6, <3>7
  <2>3. CASE ~(IsVerdict(b) /\ <<t, s>> = c)
    <3>1. receipts'[<<t, s>>] = receipts[<<t, s>>]
      BY <1>5, <1>6, <2>3 DEF ReceiptInv
    <3>2. QED
      BY <2>1, <3>1, ReceiptsStay
  <2>4. QED
    BY <2>2, <2>3
<1>9. QED
  BY <1>7, <1>8 DEF ReceiptInv

LEMMA StepBacksReceipts ==
  ASSUME LoopInv, TypeOK, TypeOK', RowsKept, ReceiptInv, [LoopNext]_vars
  PROVE  ReceiptInv'
<1>1. ASSUME UNCHANGED receipts,
             \A v \in Handler : \/ call'[v] = call[v]
                                \/ call'[v] = Idle
                                \/ call'[v].pc \notin {"intent", "answer"}
                                \/ /\ call[v].pc = "intent" /\ call[v] # Idle
                                   /\ call'[v].body = call[v].body
                                \/ ~IsVerdict(call'[v].body)
      PROVE  ReceiptInv'
  <2>1. ASSUME NEW t \in Subject, NEW s \in Source PROVE Pending(t, s)' \subseteq Pending(t, s)
    BY <1>1 DEF Pending
  <2>2. \A t \in Subject, s \in Source :
          Cardinality(Given(t, s)') >= receipts'[<<t, s>>] + Cardinality(Pending(t, s)')
    BY <1>1, <2>1, ReceiptsStay
  <2>3. QED
    BY <1>1, <2>2 DEF ReceiptInv
<1>2. CASE Restart \/ (\E r \in Recipient : ScoredFirst(r)) \/ UNCHANGED vars
  BY <1>1, <1>2 DEF Restart, ScoredFirst, vars, loopVars
<1>3. ASSUME NEW w \in Handler, Step(w) PROVE ReceiptInv'
  <2>1. CASE (\E b \in Body : Post(w, b)) \/ StoreRaises(w)
    BY <1>1, <2>1 DEF Post, StoreRaises, LoopInv
  <2>2. CASE AppendLog(w) \/ WriteCount(w) \/ AppendDisposition(w) \/ CreateEntity(w)
             \/ UpdateReputation(w) \/ QueueRetrain(w)
    <3>1. PICK pc \in {"count", "event", "entity", "feedback", "patch", "label"} : Goto(w, pc)
      BY <2>2 DEF AppendLog, WriteCount, AppendDisposition, CreateEntity, UpdateReputation,
                  QueueRetrain
    <3>2. UNCHANGED receipts
      BY <2>2 DEF AppendLog, WriteCount, AppendDisposition, CreateEntity, UpdateReputation,
                  QueueRetrain
    <3>3. call[w] # Idle
      BY <2>2 DEF AppendLog, WriteCount, AppendDisposition, CreateEntity, UpdateReputation,
                  QueueRetrain, Idle
    <3>4. call'[w].pc = pc /\ \A v \in Handler \ {w} : call'[v] = call[v]
      BY <3>1, <3>3, GotoMoves
    <3>5. QED
      BY <1>1, <3>1, <3>2, <3>4
  <2>3. CASE ReadCount(w)
    BY <1>1, <2>3 DEF ReadCount, LoopInv, loopVarsButCall
  <2>4. CASE GetEntity(w)
    <3>1. call'[w].pc \in {"create", "patch"} /\ \A v \in Handler \ {w} : call'[v] = call[v]
      BY <2>4 DEF GetEntity, LoopInv
    <3>2. QED
      BY <1>1, <2>4, <3>1 DEF GetEntity, loopVarsButCall
  <2>5. CASE AppendFeedback(w)
    <3>1. Goto(w, AfterTrail(call[w].body)) /\ UNCHANGED receipts /\ call[w].pc = "feedback"
      BY <2>5, Zenon DEF AppendFeedback
    <3>2. /\ call'[w].pc = AfterTrail(call[w].body) /\ call'[w].body = call[w].body
          /\ \A v \in Handler \ {w} : call'[v] = call[v]
      BY <3>1, GotoMoves DEF Idle
    <3>3. IsVerdict(call[w].body) => AfterTrail(call[w].body) = "queue"
      BY DEF AfterTrail
    <3>4. QED
      BY <1>1, <3>1, <3>2, <3>3
  <2>6. CASE AddIntentLabel(w)
    <3>1. call[w].pc = "intent" /\ call[w] # Idle /\ Goto(w, "answer") /\ UNCHANGED receipts
      BY <2>6 DEF AddIntentLabel, loopVarsButCall, Idle
    <3>2. /\ call'[w].body = call[w].body
          /\ \A v \in Handler \ {w} : call'[v] = call[v]
      BY <3>1, GotoMoves
    <3>3. QED
      BY <1>1, <3>1, <3>2
  <2>7. CASE AddOutcomeLabel(w) \/ Answer(w)
    BY <2>7, LabelBacksReceipt, AnswerBacksReceipt
  <2>8. QED
    BY <1>3, <2>1, <2>2, <2>3, <2>4, <2>5, <2>6, <2>7 DEF Step
<1>4. QED
  BY <1>2, <1>3, LoopNextCases

\* Revisions supersede rather than overwrite: as many outcome labels of a
\* source as it was given receipts are in the history of the transaction,
\* however many handlers revise it at once and wherever they are stopped.
THEOREM RevisionsAreKept == LoopSpec => []NoDispositionLost
<1>1. LoopInit => ReceiptInv
  <2> SUFFICES ASSUME LoopInit PROVE ReceiptInv
    OBVIOUS
  <2>1. receipts \in [Subject \X Source -> Nat]
        /\ \A t \in Subject, s \in Source : receipts[<<t, s>>] = 0
    BY DEF LoopInit
  <2>2. \A t, s : Pending(t, s) = {} /\ Given(t, s) = {}
    BY EmptySeq DEF LoopInit, Init, Pending, Given, Outcomes
  <2>3. \A t, s : Cardinality(Given(t, s)) = 0 /\ Cardinality(Pending(t, s)) = 0
    BY <2>2, FS_EmptySet
  <2>4. QED
    BY <2>1, <2>3 DEF ReceiptInv
<1>2. LoopInv /\ IInv /\ IInv' /\ ReceiptInv /\ [LoopNext]_vars => ReceiptInv'
  BY StepIsStoreStep, StepKeepsRows, StepBacksReceipts DEF IInv
<1>3. IInv /\ ReceiptInv => NoDispositionLost
  <2> SUFFICES ASSUME IInv, ReceiptInv, NEW t \in Subject, NEW s \in Source
               PROVE  Cardinality(Given(t, s)) >= receipts[<<t, s>>]
    BY DEF NoDispositionLost, Given
  <2>1. Cardinality(Given(t, s)) \in Nat /\ Cardinality(Pending(t, s)) \in Nat
    BY GivenFinite DEF IInv
  <2>2. QED
    BY <2>1 DEF ReceiptInv
<1>4. QED
  BY <1>1, <1>2, <1>3, LoopInductive, LoopUsesTheStore, Inductive, PTL DEF LoopSpec

-----------------------------------------------------------------------------
(* The tally promises no example the log does not hold.  It is read and     *)
(* written back in two steps without a lock, so what a handler has read     *)
(* counts as much as the tally itself: neither, with all the requests that  *)
(* are logged and not yet tallied, exceeds the log.                         *)

\* Requests of a class that are logged and not yet tallied.
Uncounted(c) ==
    {w \in Handler : /\ call[w] # Idle /\ call[w].pc \in {"count", "write"}
                     /\ call[w].body.class = c}

\* What the tally of a class is, or will be taken to have been.
Readings(c) ==
    {counts[c]} \cup {call[w].read : w \in {v \in Uncounted(c) : call[v].pc = "write"}}

Entries(c) == logged[c] + unlogged[c]

Backed(c) == \A n \in Readings(c) : n + Cardinality(Uncounted(c)) <= Entries(c)

LogInv ==
    /\ unlogged \in [Class -> Nat]
    /\ \A c \in Class : Backed(c)

LEMMA TallyNumbers ==
  ASSUME LoopInv, LogInv, NEW c \in Class
  PROVE  /\ IsFiniteSet(Uncounted(c)) /\ Cardinality(Uncounted(c)) \in Nat
         /\ Readings(c) \subseteq Nat /\ Entries(c) \in Nat
<1>1. IsFiniteSet(Uncounted(c)) /\ Cardinality(Uncounted(c)) \in Nat
  BY FS_Subset, FS_CardinalityType DEF Uncounted
<1>2. ASSUME NEW v \in Uncounted(c), call[v].pc = "write" PROVE call[v].read \in Nat
  BY <1>2 DEF Uncounted, LoopInv, CallShape, Early, Late
<1>3. Readings(c) \subseteq Nat
  BY <1>2 DEF Readings, LoopInv
<1>4. Entries(c) \in Nat
  BY DEF Entries, LogInv, LoopInv
<1>5. QED
  BY <1>1, <1>3, <1>4

\* Nothing new read and nobody new to count.
LEMMA TallyStays ==
  ASSUME LoopInv, LogInv, NEW c \in Class,
         Readings(c)' \subseteq Readings(c), Uncounted(c)' \subseteq Uncounted(c),
         Entries(c)' = Entries(c)
  PROVE  Backed(c)'
<1>1. PICK waiting, waiting2 : waiting = Uncounted(c) /\ waiting2 = Uncounted(c)'
  OBVIOUS
<1>2. IsFiniteSet(waiting) /\ waiting2 \subseteq waiting
  BY <1>1, TallyNumbers
<1>3. /\ Cardinality(waiting2) \in Nat /\ Cardinality(waiting) \in Nat
      /\ Cardinality(waiting2) <= Cardinality(waiting)
  BY <1>2, FS_Subset, FS_CardinalityType
<1>4. ASSUME NEW n \in Readings(c)' PROVE n + Cardinality(waiting2) <= Entries(c)
  <2>1. n \in Nat /\ Entries(c) \in Nat /\ n + Cardinality(waiting) <= Entries(c)
    BY <1>1, TallyNumbers DEF LogInv, Backed
  <2>2. QED
    BY <1>3, <2>1
<1>5. QED
  BY <1>1, <1>4 DEF Backed

\* A step that neither logs nor tallies.
LEMMA QuietKeepsLog ==
  ASSUME LoopInv, LogInv, UNCHANGED <<counts, logged, unlogged>>,
         \A v \in Handler : \/ call'[v] = call[v]
                            \/ call'[v] = Idle
                            \/ call'[v].pc \notin {"count", "write"}
  PROVE  LogInv'
<1>1. ASSUME NEW c \in Class PROVE Backed(c)'
  <2>1. ASSUME NEW v \in Uncounted(c)' PROVE v \in Uncounted(c) /\ call'[v] = call[v]
    BY DEF Uncounted
  <2>2. Readings(c)' \subseteq Readings(c)
    BY <2>1 DEF Readings
  <2>3. Entries(c)' = Entries(c)
    BY DEF Entries
  <2>4. QED
    BY <2>1, <2>2, <2>3, TallyStays
<1>2. QED
  BY <1>1 DEF LogInv

\* A line in the log, or one that failed, makes room for the request.
LEMMA AppendLogKeepsLog ==
  ASSUME LoopInv, LogInv, NEW w \in Handler, AppendLog(w)
  PROVE  LogInv'
<1>1. call[w].pc = "log" /\ call[w] # Idle /\ Goto(w, "count") /\ UNCHANGED counts
  BY DEF AppendLog, Idle
<1>2. PICK k \in Class : k = call[w].body.class
  BY <1>1, ClassOfBody DEF LoopInv, CallShape
<1>3. /\ call'[w].pc = "count" /\ call'[w].body = call[w].body
      /\ \A v \in Handler \ {w} : call'[v] = call[v]
  BY <1>1, GotoMoves
<1>4. \/ /\ logged' = [logged EXCEPT ![k] = logged[k] + 1] /\ unlogged' = unlogged
      \/ /\ unlogged' = [unlogged EXCEPT ![k] = unlogged[k] + 1] /\ logged' = logged
  BY <1>2 DEF AppendLog
<1>5. unlogged' \in [Class -> Nat]
  BY <1>4 DEF LogInv
<1>6. ASSUME NEW c \in Class PROVE Backed(c)'
  <2>1. ASSUME NEW v \in Uncounted(c)', v # w PROVE v \in Uncounted(c) /\ call'[v] = call[v]
    BY <1>3, <2>1 DEF Uncounted
  <2>2. Readings(c)' \subseteq Readings(c)
    BY <1>1, <1>3, <2>1 DEF Readings
  <2>3. CASE c = k
    <3>1. PICK waiting, waiting2 : waiting = Uncounted(c) /\ waiting2 = Uncounted(c)'
      OBVIOUS
    <3>2. w \notin waiting /\ waiting2 \subseteq waiting \cup {w} /\ IsFiniteSet(waiting)
      BY <1>1, <2>1, <3>1, TallyNumbers DEF Uncounted
    <3>3. /\ Cardinality(waiting \cup {w}) = Cardinality(waiting) + 1
          /\ IsFiniteSet(waiting \cup {w}) /\ Cardinality(waiting) \in Nat
      BY <3>2, FS_AddElement, FS_CardinalityType
    <3>4. Cardinality(waiting2) \in Nat /\ Cardinality(waiting2) <= Cardinality(waiting) + 1
      BY <3>2, <3>3, FS_Subset, FS_CardinalityType
    <3>5. Entries(c)' = Entries(c) + 1 /\ Entries(c) \in Nat
      BY <1>4, <2>3 DEF Entries, LogInv, LoopInv
    <3>6. ASSUME NEW n \in Readings(c)' PROVE n + Cardinality(waiting2) <= Entries(c)'
      <4>1. n \in Nat /\ n + Cardinality(waiting) <= Entries(c)
        BY <2>2, <3>1, TallyNumbers DEF LogInv, Backed
      <4>2. QED
        BY <3>3, <3>4, <3>5, <4>1
    <3>7. QED
      BY <3>1, <3>6 DEF Backed
  <2>4. CASE c # k
    <3>1. Uncounted(c)' \subseteq Uncounted(c)
      BY <1>2, <1>3, <2>1, <2>4 DEF Uncounted
    <3>2. Entries(c)' = Entries(c)
      BY <1>4, <2>4 DEF Entries, LogInv, LoopInv
    <3>3. QED
      BY <2>2, <3>1, <3>2, TallyStays
  <2>5. QED
    BY <2>3, <2>4
<1>7. QED
  BY <1>5, <1>6 DEF LogInv

LEMMA ReadCountKeepsLog ==
  ASSUME LoopInv, LogInv, NEW w \in Handler, ReadCount(w)
  PROVE  LogInv'
<1>1. /\ call[w].pc = "count" /\ call[w] # Idle
      /\ call'[w].pc = "write" /\ call'[w].body = call[w].body
      /\ call'[w].read = counts[call[w].body.class]
      /\ \A v \in Handler \ {w} : call'[v] = call[v]
      /\ UNCHANGED <<counts, logged, unlogged>>
  BY DEF ReadCount, LoopInv, Idle, loopVarsButCall
<1>2. ASSUME NEW c \in Class PROVE Backed(c)'
  <2>1. ASSUME NEW v \in Uncounted(c)' PROVE v \in Uncounted(c)
    BY <1>1 DEF Uncounted
  <2>2. ASSUME NEW v \in Uncounted(c)', call'[v].pc = "write"
        PROVE  call'[v].read \in Readings(c)
    <3>1. CASE v = w
      BY <1>1, <2>2, <3>1 DEF Uncounted, Readings
    <3>2. CASE v # w
      BY <1>1, <2>1, <2>2, <3>2 DEF Readings, Uncounted
    <3>3. QED
      BY <3>1, <3>2
  <2>3. Readings(c)' \subseteq Readings(c)
    BY <1>1, <2>2 DEF Readings
  <2>4. QED
    BY <1>1, <2>1, <2>3, TallyStays DEF Entries
<1>3. QED
  BY <1>1, <1>2 DEF LogInv

\* The request leaves those to count as the tally takes it in.
LEMMA WriteCountKeepsLog ==
  ASSUME LoopInv, LogInv, NEW w \in Handler, WriteCount(w)
  PROVE  LogInv'
<1>1. /\ call[w].pc = "write" /\ call[w] # Idle /\ Goto(w, "event")
      /\ UNCHANGED <<logged, unlogged>>
  BY DEF WriteCount, Idle
<1>2. PICK k \in Class : k = call[w].body.class
  BY <1>1, ClassOfBody DEF LoopInv, CallShape
<1>3. call'[w].pc = "event" /\ \A v \in Handler \ {w} : call'[v] = call[v]
  BY <1>1, GotoMoves
<1>4. PICK n : n = call[w].read
  OBVIOUS
<1>5. w \in Uncounted(k) /\ n \in Readings(k) /\ n \in Nat
  <2>1. w \in Uncounted(k) /\ n \in Readings(k)
    BY <1>1, <1>2, <1>4 DEF Uncounted, Readings
  <2>2. QED
    BY <2>1, TallyNumbers
<1>6. counts' = [counts EXCEPT ![k] = n + 1]
  BY <1>2, <1>4 DEF WriteCount
<1>7. ASSUME NEW c \in Class PROVE Backed(c)'
  <2>1. Uncounted(c)' = Uncounted(c) \ {w}
    BY <1>3 DEF Uncounted
  <2>2. Entries(c)' = Entries(c)
    BY <1>1 DEF Entries
  <2>3. ASSUME NEW m \in Readings(c)' PROVE m \in Readings(c) \/ (c = k /\ m = n + 1)
    <3>1. counts'[c] = IF c = k THEN n + 1 ELSE counts[c]
      BY <1>6 DEF LoopInv
    <3>2. ASSUME NEW v \in Uncounted(c)', call'[v].pc = "write" PROVE call'[v].read \in Readings(c)
      <4>1. v \in Uncounted(c) /\ call'[v] = call[v]
        BY <1>3, <2>1 DEF Uncounted
      <4>2. QED
        BY <3>2, <4>1 DEF Readings
    <3>3. m = counts'[c] \/ m \in Readings(c)
      BY <2>3, <3>2 DEF Readings
    <3>4. QED
      BY <3>1, <3>3 DEF Readings
  <2>4. CASE c = k
    <3>1. PICK waiting : waiting = Uncounted(c)
      OBVIOUS
    <3>2. w \in waiting /\ IsFiniteSet(waiting) /\ Cardinality(waiting) \in Nat
      BY <1>5, <2>4, <3>1, TallyNumbers
    <3>3. Cardinality(waiting \ {w}) = Cardinality(waiting) - 1
      BY <3>2, FS_RemoveElement
    <3>4. n + Cardinality(waiting) <= Entries(c) /\ Entries(c) \in Nat
      BY <1>5, <2>4, <3>1, TallyNumbers DEF LogInv, Backed
    <3>5. ASSUME NEW m \in Readings(c)' PROVE m + Cardinality(waiting \ {w}) <= Entries(c)
      <4>1. CASE m \in Readings(c)
        <5>1. m \in Nat /\ m + Cardinality(waiting) <= Entries(c)
          BY <3>1, <4>1, TallyNumbers DEF LogInv, Backed
        <5>2. QED
          BY <3>2, <3>3, <3>4, <5>1
      <4>2. CASE m = n + 1
        BY <1>5, <3>2, <3>3, <3>4, <4>2
      <4>3. QED
        BY <2>3, <4>1, <4>2
    <3>6. QED
      BY <2>1, <2>2, <3>1, <3>5 DEF Backed
  <2>5. CASE c # k
    BY <2>1, <2>2, <2>3, <2>5, TallyStays
  <2>6. QED
    BY <2>4, <2>5
<1>8. QED
  BY <1>1, <1>7 DEF LogInv

\* The tally is rebuilt from the log, and no request is left to count.
LEMMA RestartKeepsLog ==
  ASSUME LoopInv, LogInv, Restart
  PROVE  LogInv'
<1>1. UNCHANGED <<logged, unlogged>> /\ counts' = logged /\ \A v \in Handler : call'[v] = Idle
  BY DEF Restart, LoadExisting
<1>2. ASSUME NEW c \in Class PROVE Backed(c)'
  <2>1. Uncounted(c)' = {}
    BY <1>1 DEF Uncounted
  <2>2. Readings(c)' = {logged[c]}
    BY <1>1, <2>1 DEF Readings
  <2>3. logged[c] \in Nat /\ unlogged[c] \in Nat
    BY DEF LoopInv, LogInv
  <2>4. Cardinality(Uncounted(c)') = 0
    BY <2>1, FS_EmptySet
  <2>5. QED
    BY <1>1, <2>2, <2>3, <2>4 DEF Backed, Entries
<1>3. QED
  BY <1>1, <1>2 DEF LogInv

LEMMA StepKeepsLog ==
  ASSUME LoopInv, LogInv, [LoopNext]_vars
  PROVE  LogInv'
<1>1. CASE (\E r \in Recipient : ScoredFirst(r)) \/ UNCHANGED vars
  BY <1>1, QuietKeepsLog DEF ScoredFirst, vars, loopVars
<1>2. ASSUME NEW w \in Handler, Step(w) PROVE LogInv'
  <2>1. CASE (\E b \in Body : Post(w, b)) \/ StoreRaises(w) \/ Answer(w)
    <3>1. UNCHANGED <<counts, logged, unlogged>>
      BY <2>1 DEF Post, StoreRaises, Answer
    <3>2. /\ call'[w] = Idle \/ call'[w].pc = "log"
          /\ \A v \in Handler \ {w} : call'[v] = call[v]
      BY <2>1 DEF Post, StoreRaises, Answer, LoopInv
    <3>3. QED
      BY <3>1, <3>2, QuietKeepsLog
  <2>2. CASE AppendDisposition(w) \/ CreateEntity(w) \/ UpdateReputation(w)
             \/ QueueRetrain(w) \/ AddOutcomeLabel(w) \/ AddIntentLabel(w)
    <3>1. PICK pc \in Late \cup {"patch"} : Goto(w, pc)
      BY <2>2 DEF AppendDisposition, CreateEntity, UpdateReputation, QueueRetrain,
                  AddOutcomeLabel, AddIntentLabel, Late
    <3>2. UNCHANGED <<counts, logged, unlogged>> /\ call[w] # Idle
      <4>1. UNCHANGED <<counts, logged, unlogged>>
        BY <2>2 DEF AppendDisposition, CreateEntity, UpdateReputation, QueueRetrain,
                    AddOutcomeLabel, AddIntentLabel, loopVarsButCall
      <4>2. call[w].pc \in {"event", "create", "patch", "queue", "label", "intent"}
        BY <2>2, Zenon DEF AppendDisposition, CreateEntity, UpdateReputation, QueueRetrain,
                           AddOutcomeLabel, AddIntentLabel
      <4>3. QED
        BY <4>1, <4>2 DEF Idle
    <3>3. call'[w].pc = pc /\ \A v \in Handler \ {w} : call'[v] = call[v]
      BY <3>1, <3>2, GotoMoves
    <3>4. QED
      BY <3>1, <3>2, <3>3, QuietKeepsLog DEF Late
  <2>3. CASE AppendFeedback(w)
    <3>1. /\ call[w].pc = "feedback" /\ Goto(w, AfterTrail(call[w].body))
          /\ UNCHANGED <<counts, logged, unlogged>>
      BY <2>3, Zenon DEF AppendFeedback
    <3>2. /\ call'[w].pc = AfterTrail(call[w].body)
          /\ \A v \in Handler \ {w} : call'[v] = call[v]
      BY <3>1, GotoMoves DEF Idle
    <3>3. QED
      BY <3>1, <3>2, QuietKeepsLog DEF AfterTrail
  <2>4. CASE GetEntity(w)
    <3>1. /\ call'[w].pc \in {"create", "patch"}
          /\ \A v \in Handler \ {w} : call'[v] = call[v]
          /\ UNCHANGED <<counts, logged, unlogged>>
      BY <2>4 DEF GetEntity, LoopInv, loopVarsButCall
    <3>2. QED
      BY <3>1, QuietKeepsLog
  <2>5. QED
    BY <1>2, <2>1, <2>2, <2>3, <2>4, AppendLogKeepsLog, ReadCountKeepsLog, WriteCountKeepsLog
    DEF Step
<1>3. QED
  BY <1>1, <1>2, RestartKeepsLog, LoopNextCases

\* "queued_for_retrain": the tally of a class never exceeds its lines in the
\* log and those whose write failed, however many handlers read and write it
\* back at once and wherever the process is stopped.
THEOREM TallyFollowsTheLog == LoopSpec => []TallyWithinLog
<1>1. LoopInit => LogInv
  <2> SUFFICES ASSUME LoopInit, NEW c \in Class PROVE unlogged \in [Class -> Nat] /\ Backed(c)
    BY DEF LoopInit, NoClasses, LogInv
  <2>1. Uncounted(c) = {} /\ Readings(c) = {0} /\ Entries(c) = 0
    BY DEF LoopInit, Uncounted, Readings, Entries, NoClasses
  <2>2. Cardinality(Uncounted(c)) = 0
    BY <2>1, FS_EmptySet
  <2>3. QED
    BY <2>1, <2>2 DEF LoopInit, NoClasses, Backed
<1>2. LoopInv /\ LogInv /\ [LoopNext]_vars => LogInv'
  BY StepKeepsLog
<1>3. LoopInv /\ LogInv => TallyWithinLog
  <2> SUFFICES ASSUME LoopInv, LogInv, NEW c \in Class PROVE counts[c] <= logged[c] + unlogged[c]
    BY DEF TallyWithinLog
  <2>1. counts[c] \in Readings(c) /\ counts[c] \in Nat
    BY DEF Readings, LoopInv
  <2>2. counts[c] + Cardinality(Uncounted(c)) <= Entries(c)
    BY <2>1 DEF LogInv, Backed
  <2>3. Cardinality(Uncounted(c)) \in Nat /\ Entries(c) \in Nat
    BY TallyNumbers
  <2>4. QED
    BY <2>1, <2>2, <2>3 DEF Entries
<1>4. QED
  BY <1>1, <1>2, <1>3, LoopInductive, PTL DEF LoopSpec

-----------------------------------------------------------------------------
(* The store's rate of a payee follows the live one.  While a verdict is on *)
(* its way it carries the live rate with it; once none is, the store holds  *)
(* that rate.  This needs that no two requests overlap on the payee, and    *)
(* that no update raised: a request without a rate writes none.             *)

Correcting(r) == {w \in Handler : Owes(w, r) /\ IsVerdict(call[w].body)}

Follows(r) ==
    /\ \A w \in Correcting(r) : call[w].rate = live[r]
    /\ Correcting(r) = {} /\ live[r].tx > 0 => entity[r].rate = live[r]

RateInv ==
    /\ stops \in Nat
    /\ stops = 0 => \A r \in Recipient \ raced : Follows(r)

\* A step that changes no rate, and lets no request begin or cease to owe.
LEMMA QuietKeepsRates ==
  ASSUME LoopInv, RateInv, UNCHANGED <<live, stops, raced>>,
         \A r \in Recipient : entity'[r].rate = entity[r].rate,
         \A v \in Handler :
            \/ call'[v] = call[v]
            \/ /\ call'[v].body = call[v].body /\ call'[v].rate = call[v].rate
               /\ \A r \in Recipient : Owes(v, r)' <=> Owes(v, r)
            \/ \A r \in Recipient : ~Owes(v, r)' /\ ~Owes(v, r)
  PROVE  RateInv'
<1>1. ASSUME stops = 0, NEW r \in Recipient \ raced PROVE Follows(r)'
  <2>1. Follows(r)
    BY <1>1 DEF RateInv
  <2>2. Correcting(r)' = Correcting(r) /\ \A w \in Correcting(r) : call'[w].rate = call[w].rate
    BY DEF Correcting, Owes
  <2>3. QED
    BY <2>1, <2>2 DEF Follows
<1>2. QED
  BY <1>1 DEF RateInv

\* A verdict takes the rate it makes with it; where nobody is on the way, the
\* store held the rate there was.
LEMMA PostKeepsRates ==
  ASSUME LoopInv, RateInv, NEW w \in Handler, NEW b \in Body, Post(w, b)
  PROVE  RateInv'
<1>1. stops' \in Nat /\ (stops' = 0 => stops' = stops)
  BY DEF Post, RateInv
<1>2. ASSUME stops' = 0, NEW r \in Recipient \ raced' PROVE Follows(r)'
  <2>1. PICK updated : updated = Tallied(live[b.recipient], b)
    OBVIOUS
  <2>2. \/ /\ ~IsVerdict(b) \/ b.recipient = NoRecipient
           /\ call' = [call EXCEPT ![w] = [pc |-> "log", body |-> b, rate |-> NoRate]]
           /\ live' = live
        \/ /\ IsVerdict(b)
           /\ live' = [live EXCEPT ![b.recipient] = updated]
           /\ call' = [call EXCEPT ![w] = [pc |-> "log", body |-> b, rate |-> updated]]
    BY <1>1, <1>2, <2>1 DEF Post, RateInv
  <2>3. PICK rate : call' = [call EXCEPT ![w] = [pc |-> "log", body |-> b, rate |-> rate]]
    BY <2>2
  <2>4. /\ call'[w] = [pc |-> "log", body |-> b, rate |-> rate]
        /\ \A v \in Handler \ {w} : call'[v] = call[v]
    BY <2>3 DEF LoopInv
  <2>5. /\ call[w] = Idle /\ entity' = entity
        /\ r \notin raced /\ (r = b.recipient => UpdatingNow(r) = {})
    BY <1>2 DEF Post
  <2>6. Follows(r)
    BY <1>1, <1>2, <2>5 DEF RateInv
  <2>7. \A v \in Handler \ {w} : Owes(v, r)' <=> Owes(v, r)
    BY <2>4 DEF Owes
  <2>8. ~Owes(w, r)
    BY <2>5 DEF Owes
  <2>9. CASE r = b.recipient /\ IsVerdict(b)
    <3>1. \A v \in Handler \ {w} : ~Owes(v, r)'
      BY <2>5, <2>7, <2>9 DEF UpdatingNow, Owes
    <3>2. Owes(w, r)' /\ IsVerdict(call'[w].body)
      BY <2>4, <2>9 DEF Owes, Updating, Idle
    <3>3. Correcting(r)' = {w}
      BY <3>1, <3>2 DEF Correcting
    <3>4. call'[w].rate = updated /\ live'[r] = updated
      BY <2>2, <2>9 DEF LoopInv, FeedbackAssumption
    <3>5. QED
      BY <3>3, <3>4 DEF Follows
  <2>10. CASE ~(r = b.recipient /\ IsVerdict(b))
    <3>1. ~(Owes(w, r)' /\ IsVerdict(call'[w].body))
      BY <2>4, <2>10 DEF Owes
    <3>2. Correcting(r)' = Correcting(r)
      BY <2>4, <2>7, <2>8, <3>1 DEF Correcting
    <3>3. w \notin Correcting(r)
      BY <2>8 DEF Correcting
    <3>4. live'[r] = live[r]
      BY <2>2, <2>10 DEF LoopInv
    <3>5. \A v \in Correcting(r) : call'[v] = call[v]
      BY <2>4, <3>3 DEF Correcting
    <3>6. QED
      BY <2>5, <2>6, <3>2, <3>4, <3>5 DEF Follows
  <2>11. QED
    BY <2>9, <2>10
<1>3. QED
  BY <1>1, <1>2 DEF RateInv

\* The patch of a verdict carries its rate into the store.
LEMMA UpdateKeepsRates ==
  ASSUME LoopInv, CountInv, RateInv, NEW w \in Handler, UpdateReputation(w)
  PROVE  RateInv'
<1>1. PICK r \in Recipient : /\ call[w].body.recipient = r /\ call[w].pc = "patch"
                             /\ call[w] # Idle
  BY PaidBody DEF UpdateReputation
<1>2. UNCHANGED <<live, stops, raced>> /\ Goto(w, "feedback")
  BY DEF UpdateReputation
<1>3. call'[w].pc = "feedback" /\ \A v \in Handler \ {w} : call'[v] = call[v]
  BY <1>1, <1>2, GotoMoves
<1>4. ASSUME stops = 0, NEW q \in Recipient \ raced PROVE Follows(q)'
  <2>1. Follows(q) /\ Alone(q)
    BY <1>4 DEF RateInv, CountInv, Exact
  <2>2. Correcting(q)' = Correcting(q) \ {w}
    BY <1>3 DEF Correcting, Owes, Updating
  <2>3. \A v \in Correcting(q)' : call'[v].rate = live'[q]
    BY <1>2, <1>3, <2>1, <2>2 DEF Follows, Correcting
  <2>4. CASE q = r /\ IsVerdict(call[w].body)
    <3>1. call[w].rate = live[q]
      BY <1>1, <2>1, <2>4 DEF Follows, Correcting, Owes, Updating
    <3>2. call[w].rate # NoRate
      BY <3>1 DEF LoopInv, NoRate
    <3>3. entity' = [entity EXCEPT ![r] = Patched(entity[r], call[w])]
      BY <1>1, <2>4 DEF UpdateReputation
    <3>4. Patched(entity[r], call[w]).rate = call[w].rate
      BY <3>2 DEF Patched
    <3>5. entity'[q].rate = live'[q]
      BY <1>2, <2>4, <3>1, <3>3, <3>4 DEF LoopInv
    <3>6. QED
      BY <2>3, <3>5 DEF Follows
  <2>5. CASE ~(q = r /\ IsVerdict(call[w].body))
    <3>1. w \notin Correcting(q)
      BY <1>1, <2>5 DEF Correcting, Owes
    <3>2. entity'[q] = entity[q]
      BY <1>1, <2>5 DEF UpdateReputation, LoopInv
    <3>3. Correcting(q)' = Correcting(q)
      BY <2>2, <3>1
    <3>4. QED
      BY <1>2, <2>1, <2>3, <3>2, <3>3 DEF Follows
  <2>6. QED
    BY <2>4, <2>5
<1>5. QED
  BY <1>2, <1>4 DEF RateInv

LEMMA StepKeepsRates ==
  ASSUME LoopInv, CountInv, RateInv, [LoopNext]_vars
  PROVE  RateInv'
<1>1. CASE UNCHANGED vars
  BY <1>1, QuietKeepsRates DEF vars, loopVars
<1>2. CASE Restart
  BY <1>2 DEF Restart, RateInv
<1>3. ASSUME NEW r \in Recipient, ScoredFirst(r) PROVE RateInv'
  <2>1. /\ UNCHANGED <<live, stops, raced, call>> /\ entity[r].rate = NoRate
        /\ entity' = [entity EXCEPT ![r] = [tx |-> 0, fraud |-> 0, rate |-> NoRate]]
    BY <1>3 DEF ScoredFirst, NoEntity
  <2>2. \A q \in Recipient : entity'[q].rate = entity[q].rate
    BY <2>1 DEF LoopInv
  <2>3. QED
    BY <2>1, <2>2, QuietKeepsRates
<1>4. ASSUME NEW w \in Handler, Step(w) PROVE RateInv'
  <2>1. CASE \E b \in Body : Post(w, b)
    BY <2>1, PostKeepsRates
  <2>2. CASE UpdateReputation(w)
    BY <2>2, UpdateKeepsRates
  <2>3. CASE StoreRaises(w)
    BY <2>3 DEF StoreRaises, RateInv
  <2>4. CASE AppendLog(w)
    <3>1. CASE stops' = stops
      <4>1. /\ call[w].pc = "log" /\ call[w] # Idle /\ Goto(w, "count")
            /\ UNCHANGED <<live, raced, entity>>
        BY <2>4 DEF AppendLog, Idle
      <4>2. /\ call'[w].pc = "count" /\ call'[w].body = call[w].body
            /\ call'[w].rate = call[w].rate /\ call'[w] # Idle
            /\ \A v \in Handler \ {w} : call'[v] = call[v]
        BY <4>1, GotoMoves DEF Idle
      <4>3. \A r \in Recipient : Owes(w, r)' <=> Owes(w, r)
        BY <4>1, <4>2 DEF Owes, Updating
      <4>4. QED
        BY <3>1, <4>1, <4>2, <4>3, QuietKeepsRates
    <3>2. CASE stops' # stops
      BY <2>4, <3>2 DEF AppendLog, RateInv
    <3>3. QED
      BY <3>1, <3>2
  <2>5. CASE ReadCount(w) \/ GetEntity(w)
    <3>1. /\ call[w].pc \in {"count", "entity"} /\ call[w] # Idle
          /\ call'[w].pc \in {"write", "create", "patch"} /\ call'[w] # Idle
          /\ call'[w].body = call[w].body /\ call'[w].rate = call[w].rate
          /\ \A v \in Handler \ {w} : call'[v] = call[v]
          /\ UNCHANGED <<live, stops, raced, entity>>
      BY <2>5 DEF ReadCount, GetEntity, LoopInv, loopVarsButCall, Idle
    <3>2. \A r \in Recipient : Owes(w, r)' <=> Owes(w, r)
      BY <3>1 DEF Owes, Updating
    <3>3. QED
      BY <3>1, <3>2, QuietKeepsRates
  <2>6. CASE WriteCount(w) \/ CreateEntity(w)
    <3>1. PICK pc \in {"event", "patch"} : Goto(w, pc)
      BY <2>6 DEF WriteCount, CreateEntity
    <3>2. call[w].pc \in {"write", "create"} /\ call[w] # Idle /\ UNCHANGED <<live, stops, raced>>
      BY <2>6 DEF WriteCount, CreateEntity, Idle
    <3>3. /\ call'[w].pc = pc /\ call'[w].body = call[w].body
          /\ call'[w].rate = call[w].rate /\ call'[w] # Idle
          /\ \A v \in Handler \ {w} : call'[v] = call[v]
      BY <3>1, <3>2, GotoMoves DEF Idle
    <3>4. \A r \in Recipient : Owes(w, r)' <=> Owes(w, r)
      BY <3>1, <3>2, <3>3 DEF Owes, Updating
    <3>5. \A r \in Recipient : entity'[r].rate = entity[r].rate
      BY <2>6 DEF WriteCount, CreateEntity, LoopInv
    <3>6. QED
      BY <3>2, <3>3, <3>4, <3>5, QuietKeepsRates
  <2>7. CASE AppendDisposition(w)
    <3>1. /\ call[w].pc = "event" /\ call[w] # Idle
          /\ Goto(w, IF call[w].body.recipient = NoRecipient THEN "feedback" ELSE "entity")
          /\ UNCHANGED <<live, stops, raced, entity>>
      BY <2>7 DEF AppendDisposition, Idle
    <3>2. /\ call'[w].pc = IF call[w].body.recipient = NoRecipient THEN "feedback" ELSE "entity"
          /\ call'[w].body = call[w].body /\ call'[w].rate = call[w].rate
          /\ \A v \in Handler \ {w} : call'[v] = call[v]
      BY <3>1, GotoMoves
    <3>3. \A r \in Recipient : Owes(w, r)' <=> Owes(w, r)
      BY <3>1, <3>2 DEF Owes, Updating, FeedbackAssumption, Idle
    <3>4. QED
      BY <3>1, <3>2, <3>3, QuietKeepsRates
  <2>8. CASE AppendFeedback(w) \/ QueueRetrain(w) \/ AddOutcomeLabel(w) \/ AddIntentLabel(w)
             \/ Answer(w)
    <3>1. UNCHANGED <<live, stops, raced, entity>>
      <4>1. AppendFeedback(w) => UNCHANGED <<live, stops, raced, entity>>
        BY Zenon DEF AppendFeedback
      <4>2. QED
        BY <2>8, <4>1 DEF QueueRetrain, AddOutcomeLabel, AddIntentLabel, Answer, loopVarsButCall
    <3>2. /\ call[w].pc \notin Updating
          /\ \/ call' = [call EXCEPT ![w] = Idle]
             \/ call[w] # Idle /\ \E pc \in {"queue", "label", "intent", "answer"} : Goto(w, pc)
      <4>1. AppendFeedback(w) => call[w].pc = "feedback" /\ Goto(w, AfterTrail(call[w].body))
        BY Zenon DEF AppendFeedback
      <4>2. AfterTrail(call[w].body) \in {"queue", "intent", "answer"}
        BY DEF AfterTrail
      <4>3. CASE AppendFeedback(w)
        BY <4>1, <4>2, <4>3 DEF Updating, Idle
      <4>4. CASE QueueRetrain(w) \/ AddOutcomeLabel(w) \/ AddIntentLabel(w) \/ Answer(w)
        <5>1. call[w].pc \in {"queue", "label", "intent", "answer"}
          BY <4>4, Zenon DEF QueueRetrain, AddOutcomeLabel, AddIntentLabel, Answer
        <5>2. \/ call' = [call EXCEPT ![w] = Idle]
              \/ \E pc \in {"label", "intent", "answer"} : Goto(w, pc)
          BY <4>4 DEF QueueRetrain, AddOutcomeLabel, AddIntentLabel, Answer
        <5>3. QED
          BY <5>1, <5>2 DEF Updating, Idle
      <4>5. QED
        BY <2>8, <4>3, <4>4
    <3>3. \A v \in Handler \ {w} : call'[v] = call[v]
      BY <3>2, GotoMoves DEF LoopInv
    <3>4. call'[w] = Idle \/ call'[w].pc \notin Updating
      BY <3>2, GotoMoves DEF LoopInv, Updating
    <3>5. \A r \in Recipient : ~Owes(w, r)' /\ ~Owes(w, r)
      BY <3>2, <3>4 DEF Owes
    <3>6. QED
      BY <3>1, <3>3, <3>5, QuietKeepsRates
  <2>9. QED
    BY <1>4, <2>1, <2>2, <2>3, <2>4, <2>5, <2>6, <2>7, <2>8 DEF Step
<1>5. QED
  BY <1>1, <1>2, <1>3, <1>4, LoopNextCases

\* Once the requests about a payee are through, without overlap or failure,
\* the store holds the live rate, for any number of handlers and requests.
THEOREM StoreFollowsTheLiveRate == LoopSpec => []DurableFollowsLive
<1>1. LoopInit => RateInv
  BY DEF LoopInit, RateInv, Follows, Correcting, Owes, Untouched
<1>2. LoopInv /\ CountInv /\ RateInv /\ [LoopNext]_vars => RateInv'
  BY StepKeepsRates
<1>3. RateInv => DurableFollowsLive
  <2> SUFFICES ASSUME RateInv, NEW r \in Recipient, r \notin raced, stops = 0,
                      UpdatingNow(r) = {}, live[r].tx > 0
               PROVE  entity[r].rate = live[r]
    BY DEF DurableFollowsLive
  <2>1. Correcting(r) = {}
    BY DEF Correcting, Owes, UpdatingNow
  <2>2. QED
    BY <2>1 DEF RateInv, Follows
<1>4. LoopInit => CountInv
  BY InitCountInv
<1>5. LoopInv /\ CountInv /\ [LoopNext]_vars => CountInv'
  BY NextKeepsCounts
<1>6. QED
  BY <1>1, <1>2, <1>3, <1>4, <1>5, LoopInductive, PTL DEF LoopSpec
=============================================================================
