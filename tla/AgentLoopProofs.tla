--------------------------- MODULE AgentLoopProofs --------------------------
(***************************************************************************)
(* Proofs about the rule book and the autonomous agent that writes to it:  *)
(* first the book on its own, for any number of threads, rules and         *)
(* operations, then the agent as a user of the book, and what it owes the  *)
(* payments it flags and the attacks it collects.                          *)
(***************************************************************************)
EXTENDS AgentLoop, SequenceTheorems, WellFoundedInduction, TLAPS

-----------------------------------------------------------------------------
(* The book.                                                               *)

What == {"shadow", "deployed", "deploy", "retire"}
Entry == [rule: Rule, status: {"shadow", "deployed", "retired"}]
Editing == [pc: {"read", "open"}, what: What, rule: Rule, entries: Seq(Entry)]

BookTypeOK ==
    /\ book \in [parses: BOOLEAN, entries: Seq(Entry)]
    /\ edit \in [Thread -> {NoEdit} \cup Editing]
    /\ intended \in [Rule -> {"none", "shadow", "deployed", "retired"}]
    /\ interfered \in BOOLEAN

\* The status a rule has once the operation e is through.
Target(e, before, r) ==
    IF r # e.rule \/ (e.what \in {"deploy", "retire"} /\ before = "none") THEN before
    ELSE CASE e.what = "deploy" -> "deployed"
           [] e.what = "retire" -> "retired"
           [] OTHER            -> e.what

\* Undisturbed, one operation at a time is under way; what it has in hand is
\* the book as it will be, and the file is the book as it was, or empty.
Undisturbed ==
    /\ \A v, w \in Thread : edit[v] # NoEdit /\ edit[w] # NoEdit => v = w
    /\ \A w \in Thread : edit[w].pc = "open" => book = Torn
    /\ \A w \in Thread : edit[w] # NoEdit =>
          \A r \in Rule : StatusIn(edit[w].entries, r) = Target(edit[w], intended[r], r)

BookInv == BookTypeOK /\ BookAgrees /\ (~interfered => Undisturbed)

LEMMA GreatestId ==
  ASSUME NEW n \in Nat, NEW T, T \subseteq 1..n, T # {}
  PROVE  \E i \in T : \A j \in T : j <= i
<1> DEFINE Far == {n - i : i \in T}
<1>0. \A i \in T : i \in Nat /\ n - i \in Nat
  OBVIOUS
<1>1. Far \subseteq Nat /\ Far # {}
  BY <1>0, Zenon
<1>2. PICK x \in Far : \A y \in Far : ~ (<<y, x>> \in OpToRel(<, Nat))
  BY <1>1, NatLessThanWellFounded, WFMin
<1>3. OpToRel(<, Nat) = {ss \in Nat \X Nat : ss[1] < ss[2]}
  BY Zenon DEF OpToRel
<1>4. PICK i \in T : x = n - i
  BY <1>2
<1>5. ASSUME NEW j \in T PROVE j <= i
  <2>1. n - j \in Far /\ n - j \in Nat /\ x \in Nat /\ i \in Nat /\ j \in Nat
    BY <1>0, <1>1, <1>2, Zenon
  <2>2. ~(n - j < x)
    BY <1>2, <1>3, <2>1
  <2>3. QED
    BY <1>4, <2>1, <2>2
<1>6. QED
  BY <1>5

\* A rule has the status of its last entry.
LEMMA LastEntry ==
  ASSUME NEW entries \in Seq(Entry), NEW r \in Rule,
         NEW k \in DOMAIN entries, entries[k].rule = r,
         \A j \in DOMAIN entries : entries[j].rule = r => j <= k
  PROVE  StatusIn(entries, r) = entries[k].status
<1> DEFINE at == {i \in DOMAIN entries : entries[i].rule = r}
<1>1. DOMAIN entries = 1..Len(entries) /\ Len(entries) \in Nat
  BY LenProperties
<1>2. k \in at /\ at # {} /\ at \subseteq Int /\ \A j \in at : j <= k
  BY <1>1
<1>3. (CHOOSE i \in at : \A j \in at : j <= i) = k
  BY <1>2
<1>4. QED
  BY <1>2, <1>3, Zenon DEF StatusIn

LEMMA NoEntry ==
  ASSUME NEW entries \in Seq(Entry), NEW r \in Rule,
         \A j \in DOMAIN entries : entries[j].rule # r
  PROVE  StatusIn(entries, r) = "none"
BY DEF StatusIn

LEMMA SomeEntry ==
  ASSUME NEW entries \in Seq(Entry), NEW r \in Rule,
         ~ \A j \in DOMAIN entries : entries[j].rule # r
  PROVE  \E k \in DOMAIN entries :
            /\ entries[k].rule = r /\ entries[k] \in Entry
            /\ \A j \in DOMAIN entries : entries[j].rule = r => j <= k
<1> DEFINE at == {i \in DOMAIN entries : entries[i].rule = r}
<1>1. DOMAIN entries = 1..Len(entries) /\ Len(entries) \in Nat
      /\ \A i \in DOMAIN entries : entries[i] \in Entry
  BY LenProperties, ElementOfSeq
<1>2. at \subseteq 1..Len(entries) /\ at # {}
  BY <1>1
<1>3. PICK k \in at : \A j \in at : j <= k
  BY <1>1, <1>2, GreatestId
<1>4. QED
  BY <1>1, <1>3

\* A save gives its rule the status saved, a deploy or a retire the status of
\* that name if the rule is in the book, and every other rule keeps its own.
LEMMA EditedStatus ==
  ASSUME NEW entries \in Seq(Entry), NEW e \in Editing, NEW r \in Rule
  PROVE  /\ Edited(entries, e.what, e.rule) \in Seq(Entry)
         /\ StatusIn(Edited(entries, e.what, e.rule), r) = Target(e, StatusIn(entries, r), r)
<1>0. PICK s \in Rule : s = e.rule
  BY DEF Editing
<1>1. /\ DOMAIN entries = 1..Len(entries) /\ Len(entries) \in Nat
      /\ \A i \in DOMAIN entries : entries[i] \in Entry
  BY LenProperties, ElementOfSeq
<1>2. e.what \in What
  BY DEF Editing
<1>3. CASE e.what \in {"shadow", "deployed"}
  <2>1. PICK new \in Entry : new = [rule |-> s, status |-> e.what]
    BY <1>0, <1>3 DEF Entry
  <2>2. PICK after : after = Append(entries, new)
    OBVIOUS
  <2>3. Edited(entries, e.what, e.rule) = after
    BY <1>0, <1>3, <2>1, <2>2 DEF Edited
  <2>4. /\ after \in Seq(Entry) /\ DOMAIN after = 1..(Len(entries) + 1)
        /\ after[Len(entries) + 1] = new
        /\ \A i \in DOMAIN entries : after[i] = entries[i]
    <3>1. after \in Seq(Entry) /\ Len(after) = Len(entries) + 1
      BY <2>1, <2>2, AppendProperties
    <3>2. DOMAIN after = 1..Len(after)
      BY <3>1, LenProperties
    <3>3. QED
      BY <1>1, <2>1, <2>2, <3>1, <3>2, AppendProperties
  <2>5. CASE r = s
    <3>1. StatusIn(after, r) = after[Len(entries) + 1].status
      BY <1>1, <2>1, <2>4, <2>5, LastEntry
    <3>2. QED
      BY <1>0, <1>3, <2>1, <2>3, <2>4, <2>5, <3>1 DEF Target
  <2>6. CASE r # s
    <3>1. CASE \A j \in DOMAIN entries : entries[j].rule # r
      <4>1. \A j \in DOMAIN after : after[j].rule # r
        BY <1>1, <2>1, <2>4, <2>6, <3>1
      <4>2. StatusIn(after, r) = "none" /\ StatusIn(entries, r) = "none"
        BY <2>4, <3>1, <4>1, NoEntry
      <4>3. QED
        BY <1>0, <2>3, <2>4, <2>6, <4>2 DEF Target
    <3>2. CASE ~ \A j \in DOMAIN entries : entries[j].rule # r
      <4>1. PICK k \in DOMAIN entries :
               /\ entries[k].rule = r
               /\ \A j \in DOMAIN entries : entries[j].rule = r => j <= k
        BY <3>2, SomeEntry
      <4>2. k \in DOMAIN after /\ after[k].rule = r
            /\ \A j \in DOMAIN after : after[j].rule = r => j <= k
        BY <1>1, <2>1, <2>4, <2>6, <4>1
      <4>3. StatusIn(after, r) = after[k].status
        BY <2>4, <4>2, LastEntry
      <4>4. StatusIn(entries, r) = entries[k].status
        BY <4>1, LastEntry
      <4>5. QED
        BY <1>0, <2>3, <2>4, <2>6, <4>1, <4>3, <4>4 DEF Target
    <3>3. QED
      BY <3>1, <3>2
  <2>7. QED
    BY <2>5, <2>6
<1>4. CASE e.what \in {"deploy", "retire"}
  <2>1. PICK status \in {"deployed", "retired"} :
           status = IF e.what = "deploy" THEN "deployed" ELSE "retired"
    OBVIOUS
  <2>2. PICK after : after = [i \in DOMAIN entries |->
            IF entries[i].rule = s THEN [entries[i] EXCEPT !.status = status] ELSE entries[i]]
    OBVIOUS
  <2>3. Edited(entries, e.what, e.rule) = after
    <3>1. CASE e.what = "deploy"
      BY <1>0, <2>1, <2>2, <3>1 DEF Edited
    <3>2. CASE e.what = "retire"
      BY <1>0, <2>1, <2>2, <3>2 DEF Edited
    <3>3. QED
      BY <1>4, <3>1, <3>2
  <2>4. /\ DOMAIN after = DOMAIN entries
        /\ \A i \in DOMAIN entries :
              /\ after[i] \in Entry /\ after[i].rule = entries[i].rule
              /\ after[i].status = IF entries[i].rule = s THEN status ELSE entries[i].status
    BY <1>1, <2>1, <2>2 DEF Entry
  <2>5. after \in Seq(Entry)
    BY <1>1, <2>2, <2>4, SeqDef
  <2>6. CASE \A j \in DOMAIN entries : entries[j].rule # r
    <3>1. StatusIn(after, r) = "none" /\ StatusIn(entries, r) = "none"
      BY <2>4, <2>5, <2>6, NoEntry
    <3>2. QED
      BY <1>4, <2>3, <2>5, <3>1 DEF Target
  <2>7. CASE ~ \A j \in DOMAIN entries : entries[j].rule # r
    <3>1. PICK k \in DOMAIN entries :
             /\ entries[k].rule = r /\ entries[k] \in Entry
             /\ \A j \in DOMAIN entries : entries[j].rule = r => j <= k
      BY <2>7, SomeEntry
    <3>2. StatusIn(after, r) = after[k].status
      BY <2>4, <2>5, <3>1, LastEntry
    <3>3. StatusIn(entries, r) = entries[k].status /\ entries[k].status # "none"
      BY <3>1, LastEntry DEF Entry
    <3>4. QED
      BY <1>0, <1>4, <2>1, <2>3, <2>4, <2>5, <3>1, <3>2, <3>3 DEF Target
  <2>8. QED
    BY <2>6, <2>7
<1>5. QED
  BY <1>2, <1>3, <1>4 DEF What

LEMMA BookInvInit == BookInit => BookInv
<1> SUFFICES ASSUME BookInit PROVE BookInv
  OBVIOUS
<1>1. <<>> \in Seq(Entry) /\ DOMAIN <<>> = {}
  BY EmptySeq, LenProperties
<1>2. BookTypeOK
  BY <1>1 DEF BookInit, BookTypeOK, Holding
<1>3. book.parses /\ Entries = <<>>
  BY DEF BookInit, Holding, Entries
<1>4. \A r \in Rule : StatusIn(Entries, r) = "none"
  BY <1>1, <1>3, NoEntry, Zenon
<1>5. BookAgrees
  BY <1>3, <1>4 DEF BookInit, BookAgrees
<1>6. Undisturbed
  BY DEF BookInit, Undisturbed, NoEdit
<1>7. QED
  BY <1>2, <1>5, <1>6 DEF BookInv

LEMMA ReadKeepsBook ==
  ASSUME BookInv, NEW w \in Thread, NEW what \in What, NEW r \in Rule, ReadBook(w, what, r)
  PROVE  BookInv'
<1>0. PICK entries \in Seq(Entry) : entries = Entries
  BY DEF BookInv, BookTypeOK, Entries
<1>1. PICK e : e = [pc |-> "read", what |-> what, rule |-> r,
                    entries |-> Edited(entries, what, r)]
  OBVIOUS
<1>2. /\ edit[w] = NoEdit /\ edit' = [edit EXCEPT ![w] = e]
      /\ interfered' = (interfered \/ \E v \in Thread : edit[v] # NoEdit)
      /\ book' = book /\ intended' = intended
  BY <1>0, <1>1, Zenon DEF ReadBook
<1>3. PICK any \in Editing : any.what = what /\ any.rule = r
  <2>1. [pc |-> "read", what |-> what, rule |-> r, entries |-> entries] \in Editing
    BY DEF Editing
  <2>2. QED
    BY <2>1
<1>4. Edited(entries, what, r) \in Seq(Entry)
  BY <1>3, EditedStatus
<1>5. e \in Editing /\ e # NoEdit /\ e.pc = "read" /\ e.what = what /\ e.rule = r
      /\ e.entries = Edited(entries, what, r)
  BY <1>1, <1>4 DEF Editing, NoEdit
<1>6. BookTypeOK'
  BY <1>2, <1>5 DEF BookInv, BookTypeOK
<1>7. edit'[w] = e /\ \A v \in Thread : v # w => edit'[v] = edit[v]
  BY <1>2 DEF BookInv, BookTypeOK
<1>8. ~interfered' => ~interfered /\ \A v \in Thread : edit[v] = NoEdit
  BY <1>2, Zenon
<1>9. (\A v \in Thread : edit'[v].pc # "open") => (\A v \in Thread : edit[v].pc # "open")
  BY <1>2, <1>5, <1>7 DEF NoEdit
<1>10. BookAgrees'
  BY <1>2, <1>8, <1>9, Zenon DEF BookInv, BookAgrees, Entries
<1>11. ASSUME ~interfered' PROVE Undisturbed'
  <2>1. \A v \in Thread : edit[v] = NoEdit /\ edit[v].pc # "open"
    BY <1>8, <1>11 DEF NoEdit
  <2>2. \A s \in Rule : StatusIn(entries, s) = intended[s]
    BY <1>0, <1>8, <1>11, <2>1 DEF BookInv, BookAgrees
  <2>3. ASSUME NEW s \in Rule PROVE StatusIn(e.entries, s) = Target(e, intended[s], s)
    BY <1>5, <2>2, <2>3, EditedStatus
  <2>4. \A v \in Thread : edit'[v] # NoEdit => v = w
    BY <1>7, <2>1
  <2>5. \A v \in Thread : edit'[v].pc # "open"
    BY <1>5, <1>7, <2>1
  <2>6. \A v \in Thread : edit'[v] # NoEdit =>
            \A s \in Rule : StatusIn(edit'[v].entries, s) = Target(edit'[v], intended'[s], s)
    BY <1>2, <1>7, <2>3, <2>4, Zenon
  <2>7. QED
    BY <2>4, <2>5, <2>6, Zenon DEF Undisturbed
<1>12. QED
  BY <1>6, <1>10, <1>11 DEF BookInv

LEMMA OpenKeepsBook ==
  ASSUME BookInv, NEW w \in Thread, OpenBook(w)
  PROVE  BookInv'
<1>1. PICK e \in Editing : e = edit[w] /\ e.pc = "read"
  BY DEF BookInv, BookTypeOK, OpenBook, NoEdit
<1>2. PICK opened : opened = [e EXCEPT !.pc = "open"]
  OBVIOUS
<1>3. /\ edit' = [edit EXCEPT ![w] = opened] /\ book' = Torn
      /\ interfered' = interfered /\ intended' = intended
  BY <1>1, <1>2 DEF OpenBook
<1>4. opened \in Editing /\ opened # NoEdit /\ opened.pc = "open" /\ opened.what = e.what
      /\ opened.rule = e.rule /\ opened.entries = e.entries /\ e # NoEdit
  BY <1>1, <1>2 DEF Editing, NoEdit
<1>5. edit'[w] = opened /\ \A v \in Thread : v # w => edit'[v] = edit[v]
  BY <1>3 DEF BookInv, BookTypeOK
<1>6. Torn \in [parses: BOOLEAN, entries: Seq(Entry)]
  BY EmptySeq DEF Torn
<1>7. BookTypeOK'
  BY <1>3, <1>4, <1>6 DEF BookInv, BookTypeOK
<1>8. BookAgrees'
  BY <1>4, <1>5 DEF BookAgrees
<1>9. ASSUME ~interfered' PROVE Undisturbed'
  <2>1. Undisturbed
    BY <1>3, <1>9 DEF BookInv
  <2>2. \A v \in Thread : edit'[v] # NoEdit => v = w
    BY <1>1, <1>4, <1>5, <2>1 DEF Undisturbed
  <2>3. \A r \in Rule : Target(opened, intended[r], r) = Target(e, intended[r], r)
    BY <1>4 DEF Target
  <2>4. \A r \in Rule : StatusIn(opened.entries, r) = Target(opened, intended[r], r)
    BY <1>1, <1>4, <2>1, <2>3 DEF Undisturbed
  <2>5. \A v \in Thread : edit'[v] # NoEdit =>
            \A s \in Rule : StatusIn(edit'[v].entries, s) = Target(edit'[v], intended'[s], s)
    BY <1>3, <1>5, <2>2, <2>4, Zenon
  <2>6. QED
    BY <1>3, <2>2, <2>5, Zenon DEF Undisturbed
<1>10. QED
  BY <1>7, <1>8, <1>9 DEF BookInv

LEMMA WriteKeepsBook ==
  ASSUME BookInv, NEW w \in Thread, WriteBook(w)
  PROVE  BookInv'
<1>1. PICK e \in Editing : e = edit[w] /\ e.pc = "open"
  BY DEF BookInv, BookTypeOK, WriteBook, NoEdit
<1>2. /\ edit' = [edit EXCEPT ![w] = NoEdit] /\ interfered' = interfered
      /\ book' \in (IF book = Torn THEN {Holding(e.entries)} ELSE {Holding(e.entries), Torn})
      /\ intended' = IF e.what \in {"deploy", "retire"} /\ intended[e.rule] = "none"
                     THEN intended
                     ELSE [intended EXCEPT ![e.rule] =
                              CASE e.what = "deploy" -> "deployed"
                                [] e.what = "retire" -> "retired"
                                [] OTHER            -> e.what]
  BY <1>1 DEF WriteBook
<1>3. e.what \in What /\ e.rule \in Rule /\ e.entries \in Seq(Entry) /\ e # NoEdit
  BY <1>1 DEF Editing, NoEdit
<1>4. edit'[w] = NoEdit /\ \A v \in Thread : v # w => edit'[v] = edit[v]
  BY <1>2 DEF BookInv, BookTypeOK
<1>5. Holding(e.entries) \in [parses: BOOLEAN, entries: Seq(Entry)]
      /\ Torn \in [parses: BOOLEAN, entries: Seq(Entry)]
  BY <1>3, EmptySeq DEF Torn, Holding
<1>6. /\ intended' \in [Rule -> {"none", "shadow", "deployed", "retired"}]
      /\ \A r \in Rule : intended'[r] = Target(e, intended[r], r)
  BY <1>2, <1>3 DEF BookInv, BookTypeOK, What, Target
<1>7. book' \in [parses: BOOLEAN, entries: Seq(Entry)]
  BY <1>2, <1>5, Zenon
<1>8. BookTypeOK'
  BY <1>2, <1>6, <1>7 DEF BookInv, BookTypeOK
<1>9. ASSUME ~interfered' PROVE BookAgrees' /\ Undisturbed'
  <2>1. Undisturbed
    BY <1>2, <1>9 DEF BookInv
  <2>2. book' = Holding(e.entries)
    BY <1>1, <1>2, <2>1 DEF Undisturbed
  <2>3. \A v \in Thread : edit'[v] = NoEdit
    BY <1>1, <1>3, <1>4, <2>1 DEF Undisturbed
  <2>4. \A r \in Rule : StatusIn(e.entries, r) = Target(e, intended[r], r)
    BY <1>1, <1>3, <2>1 DEF Undisturbed
  <2>5. BookAgrees'
    BY <1>6, <2>2, <2>4 DEF BookAgrees, Entries, Holding
  <2>6. Undisturbed'
    BY <2>3 DEF Undisturbed, NoEdit
  <2>7. QED
    BY <2>5, <2>6
<1>10. QED
  BY <1>8, <1>9 DEF BookInv, BookAgrees

LEMMA ReloadKeepsBook ==
  ASSUME BookInv, ReloadRules
  PROVE  BookInv'
<1>1. /\ edit' = [w \in Thread |-> NoEdit] /\ book' = book /\ intended' = intended
      /\ interfered' = (interfered \/ \E w \in Thread : edit[w].pc = "open")
  BY DEF ReloadRules
<1>2. BookTypeOK'
  BY <1>1 DEF BookInv, BookTypeOK
<1>3. BookAgrees'
  BY <1>1 DEF BookInv, BookAgrees, Entries
<1>4. Undisturbed'
  BY <1>1 DEF Undisturbed, NoEdit
<1>5. QED
  BY <1>2, <1>3, <1>4 DEF BookInv

\* Safety of the book: undisturbed, it agrees with every operation that
\* finished, whatever the threads, rules and operations are.
LEMMA BookStep ==
  ASSUME BookInv, [BookNext]_bookVars
  PROVE  BookInv'
<1>1. CASE BookNext
  <2>1. ASSUME NEW w \in Thread, NEW r \in Rule, NEW what \in What, ReadBook(w, what, r)
        PROVE  BookInv'
    BY <2>1, ReadKeepsBook
  <2>2. ASSUME NEW w \in Thread, OpenBook(w) \/ WriteBook(w) PROVE BookInv'
    BY <2>2, OpenKeepsBook, WriteKeepsBook
  <2>3. QED
    BY <1>1, <2>1, <2>2, ReloadKeepsBook DEF BookNext, What
<1>2. CASE UNCHANGED bookVars
  BY <1>2 DEF bookVars, BookInv, BookTypeOK, BookAgrees, Undisturbed, Entries
<1>3. QED
  BY <1>1, <1>2

\* The rule book agrees with every operation that finished, as long as no two
\* ran at once and no crash caught one between emptying the file and filling
\* it: for every set of threads and rules and any number of operations.
THEOREM BookIsKept == BookSpec => []BookAgrees
<1>1. BookInv => BookAgrees
  BY DEF BookInv
<1>2. QED
  BY BookInvInit, BookStep, <1>1, PTL DEF BookSpec

-----------------------------------------------------------------------------
(* The agent.                                                              *)

\* Configurations that have been validated, those of the file a process
\* found, and those it may run with.
Posted == {validate_config(body) : body \in Body}
OnDisk == {Emptied} \cup Posted
Loaded == {validate_config(saved) : saved \in OnDisk}

ConfigTypeOK ==
    /\ saved_config \in OnDisk
    /\ config \in {Emptied} \cup Posted \cup Loaded
    /\ put \in [Putter -> {At("idle")} \cup [pc: {"cleared", "updated"}, config: Posted]]

BacklogTypeOK == novel \in Nat /\ tasks \in Nat

\* A tick is numbered by what was decided up to it, so the number of the next
\* one is owed to nobody; a number still owed is that of a flag being filed.
CasesOwed ==
    /\ DOMAIN stage = Loop
    /\ counted \in [{"block", "flag", "allow"} -> Nat]
    /\ owed \subseteq 1..Ticks
    /\ \A l \in Loop : stage[l].pc = "filing" =>
          /\ stage[l].tick \in 1..Ticks
          /\ stage[l].tick \in owed => stage[l].made.action = "flag"
    /\ FlaggedGetsACase

AgentInv == ConfigTypeOK /\ BacklogTypeOK /\ CasesOwed

LEMMA ValidatedSize ==
  ASSUME NEW body, BufferSizeKey \in DOMAIN body => body[BufferSizeKey] \in Int
  PROVE  /\ BufferSizeKey \in DOMAIN validate_config(body)
         /\ validate_config(body)[BufferSizeKey] \in Nat \ {0}
<1>1. BufferSizeKey \in DOMAIN DEFAULT_CONFIG /\ DEFAULT_CONFIG[BufferSizeKey] = 10
  <2>1. /\ BufferSizeKey \notin Toggle /\ BufferSizeKey[2] # "enabled"
        /\ BufferSizeKey[2] \notin {"block", "flag"}
    BY DEF BufferSizeKey, Toggle
  <2>2. QED
    BY <2>1, Zenon DEF DEFAULT_CONFIG
<1>2. PICK v \in Int : v = IF BufferSizeKey \in DOMAIN body THEN body[BufferSizeKey]
                          ELSE DEFAULT_CONFIG[BufferSizeKey]
  BY <1>1
<1>3. Clamped(BufferSizeKey, v) \in Nat \ {0}
  <2>1. /\ BufferSizeKey \notin Toggle /\ BufferSizeKey[2] # "enabled"
        /\ BufferSizeKey[2] \notin {"block", "flag"}
    BY DEF BufferSizeKey, Toggle
  <2>2. PICK clamped \in Int : clamped = IF v < 1 THEN 1 ELSE IF v > 100 THEN 100 ELSE v
    OBVIOUS
  <2>3. Clamped(BufferSizeKey, v) = clamped
    BY <2>1, <2>2, Zenon DEF Clamped
  <2>4. clamped \in Nat \ {0}
    BY <2>2
  <2>5. QED
    BY <2>3, <2>4
<1>4. QED
  BY <1>1, <1>2, <1>3, Zenon DEF validate_config

LEMMA Sizes ==
  ASSUME NEW c \in Posted \cup Loaded
  PROVE  BufferSizeKey \in DOMAIN c /\ c[BufferSizeKey] \in Nat \ {0}
<1>1. \A body \in Body : BufferSizeKey \in DOMAIN body => body[BufferSizeKey] \in Int
  BY AgentAssumption DEF AgentAssumption
<1>2. ASSUME NEW body \in Body
      PROVE  /\ BufferSizeKey \in DOMAIN validate_config(body)
             /\ validate_config(body)[BufferSizeKey] \in Nat \ {0}
  BY <1>1, ValidatedSize
<1>3. \A p \in Posted : BufferSizeKey \in DOMAIN p /\ p[BufferSizeKey] \in Nat \ {0}
  BY <1>2, Zenon DEF Posted
<1>4. BufferSizeKey \notin DOMAIN Emptied
  BY LenProperties, EmptySeq DEF Emptied, BufferSizeKey
<1>5. ASSUME NEW saved \in OnDisk
      PROVE  /\ BufferSizeKey \in DOMAIN validate_config(saved)
             /\ validate_config(saved)[BufferSizeKey] \in Nat \ {0}
  <2>1. BufferSizeKey \in DOMAIN saved => saved[BufferSizeKey] \in Int
    BY <1>3, <1>4 DEF OnDisk
  <2>2. QED
    BY <2>1, ValidatedSize
<1>6. QED
  BY <1>3, <1>5, Zenon DEF Loaded

LEMMA SizePositive ==
  ASSUME ConfigTypeOK
  PROVE  SizeNow \in Nat \ {0}
<1>1. CASE config = Emptied
  <2>1. BufferSizeKey \notin DOMAIN config
    BY <1>1, LenProperties, EmptySeq DEF Emptied, BufferSizeKey
  <2>2. SizeNow = 10
    BY <2>1, Zenon DEF SizeNow
  <2>3. QED
    BY <2>2
<1>2. CASE config \in Posted \cup Loaded
  BY <1>2, Sizes, Zenon DEF SizeNow
<1>3. QED
  BY <1>1, <1>2 DEF ConfigTypeOK

LEMMA AgentInvInit == AgentInit => AgentInv
<1> SUFFICES ASSUME AgentInit PROVE AgentInv
  OBVIOUS
<1>1. saved_config \in OnDisk /\ config \in Loaded
  BY DEF AgentInit, OnDisk, Posted, Loaded
<1>2. ConfigTypeOK
  BY <1>1 DEF AgentInit, ConfigTypeOK
<1>3. CasesOwed
  BY DEF AgentInit, CasesOwed, FlaggedGetsACase, At
<1>4. QED
  BY <1>2, <1>3 DEF AgentInit, AgentInv, BacklogTypeOK

LEMMA ConfigKept ==
  ASSUME ConfigTypeOK, UNCHANGED <<saved_config, config, put>>
  PROVE  ConfigTypeOK' /\ SizeNow' = SizeNow
BY DEF ConfigTypeOK, SizeNow

LEMMA CasesKept ==
  ASSUME CasesOwed, UNCHANGED <<stage, counted, owed>>
  PROVE  CasesOwed'
BY DEF CasesOwed, FlaggedGetsACase, Ticks

LEMMA DecisionIsCounted ==
  ASSUME NEW threat, NEW tx, NEW sig, NEW cfg
  PROVE  autonomous_decision(threat, tx, sig, cfg).action \in {"block", "flag", "allow"}
BY Zenon DEF autonomous_decision

\* A task that is not filing goes on to something that is not a filing.
LEMMA NobodyFiles ==
  ASSUME CasesOwed, NEW l \in Loop, stage[l].pc # "filing",
         NEW s, s.pc # "filing", stage' = [stage EXCEPT ![l] = s],
         UNCHANGED <<counted, owed>>
  PROVE  CasesOwed'
<1>1. /\ DOMAIN stage' = Loop /\ stage'[l] = s
      /\ \A m \in Loop : m # l => stage'[m] = stage[m]
  BY DEF CasesOwed
<1>2. Ticks' = Ticks
  BY DEF Ticks
<1>3. FlaggedGetsACase'
  BY <1>1 DEF CasesOwed, FlaggedGetsACase
<1>4. QED
  BY <1>1, <1>2, <1>3 DEF CasesOwed

LEMMA TickKeeps ==
  ASSUME CasesOwed, NEW l \in Loop, NEW tx \in Tx, Tick(l, tx)
  PROVE  CasesOwed'
<1>1. stage[l].pc # "filing"
  BY DEF Tick, Awake
<1>2. PICK made : /\ made = autonomous_decision(classify_threat(tx, detect_ai_signature(tx)), tx,
                                               detect_ai_signature(tx), config)
                  /\ made.action \in {"block", "flag", "allow"}
  BY DecisionIsCounted
<1>3. CASE stage' = [stage EXCEPT ![l] = At("asleep")] /\ UNCHANGED <<counted, owed>>
  <2>1. At("asleep").pc # "filing"
    BY DEF At
  <2>2. QED
    BY <1>1, <1>3, <2>1, NobodyFiles
<1>4. CASE /\ stage' = [stage EXCEPT ![l] = [pc |-> "filing", made |-> made,
                                            novel |-> is_novel(tx), tick |-> Ticks + 1]]
           /\ counted' = [counted EXCEPT ![made.action] = @ + 1]
           /\ owed' = IF made.action = "flag" THEN owed \cup {Ticks + 1} ELSE owed
  <2>1. PICK s : s = [pc |-> "filing", made |-> made, novel |-> is_novel(tx), tick |-> Ticks + 1]
    OBVIOUS
  <2>2. s.pc = "filing" /\ s.made = made /\ s.tick = Ticks + 1
    BY <2>1
  <2>3. /\ DOMAIN stage' = Loop /\ stage'[l] = s
        /\ \A m \in Loop : m # l => stage'[m] = stage[m]
    BY <1>4, <2>1 DEF CasesOwed
  <2>4. /\ counted' \in [{"block", "flag", "allow"} -> Nat]
        /\ Ticks \in Nat /\ Ticks' = Ticks + 1
    BY <1>2, <1>4 DEF CasesOwed, Ticks
  <2>5. owed' \subseteq 1..Ticks'
    BY <1>4, <2>4 DEF CasesOwed
  <2>6. ASSUME NEW m \in Loop, stage'[m].pc = "filing"
        PROVE  /\ stage'[m].tick \in 1..Ticks'
               /\ stage'[m].tick \in owed' => stage'[m].made.action = "flag"
    <3>1. CASE m = l
      <4>1. Ticks + 1 \notin owed
        BY <2>4 DEF CasesOwed
      <4>2. QED
        BY <1>4, <2>2, <2>3, <2>4, <3>1, <4>1
    <3>2. CASE m # l
      <4>1. stage'[m] = stage[m] /\ stage[m].tick \in 1..Ticks
        BY <2>3, <2>6, <3>2 DEF CasesOwed
      <4>2. stage[m].tick # Ticks + 1
        BY <2>4, <4>1
      <4>3. stage[m].tick \in owed' => stage[m].tick \in owed
        BY <1>4, <4>2
      <4>4. QED
        BY <2>4, <2>6, <4>1, <4>3 DEF CasesOwed
    <3>3. QED
      BY <3>1, <3>2
  <2>7. ASSUME NEW n \in owed'
        PROVE  \E m \in Loop : stage'[m].pc = "filing" /\ stage'[m].tick = n
    <3>1. CASE n \in owed
      BY <1>1, <2>3, <3>1 DEF CasesOwed, FlaggedGetsACase
    <3>2. CASE n \notin owed
      BY <1>4, <2>2, <2>3, <3>2, <2>7
    <3>3. QED
      BY <3>1, <3>2
  <2>8. FlaggedGetsACase'
    BY <2>7 DEF FlaggedGetsACase
  <2>9. QED
    BY <2>3, <2>4, <2>5, <2>6, <2>8 DEF CasesOwed
<1>5. QED
  BY <1>2, <1>3, <1>4 DEF Tick

LEMMA FileKeeps ==
  ASSUME AgentInv, NEW l \in Loop, File(l)
  PROVE  BacklogTypeOK' /\ CasesOwed'
<1>1. PICK s : s = stage[l]
  OBVIOUS
<1>2. PICK made : made = s.made
  OBVIOUS
<1>3. /\ s.pc = "filing" /\ counted' = counted
      /\ stage' = [stage EXCEPT ![l] = At("asleep")]
      /\ \/ novel' = novel /\ tasks' = tasks
         \/ novel' = novel + 1 /\ tasks' = TasksAfter(novel + 1)
      /\ \/ made.action # "flag" /\ owed' = owed
         \/ owed' = owed \ {s.tick}
  <2>1. Raises(made) => made.action # "flag"
    BY DEF Raises
  <2>2. ~ _should_create_case(made) => made.action # "flag"
    BY DEF _should_create_case
  <2>3. QED
    BY <1>1, <1>2, <2>1, <2>2, Zenon DEF File
<1>4. BacklogTypeOK'
  BY <1>3 DEF AgentInv, BacklogTypeOK, TasksAfter
<1>5. /\ DOMAIN stage' = Loop /\ stage'[l].pc # "filing"
      /\ \A m \in Loop : m # l => stage'[m] = stage[m]
  BY <1>3 DEF AgentInv, CasesOwed, At
<1>6. Ticks' = Ticks /\ owed' \subseteq owed
  BY <1>3 DEF Ticks
<1>7. s.tick \notin owed'
  BY <1>1, <1>2, <1>3 DEF AgentInv, CasesOwed
<1>8. FlaggedGetsACase'
  <2>1. ASSUME NEW n \in owed'
        PROVE  \E m \in Loop : stage'[m].pc = "filing" /\ stage'[m].tick = n
    <3>1. PICK m \in Loop : stage[m].pc = "filing" /\ stage[m].tick = n
      BY <1>6 DEF AgentInv, CasesOwed, FlaggedGetsACase
    <3>2. m # l
      BY <1>1, <1>7, <3>1
    <3>3. QED
      BY <1>5, <3>1, <3>2
  <2>2. QED
    BY <2>1 DEF FlaggedGetsACase
<1>9. CasesOwed'
  BY <1>3, <1>5, <1>6, <1>8 DEF AgentInv, CasesOwed
<1>10. QED
  BY <1>4, <1>9

LEMMA PutKeeps ==
  ASSUME AgentInv, NEW p \in Putter, ClearConfig(p) \/ UpdateConfig(p) \/ SaveConfig(p)
  PROVE  ConfigTypeOK'
<1>1. CASE ClearConfig(p)
  <2>1. PICK body \in Body :
           put' = [put EXCEPT ![p] = [pc |-> "cleared", config |-> validate_config(body)]]
    BY <1>1 DEF ClearConfig
  <2>2. config' = Emptied /\ saved_config' = saved_config
    BY <1>1 DEF ClearConfig
  <2>3. validate_config(body) \in Posted
    BY DEF Posted
  <2>4. QED
    BY <2>1, <2>2, <2>3 DEF AgentInv, ConfigTypeOK
<1>2. CASE UpdateConfig(p)
  <2>1. PICK q \in [pc: {"cleared", "updated"}, config: Posted] : q = put[p]
    BY <1>2 DEF AgentInv, ConfigTypeOK, UpdateConfig, At
  <2>2. /\ config' = q.config /\ saved_config' = saved_config
        /\ put' = [put EXCEPT ![p] = [q EXCEPT !.pc = "updated"]]
    BY <1>2, <2>1 DEF UpdateConfig
  <2>3. [q EXCEPT !.pc = "updated"] \in [pc: {"cleared", "updated"}, config: Posted]
    BY <2>1
  <2>4. QED
    BY <2>1, <2>2, <2>3 DEF AgentInv, ConfigTypeOK
<1>3. CASE SaveConfig(p)
  <2>1. PICK q \in [pc: {"cleared", "updated"}, config: Posted] : q = put[p]
    BY <1>3 DEF AgentInv, ConfigTypeOK, SaveConfig, At
  <2>2. /\ saved_config' = q.config /\ config' = config
        /\ put' = [put EXCEPT ![p] = At("idle")]
    BY <1>3, <2>1 DEF SaveConfig
  <2>3. QED
    BY <2>1, <2>2 DEF AgentInv, ConfigTypeOK, OnDisk
<1>4. QED
  BY <1>1, <1>2, <1>3

LEMMA RestartKeeps ==
  ASSUME AgentInv, RestartAgent
  PROVE  AgentInv' /\ SizeNow' \in Nat \ {0} /\ novel' = 0 /\ tasks' = 0
<1>1. /\ config' = validate_config(saved_config) /\ saved_config' = saved_config
      /\ put' = [p \in Putter |-> At("idle")] /\ novel' = 0 /\ tasks' = 0
      /\ stage' = [l \in Loop |-> At("none")] /\ owed' = {}
      /\ counted' = [a \in DOMAIN counted |-> 0]
  BY DEF RestartAgent
<1>2. config' \in Loaded
  BY <1>1 DEF AgentInv, ConfigTypeOK, Loaded
<1>3. PICK size \in Nat \ {0} :
         size = IF BufferSizeKey \in DOMAIN config' THEN config'[BufferSizeKey] ELSE 10
  BY <1>2, Sizes
<1>4. ConfigTypeOK'
  BY <1>1, <1>2 DEF AgentInv, ConfigTypeOK
<1>5. CasesOwed'
  BY <1>1 DEF AgentInv, CasesOwed, FlaggedGetsACase, At
<1>6. SizeNow' = size
  BY <1>3, Zenon DEF SizeNow
<1>7. QED
  BY <1>1, <1>3, <1>4, <1>5, <1>6 DEF AgentInv, BacklogTypeOK

\* The steps that leave the configuration, the backlog and the decisions alone.
LEMMA OthersKeep ==
  ASSUME AgentInv, UNCHANGED <<saved_config, config, put, novel, tasks, stage, counted, owed>>
  PROVE  AgentInv'
BY ConfigKept, CasesKept DEF AgentInv, BacklogTypeOK

LEMMA AgentStep ==
  ASSUME AgentInv, [AgentNext]_<<bookVars, agentVars>>
  PROVE  AgentInv'
<1>1. CASE Stop \/ Resolve
  BY <1>1, OthersKeep DEF Stop, Resolve, tickVars
<1>2. ASSUME NEW l \in Loop, stage[l].pc # "filing",
             NEW pc \in {"none", "queued", "ready"}, stage' = [stage EXCEPT ![l] = At(pc)],
             UNCHANGED <<saved_config, config, put, novel, tasks, counted, owed>>
      PROVE  AgentInv'
  <2>1. At(pc).pc # "filing"
    BY <1>2 DEF At
  <2>2. CasesOwed'
    BY <1>2, <2>1, NobodyFiles DEF AgentInv
  <2>3. QED
    BY <1>2, <2>2, ConfigKept DEF AgentInv, BacklogTypeOK
<1>3. CASE Start
  BY <1>2, <1>3 DEF Start, Live, tickVars
<1>4. ASSUME NEW l \in Loop, Begin(l) \/ Abort(l) \/ Leave(l)
      PROVE  AgentInv'
  BY <1>2, <1>4 DEF Begin, Abort, Leave, Awake, tickVars
<1>5. ASSUME NEW l \in Loop, File(l) PROVE AgentInv'
  <2>1. UNCHANGED <<saved_config, config, put>>
    BY <1>5 DEF File
  <2>2. QED
    BY <1>5, <2>1, FileKeeps, ConfigKept DEF AgentInv
<1>6. ASSUME NEW l \in Loop, NEW tx \in Tx, Tick(l, tx) PROVE AgentInv'
  <2>1. UNCHANGED <<saved_config, config, put, novel, tasks>>
    BY <1>6 DEF Tick
  <2>2. QED
    BY <1>6, <2>1, TickKeeps, ConfigKept DEF AgentInv, BacklogTypeOK
<1>7. CASE Learn
  <2>1. UNCHANGED <<saved_config, config, put, stage, counted, owed>>
    BY <1>7 DEF Learn, tickVars
  <2>2. ConfigTypeOK' /\ CasesOwed'
    BY <2>1, ConfigKept, CasesKept DEF AgentInv
  <2>3. BacklogTypeOK'
    BY <1>7, SizePositive DEF Learn, GivesUp, AgentInv, BacklogTypeOK
  <2>4. QED
    BY <2>2, <2>3 DEF AgentInv
<1>8. ASSUME NEW p \in Putter, ClearConfig(p) \/ UpdateConfig(p) \/ SaveConfig(p)
      PROVE  AgentInv'
  <2>1. UNCHANGED <<stage, counted, owed, novel, tasks>>
    BY <1>8 DEF ClearConfig, UpdateConfig, SaveConfig, tickVars
  <2>2. QED
    BY <1>8, <2>1, PutKeeps, CasesKept DEF AgentInv, BacklogTypeOK
<1>9. ASSUME NEW w \in Thread,
             \/ PipelineSaves(w) \/ Moderate(w) \/ Write(w)
             \/ \E answered \in BOOLEAN : PipelineEnds(w, answered)
      PROVE  AgentInv'
  BY <1>9, OthersKeep DEF PipelineSaves, Moderate, Write, PipelineEnds, agentVars, tickVars
<1>10. CASE UNCHANGED <<bookVars, agentVars>>
  BY <1>10, OthersKeep DEF agentVars
<1>11. CASE AgentNext
  BY <1>1, <1>3, <1>4, <1>5, <1>6, <1>7, <1>8, <1>9, <1>11, RestartKeeps DEF AgentNext
<1>12. QED
  BY <1>10, <1>11

THEOREM AgentInductive == AgentSpec => []AgentInv
BY AgentInvInit, AgentStep, PTL DEF AgentSpec

\* A flagged payment reaches the case queue whatever a PUT of the
\* configuration does between its decision and its filing, unless the process
\* ends there: for any number of tasks, PUT threads and payments, and every
\* configuration.
THEOREM FlagsAreFiled == AgentSpec => []FlaggedGetsACase
<1>1. AgentInv => FlaggedGetsACase
  BY DEF AgentInv, CasesOwed
<1>2. QED
  BY AgentInductive, <1>1, PTL

\* The steps that leave the size, the buffer and the tasks alone.
LEMMA BacklogAlone ==
  ASSUME UNCHANGED <<config, novel, tasks>>
  PROVE  Overfull' => Overfull
BY DEF Overfull, SizeNow

\* Only a smaller size and a task that gives up take the buffer past what the
\* tasks will cut: for every size that can be posted and any number of tasks.
THEOREM BacklogIsBounded == AgentSpec => BacklogIsCut
<1> DEFINE Excused == Overfull' => Overfull \/ SizeNow' # SizeNow \/ (Learn /\ GivesUp)
<1>1. ASSUME AgentInv, [AgentNext]_<<bookVars, agentVars>>
      PROVE  [Excused]_<<bookVars, agentVars>>
  <2>1. CASE Start \/ Stop \/ Resolve
    BY <2>1, BacklogAlone DEF Start, Stop, Resolve
  <2>2. ASSUME NEW l \in Loop,
               Begin(l) \/ Abort(l) \/ Leave(l) \/ \E tx \in Tx : Tick(l, tx)
        PROVE  Excused
    BY <2>2, BacklogAlone DEF Begin, Abort, Leave, Tick
  <2>3. ASSUME NEW l \in Loop, File(l) PROVE Excused
    <3>1. config' = config
      BY <2>3 DEF File
    <3>2. \/ novel' = novel /\ tasks' = tasks
          \/ novel' = novel + 1 /\ tasks' = TasksAfter(novel + 1)
      BY <2>3, Zenon DEF File
    <3>3. SizeNow' = SizeNow
      BY <3>1 DEF SizeNow
    <3>4. PICK size \in Nat \ {0} : size = SizeNow
      BY <1>1, SizePositive DEF AgentInv
    <3>5. QED
      BY <1>1, <3>2, <3>3, <3>4 DEF AgentInv, BacklogTypeOK, Overfull, TasksAfter
  <2>4. CASE Learn
    <3>1. config' = config
      BY <2>4 DEF Learn
    <3>2. SizeNow' = SizeNow
      BY <3>1 DEF SizeNow
    <3>3. PICK size \in Nat \ {0} : size = SizeNow
      BY <1>1, SizePositive DEF AgentInv
    <3>4. CASE ~GivesUp
      <4>1. /\ tasks > 0 /\ tasks' = tasks - 1
            /\ novel' = IF novel > size THEN novel - size ELSE 0
        BY <2>4, <3>3, <3>4, Zenon DEF Learn
      <4>2. QED
        BY <1>1, <3>2, <3>3, <4>1 DEF AgentInv, BacklogTypeOK, Overfull
    <3>5. QED
      BY <2>4, <3>4
  <2>5. ASSUME NEW p \in Putter, ClearConfig(p) \/ UpdateConfig(p) \/ SaveConfig(p)
        PROVE  Excused
    BY <2>5 DEF ClearConfig, UpdateConfig, SaveConfig, Overfull
  <2>6. CASE RestartAgent
    <3>1. PICK size \in Nat \ {0} : size = SizeNow' /\ novel' = 0 /\ tasks' = 0
      BY <1>1, <2>6, RestartKeeps
    <3>2. \A k \in Nat \ {0} : ~(0 >= k + 0)
      OBVIOUS
    <3>3. ~ Overfull'
      BY <3>1, <3>2, Zenon DEF Overfull
    <3>4. QED
      BY <3>3
  <2>7. ASSUME NEW w \in Thread,
               \/ PipelineSaves(w) \/ Moderate(w) \/ Write(w)
               \/ \E answered \in BOOLEAN : PipelineEnds(w, answered)
        PROVE  Excused
    BY <2>7, BacklogAlone DEF PipelineSaves, Moderate, Write, PipelineEnds, agentVars
  <2>8. QED
    BY <1>1, <2>1, <2>2, <2>3, <2>4, <2>5, <2>6, <2>7 DEF AgentNext
<1>2. QED
  BY <1>1, AgentInductive, PTL DEF AgentSpec, BacklogIsCut

LEMMA AgentStepsTheBook ==
  [AgentNext]_<<bookVars, agentVars>> => [BookNext]_bookVars
<1> SUFFICES ASSUME [AgentNext]_<<bookVars, agentVars>> PROVE [BookNext]_bookVars
  OBVIOUS
<1>1. CASE Start \/ Stop \/ Resolve \/ Learn
  BY <1>1 DEF Start, Stop, Resolve, Learn
<1>2. CASE RestartAgent
  BY <1>2 DEF RestartAgent, BookNext
<1>3. ASSUME NEW p \in Putter, ClearConfig(p) \/ UpdateConfig(p) \/ SaveConfig(p)
      PROVE  [BookNext]_bookVars
  BY <1>3 DEF ClearConfig, UpdateConfig, SaveConfig
<1>4. ASSUME NEW l \in Loop,
             \/ Begin(l) \/ Abort(l) \/ Leave(l) \/ File(l)
             \/ \E tx \in Tx : Tick(l, tx)
      PROVE  [BookNext]_bookVars
  BY <1>4 DEF Begin, Abort, Leave, File, Tick
<1>5. ASSUME NEW w \in Thread, PipelineSaves(w) \/ Moderate(w) PROVE BookNext
  BY <1>5 DEF PipelineSaves, Moderate, BookNext
<1>6. ASSUME NEW w \in Thread, Write(w) PROVE BookNext
  BY <1>6 DEF Write, BookNext
<1>7. ASSUME NEW w \in Thread, NEW answered \in BOOLEAN, PipelineEnds(w, answered)
      PROVE  [BookNext]_bookVars
  BY <1>7 DEF PipelineEnds
<1>8. CASE AgentNext
  BY <1>1, <1>2, <1>3, <1>4, <1>5, <1>6, <1>7, <1>8 DEF AgentNext
<1>9. CASE UNCHANGED <<bookVars, agentVars>>
  BY <1>9
<1>10. QED
  BY <1>8, <1>9

\* The agent, its pipelines and the moderation handlers use the rule book as
\* the book's own specification describes it, so what is proved of the book
\* on its own holds under the agent.
THEOREM AgentUsesTheBook == AgentSpec => BookSpec
<1>1. AgentInit => BookInit
  BY DEF AgentInit
<1>2. QED
  BY <1>1, AgentStepsTheBook, PTL DEF AgentSpec, BookSpec
=============================================================================
