------------------------------ MODULE RuleBook ------------------------------
(***************************************************************************)
(* The generated rules of rule_factory.py: generated_rules.json, read      *)
(* whole, changed in memory and written back whole by pipeline threads and *)
(* by the deploy and retire handlers, without a lock; and the dictionary   *)
(* of deployed rules GET /patterns serves, filled when the module is       *)
(* imported.                                                               *)
(***************************************************************************)
EXTENDS Integers, Sequences, FiniteSets

CONSTANTS
    Thread,         \* threads that may be inside a book operation
    Rule,           \* rule names; the id is a digest of the name
    MaxRuleOps      \* bound on book operations

ASSUME RuleBookAssumption == MaxRuleOps \in Nat

VARIABLES
    book,           \* the file: whether it parses, and its entries [rule, status]
    edit,           \* per thread, the operation it is in
    deployed_rules, \* _deployed_rules: ids served as deployed
    intended,       \* history: the status each rule was last given, "none" if never saved
    interfered,     \* history: two operations overlapped, or a crash hit one
    ruleOps         \* counter of the bound

bookVars == <<book, edit, deployed_rules, intended, interfered, ruleOps>>

Holding(entries) == [parses |-> TRUE, entries |-> entries]
Torn == [parses |-> FALSE, entries |-> <<>>]
NoEdit == [pc |-> "none"]

\* load_generated_rules, and the reading half of save_generated_rule: a file
\* that does not parse is an empty book.
Entries == book.entries

StatusIn(entries, r) ==
    LET at == {i \in DOMAIN entries : entries[i].rule = r}
    IN  IF at = {} THEN "none"
        ELSE entries[CHOOSE i \in at : \A j \in at : j <= i].status

DeployedIn(entries) == {entries[i].rule : i \in {j \in DOMAIN entries : entries[j].status = "deployed"}}

\* Mutant: a saved rule starts the book anew.
Edited_FromScratch(entries, what, r) ==
    IF what \in {"shadow", "deployed"} THEN <<[rule |-> r, status |-> what]>>
    ELSE entries

\* A save appends, whether or not the name is there already; deploy and retire
\* change every entry of the id, and write the book back when there is none.
Edited(entries, what, r) ==
    CASE what \in {"shadow", "deployed"} -> Append(entries, [rule |-> r, status |-> what])
      [] what = "deploy" -> [i \in DOMAIN entries |->
            IF entries[i].rule = r THEN [entries[i] EXCEPT !.status = "deployed"] ELSE entries[i]]
      [] what = "retire" -> [i \in DOMAIN entries |->
            IF entries[i].rule = r THEN [entries[i] EXCEPT !.status = "retired"] ELSE entries[i]]

BookInit ==
    /\ book = Holding(<<>>)
    /\ edit = [w \in Thread |-> NoEdit]
    /\ deployed_rules = {}
    /\ intended = [r \in Rule |-> "none"]
    /\ interfered = FALSE
    /\ ruleOps = 0

ReadBook(w, what, r) ==
    /\ edit[w] = NoEdit /\ ruleOps < MaxRuleOps
    /\ edit' = [edit EXCEPT ![w] = [pc |-> "read", what |-> what, rule |-> r,
                                    entries |-> Edited(Entries, what, r)]]
    /\ ruleOps' = ruleOps + 1
    /\ interfered' = (interfered \/ \E v \in Thread : edit[v] # NoEdit)
    /\ UNCHANGED <<book, deployed_rules, intended>>

\* write_text opens the file, which empties it,
OpenBook(w) ==
    /\ edit[w].pc = "read"
    /\ book' = Torn
    /\ edit' = [edit EXCEPT ![w].pc = "open"]
    /\ UNCHANGED <<deployed_rules, intended, interfered, ruleOps>>

\* and then writes.  Over what another thread wrote meanwhile, a shorter text
\* leaves the tail of the longer one.
WriteBook(w) ==
    /\ edit[w].pc = "open"
    /\ LET e == edit[w]
       IN  /\ book' \in (IF book = Torn THEN {Holding(e.entries)} ELSE {Holding(e.entries), Torn})
           /\ intended' = IF e.what \in {"deploy", "retire"} /\ intended[e.rule] = "none"
                          THEN intended
                          ELSE [intended EXCEPT ![e.rule] =
                                  CASE e.what = "deploy" -> "deployed"
                                    [] e.what = "retire" -> "retired"
                                    [] OTHER            -> e.what]
    /\ edit' = [edit EXCEPT ![w] = NoEdit]
    /\ UNCHANGED <<deployed_rules, interfered, ruleOps>>

\* The import of the module in a new process.
ReloadRules ==
    /\ edit' = [w \in Thread |-> NoEdit]
    /\ deployed_rules' = DeployedIn(Entries)
    /\ interfered' = (interfered \/ \E w \in Thread : edit[w].pc = "open")
    /\ UNCHANGED <<book, intended, ruleOps>>

BookNext ==
    \/ \E w \in Thread, r \in Rule, what \in {"shadow", "deployed", "deploy", "retire"} :
            ReadBook(w, what, r)
    \/ \E w \in Thread : OpenBook(w) \/ WriteBook(w)
    \/ ReloadRules

BookSpec == BookInit /\ [][BookNext]_bookVars

-----------------------------------------------------------------------------

\* The book agrees with every operation that finished, as long as no two ran
\* at once and no crash caught one between emptying the file and filling it.
BookAgrees ==
    ~interfered /\ (\A w \in Thread : edit[w].pc # "open") =>
        /\ book.parses
        /\ \A r \in Rule : StatusIn(Entries, r) = intended[r]

\* "populated on import, kept in sync by deploy_rule() and retire_rule()".
DeployedRulesInSync ==
    ~interfered /\ (\A w \in Thread : edit[w] = NoEdit) => deployed_rules = DeployedIn(Entries)
=============================================================================
