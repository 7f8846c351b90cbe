-------------------------- MODULE RulesEngine_proofs --------------------------
(***************************************************************************)
(* Proofs about the rules engine for every rule file, every set of         *)
(* requests and every value of the bounds, and at the end about the pair   *)
(* of RulesPump.  Up to there the variable clients and the definitions of  *)
(* RulesPump play no part.                                                 *)
(***************************************************************************)
EXTENDS RulesPump, NumberLemmas, SequenceTheorems, FiniteSetTheorems, TLAPS

\* Where each thread can be, and that the indexes it works with are in range
\* there.  It needs LockProtocol: a reload by the other thread would shrink the
\* rules under a running pass.
Places ==
  /\ pc[Monitor] \notin {"lock", "forward"}
  /\ pc[Command] \notin {"rule", "input", "compare"}
  /\ pc[Monitor] \in {"input", "compare", "command"} => at[Monitor] \in 1..Len(rules)
  /\ pc[Monitor] \in {"input", "compare"}
       => step[Monitor] \in 1..Len(rules[at[Monitor]].conditions)
  /\ pc[Monitor] = "rule" => step[Monitor] = 1
  /\ pc[Command] = "command" => at[Command] \in 1..Len(rules)

IInv == TypeOK /\ LockProtocol /\ Places

\* The index setRuleEnabledInternal and executeRuleCommands find is that of a
\* rule with the id.
LEMMA IndexOfRule ==
  ASSUME rules \in Seq(Rule), NEW id, HasRule(id)
  PROVE  IndexOf(id) \in 1..Len(rules) /\ rules[IndexOf(id)].id = id
<1> DEFINE T == {k \in 1..Len(rules) : rules[k].id = id}
<1>1. T \subseteq 1..Len(rules) /\ T \subseteq Nat /\ T # {}
  BY DEF HasRule
<1>2. \E k \in T : \A j \in T : k <= j
  <2> HIDE DEF T
  <2>1. QED
    BY <1>1, LeastNumber
<1>3. \E k \in DOMAIN rules :
        /\ rules[k].id = id
        /\ \A j \in DOMAIN rules : rules[j].id = id => k <= j
  BY <1>2
<1>4. QED
  BY <1>3 DEF IndexOf

\* Return leaves the control variables well typed.
LEMMA ReturnTypes ==
  ASSUME TypeOK, NEW t \in Threads, NEW ok \in BOOLEAN, Return(t, ok)
  PROVE  /\ pc' \in [Threads -> Locations]
         /\ at' \in [Threads -> Nat \ {0}]
         /\ step' \in [Threads -> Nat \ {0}]
         /\ modified' \in [Threads -> BOOLEAN]
         /\ request' \in Requests \union {NoRequest}
<1>1. pc' \in [Threads -> Locations]
  BY DEF TypeOK, Return, Goto, Locations
<1>2. at' \in [Threads -> Nat \ {0}] /\ step' \in [Threads -> Nat \ {0}]
  BY DEF TypeOK, Return, ResetLocals
<1>3. modified' \in [Threads -> BOOLEAN]
  BY DEF TypeOK, Return, ResetLocals
<1>4. request' \in Requests \union {NoRequest}
  BY DEF TypeOK, Return
<1>5. QED
  BY <1>1, <1>2, <1>3, <1>4

\* Moving to the next rule leaves the control variables well typed.
LEMMA NextRuleTypes ==
  ASSUME TypeOK, NextRule
  PROVE  /\ pc' \in [Threads -> Locations]
         /\ at' \in [Threads -> Nat \ {0}]
         /\ step' \in [Threads -> Nat \ {0}]
<1>1. /\ at \in [Threads -> Nat \ {0}]
      /\ step \in [Threads -> Nat \ {0}]
      /\ pc \in [Threads -> Locations]
  BY DEF TypeOK
<1>2. pc' \in [Threads -> Locations]
  BY <1>1 DEF NextRule, Goto, Locations
<1>3. at' \in [Threads -> Nat \ {0}]
  <2>1. at[Monitor] + 1 \in Nat \ {0}
    BY <1>1 DEF Threads
  <2>2. QED
    BY <1>1, <2>1 DEF NextRule, current
<1>4. step' \in [Threads -> Nat \ {0}]
  BY <1>1 DEF NextRule, Threads
<1>5. QED
  BY <1>2, <1>3, <1>4

\* A verdict leaves the variables it sets well typed.
LEMMA VerdictTypes ==
  ASSUME TypeOK, NEW met \in BOOLEAN, Verdict(met)
  PROVE  /\ pc' \in [Threads -> Locations]
         /\ at' \in [Threads -> Nat \ {0}]
         /\ step' \in [Threads -> Nat \ {0}]
         /\ lastState' \in [RuleIds -> BOOLEAN]
         /\ spent' \subseteq Nat
<1>1. /\ at \in [Threads -> Nat \ {0}]
      /\ step \in [Threads -> Nat \ {0}]
      /\ pc \in [Threads -> Locations]
  BY DEF TypeOK
<1>2. /\ pc' \in [Threads -> Locations]
      /\ at' \in [Threads -> Nat \ {0}]
      /\ step' \in [Threads -> Nat \ {0}]
  <2>1. CASE NextRule
    BY <2>1, NextRuleTypes
  <2>2. CASE /\ Goto(Monitor, "command") /\ UNCHANGED at
             /\ step' = [step EXCEPT ![Monitor] = 1]
    BY <1>1, <2>2 DEF Goto, Locations, Threads
  <2>3. QED
    BY <2>1, <2>2 DEF Verdict
<1>3. lastState' \in [RuleIds -> BOOLEAN]
  BY DEF TypeOK, Verdict
<1>4. spent' \subseteq Nat
  <2>1. at[Monitor] \in Nat
    BY <1>1 DEF Threads
  <2>2. QED
    BY <2>1 DEF TypeOK, Verdict, current
<1>5. QED
  BY <1>2, <1>3, <1>4

\* Switching a rule on or off keeps the rules well typed, and changes neither
\* their number nor anything of a rule but enabled.
LEMMA SetEnabledTypes ==
  ASSUME TypeOK, NEW id, NEW on \in BOOLEAN, SetRuleEnabledInternal(id, on)
  PROVE  /\ rules' \in Seq(Rule)
         /\ Len(rules') = Len(rules)
         /\ \A k \in 1..Len(rules) :
              /\ rules'[k].id = rules[k].id
              /\ rules'[k].conditions = rules[k].conditions
              /\ rules'[k].commands = rules[k].commands
         /\ lastState' \in [RuleIds -> BOOLEAN]
         /\ spent' \subseteq Nat
<1> DEFINE n == IndexOf(id)
<1>1. rules \in Seq(Rule)
  BY DEF TypeOK
<1>2. rules' = [rules EXCEPT ![n].enabled = on]
  BY DEF SetRuleEnabledInternal
<1>3. lastState' \in [RuleIds -> BOOLEAN] /\ spent' \subseteq Nat
  BY DEF TypeOK, SetRuleEnabledInternal
<1> HIDE DEF n
<1>4. CASE n \in 1..Len(rules)
  <2> DEFINE e == [rules[n] EXCEPT !.enabled = on]
  <2>1. rules[n] \in Rule
    BY <1>1, <1>4, ElementOfSeq
  <2>2. e \in Rule /\ e.id = rules[n].id /\ e.conditions = rules[n].conditions
        /\ e.commands = rules[n].commands
    BY <2>1 DEF Rule
  <2>3. rules' = [rules EXCEPT ![n] = e]
    BY <1>1, <1>2, <1>4, LenProperties
  <2> HIDE DEF e
  <2>4. QED
    BY <1>1, <1>3, <1>4, <2>2, <2>3, ExceptSeq
<1>5. CASE n \notin 1..Len(rules)
  <2>1. rules' = rules
    BY <1>1, <1>2, <1>5, LenProperties
  <2>2. QED
    BY <1>1, <1>3, <2>1
<1>6. QED
  BY <1>4, <1>5

----------------------------------------------------------------------------
(* Every step of the engine keeps TypeOK; one lemma per group of actions.  *)

\* loadRules before it takes the mutex.
LEMMA LoadReadTypes ==
  ASSUME TypeOK, NEW t \in Threads, LoadRead(t)
  PROVE TypeOK'
<1>1. CASE Return(t, FALSE) /\ UNCHANGED loaded
  BY <1>1, ReturnTypes DEF TypeOK, LoadRead, memory, bounds
<1>2. CASE UNCHANGED <<locals, request>> /\ (Goto(t, "clear") \/ Goto(t, "install"))
  BY <1>2 DEF TypeOK, LoadRead, Goto, Locations, memory, locals, bounds
<1>3. QED
  BY <1>1, <1>2 DEF LoadRead

\* loadRules installing what it read.
LEMMA LoadInstallTypes ==
  ASSUME TypeOK, NEW t \in Threads, LoadInstall(t)
  PROVE TypeOK'
<1>1. Return(t, TRUE)
  BY DEF LoadInstall
<1>2. /\ rules' \in Seq(Rule)
      /\ loaded' \in [Threads -> Seq(Rule)]
      /\ lastState' \in [RuleIds -> BOOLEAN]
      /\ spent' \subseteq Nat
  <2>1. loaded \in [Threads -> Seq(Rule)]
    BY DEF TypeOK
  <2>2. <<>> \in Seq(Rule)
    OBVIOUS
  <2>3. QED
    BY <2>1, <2>2 DEF LoadInstall, NeverMet
<1>3. QED
  BY <1>1, <1>2, ReturnTypes DEF TypeOK, LoadInstall, bounds

\* A pass reaching a rule.
LEMMA EvaluateRuleTypes ==
  ASSUME TypeOK, EvaluateRule
  PROVE TypeOK'
<1>1. CASE ~rules[current].enabled
  <2>1. lastState' \in [RuleIds -> BOOLEAN] /\ spent' \subseteq Nat /\ NextRule
    BY <1>1 DEF EvaluateRule, TypeOK
  <2>2. QED
    BY <2>1, NextRuleTypes DEF EvaluateRule, TypeOK, bounds
<1>2. CASE \E met \in BOOLEAN : Verdict(met)
  BY <1>2, VerdictTypes DEF TypeOK, EvaluateRule, bounds
<1>3. CASE UNCHANGED <<lastState, spent, at, step>> /\ Goto(Monitor, "input")
  BY <1>3 DEF TypeOK, EvaluateRule, Goto, Locations, bounds
<1>4. QED
  BY <1>1, <1>2, <1>3 DEF EvaluateRule

\* getConditionInputValue: what it reads is a number.
LEMMA ReadInputTypes ==
  ASSUME TypeOK, Places, ReadInput
  PROVE TypeOK'
<1>1. CASE Verdict(FALSE) /\ UNCHANGED held
  BY <1>1, VerdictTypes DEF TypeOK, ReadInput, bounds
<1>2. CASE /\ held' \in InputValues(Condition.inputType, Condition.inputAddress)
           /\ Goto(Monitor, "compare")
           /\ UNCHANGED <<lastState, spent, at, step>>
  <2>1. held' \in Int
    BY <1>2, ValuesAssumption, DayTimesAssumption DEF TypeOK, InputValues
  <2>2. QED
    BY <1>2, <2>1 DEF TypeOK, ReadInput, Goto, Locations, bounds
<1>3. QED
  BY <1>1, <1>2 DEF ReadInput

\* The comparison of a condition and the verdict that may follow.
LEMMA CompareInputTypes ==
  ASSUME TypeOK, Places, CompareInput
  PROVE TypeOK'
<1>1. CASE \E met \in BOOLEAN : Verdict(met)
  <2>1. /\ held' = 0
        /\ UNCHANGED <<rules, variables, lastValues, file, lock, modified, loaded,
                       request, sent, bounds>>
    BY DEF CompareInput
  <2>2. QED
    BY <1>1, <2>1, VerdictTypes DEF TypeOK, bounds
<1>2. CASE /\ Goto(Monitor, "input")
           /\ step' = [step EXCEPT ![Monitor] = @ + 1]
           /\ UNCHANGED <<lastState, spent, at>>
  <2>1. step \in [Threads -> Nat \ {0}] /\ step[Monitor] + 1 \in Nat \ {0}
    BY DEF TypeOK, Threads
  <2>2. step' \in [Threads -> Nat \ {0}]
    BY <1>2, <2>1
  <2>3. pc' \in [Threads -> Locations]
    BY <1>2 DEF TypeOK, Goto, Locations
  <2>4. /\ held' = 0
        /\ UNCHANGED <<rules, variables, lastValues, file, lock, modified, loaded,
                       request, sent, bounds>>
    BY DEF CompareInput
  <2>5. QED
    BY <1>2, <2>2, <2>3, <2>4, SMTT(30) DEF TypeOK, bounds
<1>3. QED
  <2>1. \A x, op, y : Compare(x, op, y) \in BOOLEAN
    BY DEF Compare
  <2>2. QED
    BY <1>1, <1>2, <2>1 DEF CompareInput, CompareWith

\* One command of a rule, on either thread: the command is in range (Places).
LEMMA ExecuteRuleCommandTypes ==
  ASSUME TypeOK, Places, NEW t \in Threads, ExecuteRuleCommand(t) PROVE TypeOK'
<1> DEFINE c == Commands(t)[step[t]]
           on == c.type = "Enable"
           toggles == c.type \in {"Enable", "Disable"} /\ Changes(c.address, on)
<1>1. c \in RuleCommand
  <2>1. rules \in Seq(Rule) /\ at \in [Threads -> Nat \ {0}] /\ step[t] \in Nat \ {0}
    BY DEF TypeOK
  <2>2. at[t] \in 1..Len(rules)
    BY DEF Places, ExecuteRuleCommand, Threads
  <2>3. rules[at[t]] \in Rule
    BY <2>1, <2>2, ElementOfSeq
  <2>4. Commands(t) \in Seq(RuleCommand)
    BY <2>3 DEF Rule, Commands
  <2>5. step[t] \in 1..Len(Commands(t))
    BY <2>1, <2>4 DEF ExecuteRuleCommand
  <2>6. QED
    BY <2>4, <2>5, ElementOfSeq
<1>2. /\ IF toggles THEN SetRuleEnabledInternal(c.address, on) ELSE UNCHANGED memory
      /\ modified' = [modified EXCEPT ![t] = @ \/ toggles]
      /\ step' = [step EXCEPT ![t] = @ + 1]
  BY DEF ExecuteRuleCommand
<1>3. variables' \in [Keys -> Int]
  <2>1. variables \in [Keys -> Int] /\ c.value \in Int
    BY <1>1 DEF TypeOK, RuleCommand
  <2>2. \A k : Variable(k) \in Int
    BY <2>1 DEF Variable
  <2>3. \A k : \A x \in Int : SetVariable(k, x) => variables' \in [Keys -> Int]
    BY <2>1 DEF SetVariable
  <2>4. Variable(c.address) + c.value \in Int /\ Variable(c.address) - c.value \in Int
    BY <2>1, <2>2
  <2>5. \/ UNCHANGED variables
        \/ \E x \in Int : SetVariable(c.address, x)
    BY <2>1, <2>4 DEF ExecuteRuleCommand
  <2>6. QED
    BY <2>1, <2>3, <2>5
<1>4. sent' \in [Relays -> {"unknown", "ON", "OFF"}]
  BY DEF TypeOK, ExecuteRuleCommand
<1>5. UNCHANGED <<lastValues, file, lock, pc, at, held, loaded, request, bounds>>
  BY DEF ExecuteRuleCommand
<1> HIDE DEF c, on, toggles
<1>6. rules' \in Seq(Rule) /\ lastState' \in [RuleIds -> BOOLEAN] /\ spent' \subseteq Nat
  <2>1. on \in BOOLEAN
    BY DEF on
  <2>2. QED
    BY <1>2, <2>1, SetEnabledTypes DEF TypeOK, memory
<1>7. modified' \in [Threads -> BOOLEAN]
  BY <1>2 DEF TypeOK, toggles
<1>8. step' \in [Threads -> Nat \ {0}]
  <2>1. step \in [Threads -> Nat \ {0}] /\ step[t] + 1 \in Nat \ {0}
    BY DEF TypeOK
  <2>2. QED
    BY <1>2, <2>1
<1>9. QED
  BY <1>3, <1>4, <1>5, <1>6, <1>7, <1>8 DEF TypeOK, bounds

\* The verdict stored after the commands of a rule.
LEMMA CommandsDoneTypes ==
  ASSUME TypeOK, CommandsDone
  PROVE TypeOK'
<1>1. lastState' \in [RuleIds -> BOOLEAN] /\ NextRule
  BY DEF TypeOK, CommandsDone
<1>2. QED
  BY <1>1, NextRuleTypes DEF TypeOK, CommandsDone, bounds

\* The end of a pass.
LEMMA EvaluateEndTypes ==
  ASSUME TypeOK, EvaluateEnd
  PROVE TypeOK'
<1>1. CASE Goto(Monitor, "open") /\ UNCHANGED <<lock, locals, request>>
  BY <1>1 DEF TypeOK, EvaluateEnd, Goto, Locations, memory, locals, bounds
<1>2. CASE Release(Monitor) /\ Return(Monitor, TRUE)
  <2>1. Monitor \in Threads
    BY DEF Threads
  <2>2. QED
    BY <1>2, <2>1, ReturnTypes DEF TypeOK, EvaluateEnd, Release, memory, bounds
<1>3. QED
  BY <1>1, <1>2 DEF EvaluateEnd

\* saveRules, failing or not.
LEMMA SaveTypes ==
  ASSUME TypeOK, NEW t \in Threads, SaveOpen(t) \/ SaveWrite(t) \/ SaveFails(t)
  PROVE  TypeOK'
<1>1. CASE SaveOpen(t)
  <2>1. pc' \in [Threads -> Locations]
    BY <1>1 DEF TypeOK, SaveOpen, Goto, Locations
  <2>2. file' \in [state : {"absent", "partial", "whole"}, rules : Seq(Rule)]
    BY <1>1, EmptySeq DEF SaveOpen, Partial
  <2>3. UNCHANGED <<memory, variables, lastValues, lock, locals, held, loaded, request,
                    sent, bounds>>
    BY <1>1 DEF SaveOpen
  <2>4. QED
    BY <2>1, <2>2, <2>3 DEF TypeOK, memory, locals, bounds
<1>2. CASE SaveWrite(t)
  BY <1>2, ReturnTypes DEF TypeOK, SaveWrite, Whole, Release, memory, bounds
<1>3. CASE SaveFails(t)
  <2>1. failures' \in 0..MaxFailures
    BY <1>3, BoundsAssumption DEF TypeOK, SaveFails
  <2>2. Return(t, TRUE) \/ Return(t, FALSE)
    BY <1>3 DEF SaveFails
  <2>3. /\ lock' = Free
        /\ UNCHANGED <<memory, variables, lastValues, file, held, loaded, sent,
                       crashes, edits>>
    BY <1>3 DEF SaveFails, Release
  <2>4. QED
    BY <2>1, <2>2, <2>3, ReturnTypes DEF TypeOK, memory
<1>4. QED
  BY <1>1, <1>2, <1>3

\* The requests of clients.
LEMMA HandleTypes ==
  ASSUME TypeOK, HandleSetVar \/ HandleGetRules \/ HandleSetEnabled \/ HandleExecute
  PROVE  TypeOK'
<1>0. Command \in Threads
  BY DEF Threads
<1>1. CASE HandleSetVar
  <2>1. request \in Request
    BY <1>1, RequestsAssumption DEF TypeOK, HandleSetVar, NoRequest
  <2>2. variables' \in [Keys -> Int]
    BY <1>1, <2>1 DEF TypeOK, HandleSetVar, SetVariable, Request
  <2>3. QED
    BY <1>0, <1>1, <2>2, ReturnTypes DEF TypeOK, HandleSetVar, memory, bounds
<1>2. CASE HandleGetRules
  BY <1>0, <1>2, ReturnTypes DEF TypeOK, HandleGetRules, memory, bounds
<1>3. CASE HandleSetEnabled
  <2>1. CASE Return(Command, FALSE) /\ UNCHANGED <<memory, lock>>
    BY <1>0, <1>3, <2>1, ReturnTypes DEF TypeOK, HandleSetEnabled, memory, bounds
  <2>2. CASE /\ SetRuleEnabledInternal(request.id, request.op = "ENABLERULE")
             /\ lock' = Command /\ Goto(Command, "open")
             /\ UNCHANGED <<locals, request>>
    <3>1. (request.op = "ENABLERULE") \in BOOLEAN
      OBVIOUS
    <3>2. rules' \in Seq(Rule) /\ lastState' \in [RuleIds -> BOOLEAN] /\ spent' \subseteq Nat
      BY <2>2, <3>1, SetEnabledTypes
    <3>3. QED
      BY <1>0, <1>3, <2>2, <3>2
      DEF TypeOK, HandleSetEnabled, Goto, Locations, locals, bounds
  <2>3. QED
    BY <1>3, <2>1, <2>2 DEF HandleSetEnabled
<1>4. CASE HandleExecute
  <2>1. CASE Return(Command, FALSE) /\ UNCHANGED lock
    BY <1>0, <1>4, <2>1, ReturnTypes DEF TypeOK, HandleExecute, memory, bounds
  <2>2. CASE /\ HasRule(request.id)
             /\ lock' = Command /\ Goto(Command, "command")
             /\ at' = [at EXCEPT ![Command] = IndexOf(request.id)]
             /\ UNCHANGED <<step, modified, request>>
    <3>1. IndexOf(request.id) \in Nat \ {0}
      BY <2>2, IndexOfRule DEF TypeOK
    <3>2. at' \in [Threads -> Nat \ {0}]
      BY <2>2, <3>1 DEF TypeOK
    <3>3. QED
      BY <1>0, <1>4, <2>2, <3>2
      DEF TypeOK, HandleExecute, Goto, Locations, memory, bounds
  <2>3. QED
    BY <1>4, <2>1, <2>2 DEF HandleExecute
<1>5. QED
  BY <1>1, <1>2, <1>3, <1>4

\* The end of EXECUTERULE.
LEMMA ExecuteDoneTypes ==
  ASSUME TypeOK, ExecuteDone
  PROVE TypeOK'
<1>1. CASE Goto(Command, "open") /\ UNCHANGED <<lock, locals, request>>
  BY <1>1 DEF TypeOK, ExecuteDone, Goto, Locations, memory, locals, bounds
<1>2. CASE Release(Command) /\ Return(Command, TRUE)
  <2>1. Command \in Threads
    BY DEF Threads
  <2>2. QED
    BY <1>2, <2>1, ReturnTypes DEF TypeOK, ExecuteDone, Release, memory, bounds
<1>3. QED
  BY <1>1, <1>2 DEF ExecuteDone

\* Values, requests, failures, edits and crashes.
LEMMA EnvironmentTypes ==
  ASSUME TypeOK, Environment
  PROVE TypeOK'
<1>1. ASSUME NEW a \in Addresses, NEW v \in Values, ReceiveValue(a, v) PROVE TypeOK'
  BY <1>1 DEF TypeOK, ReceiveValue, memory, locals, bounds
<1>2. ASSUME NEW r \in Requests, ReceiveRequest(r) PROVE TypeOK'
  BY <1>2 DEF TypeOK, ReceiveRequest, Goto, Locations, memory, locals, bounds
<1>3. ASSUME NEW t \in Threads, SaveFails(t) PROVE TypeOK'
  BY <1>3, SaveTypes
<1>4. ASSUME NEW rs \in RuleFiles, EditFile(rs) PROVE TypeOK'
  <2>1. edits' \in 0..MaxEdits
    <3>1. edits \in 0..MaxEdits
      BY DEF TypeOK
    <3>2. edits < MaxEdits /\ edits' = edits + 1
      BY <1>4 DEF EditFile
    <3>3. QED
      BY <3>1, <3>2, BoundsAssumption
  <2>2. QED
    BY <1>4, <2>1, RuleFilesAssumption DEF TypeOK, EditFile, Whole, memory, locals
<1>5. CASE Crash
  <2>1. crashes' \in 0..MaxCrashes
    BY <1>5, BoundsAssumption DEF TypeOK, Crash
  <2>2. rules' \in Seq(Rule) /\ loaded' \in [Threads -> Seq(Rule)]
    BY <1>5 DEF Crash
  <2>3. /\ lastState' \in [RuleIds -> BOOLEAN] /\ spent' \subseteq Nat
        /\ variables' \in [Keys -> Int]
        /\ lastValues' \in [Addresses -> Values \union {Absent}]
    BY <1>5 DEF Crash, NeverMet
  <2>4. /\ pc' \in [Threads -> Locations]
        /\ at' \in [Threads -> Nat \ {0}] /\ step' \in [Threads -> Nat \ {0}]
        /\ modified' \in [Threads -> BOOLEAN] /\ held' \in Int
    BY <1>5 DEF Crash, Locations
  <2>5. QED
    BY <1>5, <2>1, <2>2, <2>3, <2>4 DEF TypeOK, Crash
<1>6. QED
  BY <1>1, <1>2, <1>3, <1>4, <1>5 DEF Environment

----------------------------------------------------------------------------
(* The mutex and the locations.                                            *)

\* Every step keeps a thread inside its critical sections exactly while it
\* holds rulesMutex, and the indexes it works with in range.
LEMMA ControlStep ==
  ASSUME TypeOK, LockProtocol, Places, Next
  PROVE  LockProtocol' /\ Places'
<1> USE DEF Threads, Monitor, Command, Free
<1>1. ASSUME NEW t \in Threads, LoadRead(t) PROVE LockProtocol' /\ Places'
  <2>1. LockProtocol'
    BY <1>1 DEF TypeOK, LockProtocol, Places, Critical, Locations, LoadRead, Return,
       ResetLocals, Goto, locals, memory, bounds
  <2>2. Places'
    BY <1>1 DEF TypeOK, LockProtocol, Places, Critical, Locations, LoadRead, Return,
       ResetLocals, Goto, locals, memory, bounds
  <2>3. QED
    BY <2>1, <2>2
<1>2. ASSUME NEW t \in Threads, LoadInstall(t) PROVE LockProtocol' /\ Places'
  <2>1. LockProtocol'
    BY <1>2 DEF TypeOK, LockProtocol, Places, Critical, Locations, LoadInstall, Return,
       ResetLocals, Goto
  <2>2. Places'
    BY <1>2 DEF TypeOK, LockProtocol, Places, Critical, Locations, LoadInstall, Return,
       ResetLocals, Goto
  <2>3. QED
    BY <2>1, <2>2
<1>3. CASE EvaluateBegin
  <2>1. LockProtocol'
    BY <1>3 DEF TypeOK, LockProtocol, Places, Critical, Locations, EvaluateBegin, Acquire,
       ResetLocals, Goto, memory
  <2>2. Places'
    BY <1>3 DEF TypeOK, LockProtocol, Places, Critical, Locations, EvaluateBegin, Acquire,
       ResetLocals, Goto, memory
  <2>3. QED
    BY <2>1, <2>2
<1>4. CASE EvaluateRule
  <2>1. LockProtocol'
    BY <1>4 DEF TypeOK, LockProtocol, Places, Critical, Locations, EvaluateRule, Verdict,
       NextRule, current, Goto
  <2>2. Places'
    <3>1. at[Monitor] \in 1..Len(rules) /\ step[Monitor] = 1
      BY <1>4 DEF TypeOK, EvaluateRule, current, Places
    <3>2. rules[at[Monitor]].conditions \in Seq(RuleCondition)
      <4>1. rules[at[Monitor]] \in Rule
        BY <3>1, ElementOfSeq DEF TypeOK
      <4>2. QED
        BY <4>1 DEF Rule
    <3>3. UNCHANGED rules /\ pc'[Command] = pc[Command] /\ at'[Command] = at[Command]
      BY <1>4 DEF TypeOK, EvaluateRule, Verdict, NextRule, Goto
    <3>4. CASE NextRule
      BY <1>4, <3>3, <3>4 DEF TypeOK, Places, NextRule, Goto
    <3>5. CASE Verdict(TRUE) /\ ~NextRule
      BY <1>4, <3>1, <3>3, <3>5 DEF TypeOK, Places, Verdict, Goto
    <3>6. CASE /\ rules[current].conditions # <<>>
               /\ Goto(Monitor, "input") /\ UNCHANGED <<at, step>>
      <4>1. 1 \in 1..Len(rules[at[Monitor]].conditions)
        BY <3>2, <3>6, EmptySeq DEF current
      <4>2. QED
        BY <3>1, <3>3, <3>6, <4>1 DEF TypeOK, Places, Goto
    <3>7. QED
      BY <1>4, <3>4, <3>5, <3>6 DEF EvaluateRule
  <2>3. QED
    BY <2>1, <2>2
<1>5. CASE ReadInput
  <2>1. LockProtocol'
    <3>1. UNCHANGED lock /\ pc[Monitor] \in Critical
      BY <1>5 DEF ReadInput, Critical
    <3>2. \E l \in Critical : Goto(Monitor, l)
      BY <1>5 DEF ReadInput, Verdict, NextRule, Critical
    <3>3. QED
      BY <3>1, <3>2 DEF TypeOK, LockProtocol, Goto
  <2>2. Places'
    <3>1. /\ at[Monitor] \in 1..Len(rules)
          /\ step[Monitor] \in 1..Len(rules[at[Monitor]].conditions)
      BY <1>5 DEF ReadInput, Places
    <3>2. UNCHANGED rules
      BY <1>5 DEF ReadInput
    <3>3. CASE Verdict(FALSE)
      BY <3>1, <3>2, <3>3 DEF TypeOK, Places, Verdict, NextRule, Goto
    <3>4. CASE Goto(Monitor, "compare") /\ UNCHANGED <<at, step>>
      BY <3>1, <3>2, <3>4 DEF TypeOK, Places, Goto
    <3>5. QED
      BY <1>5, <3>3, <3>4 DEF ReadInput
  <2>3. QED
    BY <2>1, <2>2
<1>6. CASE CompareInput
  <2>1. LockProtocol'
    <3>1. UNCHANGED lock /\ pc[Monitor] \in Critical
      BY <1>6 DEF CompareInput, Critical
    <3>2. \E l \in Critical : Goto(Monitor, l)
      BY <1>6 DEF CompareInput, CompareWith, Verdict, NextRule, Critical
    <3>3. QED
      BY <3>1, <3>2 DEF TypeOK, LockProtocol, Goto
  <2>2. Places'
    <3>1. /\ at[Monitor] \in 1..Len(rules)
          /\ step[Monitor] \in 1..Len(rules[at[Monitor]].conditions)
      BY <1>6 DEF CompareInput, Places
    <3>2. Len(rules[at[Monitor]].conditions) \in Nat
      <4>1. rules[at[Monitor]] \in Rule
        BY <3>1, ElementOfSeq DEF TypeOK
      <4>2. rules[at[Monitor]].conditions \in Seq(RuleCondition)
        BY <4>1 DEF Rule
      <4>3. QED
        BY <4>2, LenProperties
    <3>3. UNCHANGED rules
      BY <1>6 DEF CompareInput
    <3>4. CASE \E met \in BOOLEAN : Verdict(met)
      BY <3>1, <3>3, <3>4 DEF TypeOK, Places, Verdict, NextRule, Goto
    <3>5. CASE /\ step[Monitor] < Len(rules[current].conditions)
               /\ Goto(Monitor, "input") /\ UNCHANGED at
               /\ step' = [step EXCEPT ![Monitor] = @ + 1]
      <4>1. step'[Monitor] = step[Monitor] + 1
        BY <3>5 DEF TypeOK
      <4>2. step'[Monitor] \in 1..Len(rules[at[Monitor]].conditions)
        BY <3>1, <3>2, <3>5, <4>1 DEF current
      <4>3. QED
        BY <3>1, <3>3, <3>5, <4>2 DEF TypeOK, Places, Goto
    <3>6. \A x, op, y : Compare(x, op, y) \in BOOLEAN
      BY DEF Compare
    <3>7. QED
      BY <1>6, <3>4, <3>5, <3>6 DEF CompareInput, CompareWith
  <2>3. QED
    BY <2>1, <2>2
<1>7. ASSUME NEW t \in Threads, ExecuteRuleCommand(t) PROVE LockProtocol' /\ Places'
  <2>1. LockProtocol'
    BY <1>7 DEF TypeOK, LockProtocol, Places, Critical, Locations, ExecuteRuleCommand, memory
  <2>2. Places'
    <3>1. CASE UNCHANGED memory
      BY <1>7, <3>1 DEF TypeOK, LockProtocol, Places, Critical, ExecuteRuleCommand, memory
    <3>2. ASSUME NEW id, NEW on \in BOOLEAN, SetRuleEnabledInternal(id, on)
          PROVE  Places'
      <4>1. Len(rules') = Len(rules)
        BY <3>2, SetEnabledTypes
      <4>2. lock = t
        BY <1>7 DEF LockProtocol, Critical, ExecuteRuleCommand
      <4>3. pc[Monitor] \notin {"input", "compare", "rule"}
        BY <1>7, <4>2 DEF LockProtocol, Critical, ExecuteRuleCommand
      <4>4. QED
        BY <1>7, <4>1, <4>3 DEF TypeOK, Places, ExecuteRuleCommand
    <3>3. QED
      BY <1>7, <3>1, <3>2 DEF ExecuteRuleCommand
  <2>3. QED
    BY <2>1, <2>2
<1>8. CASE CommandsDone
  <2>1. LockProtocol'
    BY <1>8 DEF TypeOK, LockProtocol, Places, Critical, Locations, CommandsDone, NextRule,
       current, Goto
  <2>2. Places'
    BY <1>8 DEF TypeOK, LockProtocol, Places, Critical, Locations, CommandsDone, NextRule,
       current, Goto
  <2>3. QED
    BY <2>1, <2>2
<1>9. CASE EvaluateEnd
  <2>1. LockProtocol'
    BY <1>9 DEF TypeOK, LockProtocol, Places, Critical, Locations, EvaluateEnd, Release,
       Return, ResetLocals, Goto, current, locals, memory
  <2>2. Places'
    BY <1>9 DEF TypeOK, LockProtocol, Places, Critical, Locations, EvaluateEnd, Release,
       Return, ResetLocals, Goto, current, locals, memory
  <2>3. QED
    BY <2>1, <2>2
<1>10. ASSUME NEW t \in Threads, SaveOpen(t) PROVE LockProtocol' /\ Places'
  <2>1. LockProtocol'
    BY <1>10 DEF TypeOK, LockProtocol, Places, Critical, Locations, SaveOpen, Goto, memory, locals
  <2>2. Places'
    BY <1>10 DEF TypeOK, LockProtocol, Places, Critical, Locations, SaveOpen, Goto, memory, locals
  <2>3. QED
    BY <2>1, <2>2
<1>11. ASSUME NEW t \in Threads, SaveWrite(t) PROVE LockProtocol' /\ Places'
  <2>1. LockProtocol'
    BY <1>11 DEF TypeOK, LockProtocol, Places, Critical, Locations, SaveWrite, Release,
       Return, ResetLocals, Goto, memory
  <2>2. Places'
    BY <1>11 DEF TypeOK, LockProtocol, Places, Critical, Locations, SaveWrite, Release,
       Return, ResetLocals, Goto, memory
  <2>3. QED
    BY <2>1, <2>2
<1>12. ASSUME NEW t \in Threads, SaveFails(t) PROVE LockProtocol' /\ Places'
  <2>1. LockProtocol'
    BY <1>12 DEF TypeOK, LockProtocol, Places, Critical, Locations, SaveFails, Release,
       Return, ResetLocals, Goto, memory
  <2>2. Places'
    BY <1>12 DEF TypeOK, LockProtocol, Places, Critical, Locations, SaveFails, Release,
       Return, ResetLocals, Goto, memory
  <2>3. QED
    BY <2>1, <2>2
<1>13. CASE HandleSetVar
  <2>1. LockProtocol'
    BY <1>13 DEF TypeOK, LockProtocol, Places, Critical, Locations, HandleSetVar, Return,
       ResetLocals, Goto, memory
  <2>2. Places'
    BY <1>13 DEF TypeOK, LockProtocol, Places, Critical, Locations, HandleSetVar, Return,
       ResetLocals, Goto, memory
  <2>3. QED
    BY <2>1, <2>2
<1>14. CASE HandleGetRules
  <2>1. LockProtocol'
    BY <1>14 DEF TypeOK, LockProtocol, Places, Critical, Locations, HandleGetRules, Return,
       ResetLocals, Goto, memory
  <2>2. Places'
    BY <1>14 DEF TypeOK, LockProtocol, Places, Critical, Locations, HandleGetRules, Return,
       ResetLocals, Goto, memory
  <2>3. QED
    BY <2>1, <2>2
<1>15. CASE HandleSetEnabled
  <2>1. LockProtocol'
    BY <1>15 DEF TypeOK, LockProtocol, Places, Critical, Locations, HandleSetEnabled,
       Return, ResetLocals, Goto, memory, locals
  <2>2. Places'
    BY <1>15 DEF TypeOK, LockProtocol, Places, Critical, Locations, HandleSetEnabled,
       Return, ResetLocals, Goto, memory, locals
  <2>3. QED
    BY <2>1, <2>2
<1>16. CASE HandleExecute
  <2>1. LockProtocol'
    BY <1>16 DEF TypeOK, LockProtocol, Places, Critical, Locations, HandleExecute, Return,
       ResetLocals, Goto, memory
  <2>2. Places'
    <3>1. CASE Return(Command, FALSE)
      BY <1>16, <3>1
      DEF TypeOK, LockProtocol, Places, HandleExecute, Return, ResetLocals, Goto, memory
    <3>2. CASE /\ HasRule(request.id) /\ Goto(Command, "command")
               /\ at' = [at EXCEPT ![Command] = IndexOf(request.id)]
               /\ UNCHANGED step
      <4>1. IndexOf(request.id) \in 1..Len(rules)
        BY <3>2, IndexOfRule DEF TypeOK
      <4>2. at'[Command] = IndexOf(request.id) /\ at'[Monitor] = at[Monitor]
        BY <3>2 DEF TypeOK
      <4>3. UNCHANGED rules
        BY <1>16 DEF HandleExecute, memory
      <4>4. QED
        BY <3>2, <4>1, <4>2, <4>3 DEF TypeOK, Places, Goto
    <3>3. QED
      BY <1>16, <3>1, <3>2 DEF HandleExecute
  <2>3. QED
    BY <2>1, <2>2
<1>17. CASE ExecuteDone
  <2>1. LockProtocol'
    BY <1>17 DEF TypeOK, LockProtocol, Places, Critical, Locations, ExecuteDone, Release,
       Return, ResetLocals, Goto, memory, locals
  <2>2. Places'
    BY <1>17 DEF TypeOK, LockProtocol, Places, Critical, Locations, ExecuteDone, Release,
       Return, ResetLocals, Goto, memory, locals
  <2>3. QED
    BY <2>1, <2>2
<1>18. CASE Forward
  <2>1. LockProtocol'
    BY <1>18 DEF TypeOK, LockProtocol, Places, Critical, Locations, Forward, Goto, memory, locals
  <2>2. Places'
    BY <1>18 DEF TypeOK, LockProtocol, Places, Critical, Locations, Forward, Goto, memory, locals
  <2>3. QED
    BY <2>1, <2>2
<1>19. ASSUME NEW a \in Addresses, NEW v \in Values, ReceiveValue(a, v)
       PROVE  LockProtocol' /\ Places'
  <2>1. LockProtocol'
    BY <1>19 DEF TypeOK, LockProtocol, Places, Critical, Locations, ReceiveValue, memory, locals
  <2>2. Places'
    BY <1>19 DEF TypeOK, LockProtocol, Places, Critical, Locations, ReceiveValue, memory, locals
  <2>3. QED
    BY <2>1, <2>2
<1>20. ASSUME NEW r \in Requests, ReceiveRequest(r) PROVE LockProtocol' /\ Places'
  <2>1. LockProtocol'
    BY <1>20 DEF TypeOK, LockProtocol, Places, Critical, Locations, ReceiveRequest, Goto,
       memory, locals
  <2>2. Places'
    BY <1>20 DEF TypeOK, LockProtocol, Places, Critical, Locations, ReceiveRequest, Goto,
       memory, locals
  <2>3. QED
    BY <2>1, <2>2
<1>21. ASSUME NEW rs \in RuleFiles, EditFile(rs) PROVE LockProtocol' /\ Places'
  <2>1. LockProtocol'
    BY <1>21 DEF TypeOK, LockProtocol, Places, Critical, Locations, EditFile, memory, locals
  <2>2. Places'
    BY <1>21 DEF TypeOK, LockProtocol, Places, Critical, Locations, EditFile, memory, locals
  <2>3. QED
    BY <2>1, <2>2
<1>22. CASE Crash
  <2>1. LockProtocol'
    BY <1>22 DEF TypeOK, LockProtocol, Places, Critical, Locations, Crash
  <2>2. Places'
    BY <1>22 DEF TypeOK, LockProtocol, Places, Critical, Locations, Crash
  <2>3. QED
    BY <2>1, <2>2
<1>99. QED
  BY <1>1, <1>2, <1>3, <1>4, <1>5, <1>6, <1>7, <1>8, <1>9, <1>10, <1>11, <1>12, <1>13,
     <1>14, <1>15, <1>16, <1>17, <1>18, <1>19, <1>20, <1>21, <1>22 DEF Next, MonitorStep,
     CommandStep, Environment

\* Every step keeps TypeOK.
LEMMA StepTypes == ASSUME TypeOK, Places, Next PROVE TypeOK'
<1>1. ASSUME NEW t \in Threads, LoadRead(t) PROVE TypeOK'
  BY <1>1, LoadReadTypes
<1>2. ASSUME NEW t \in Threads, LoadInstall(t) PROVE TypeOK'
  BY <1>2, LoadInstallTypes
<1>3. CASE EvaluateBegin
  BY <1>3 DEF TypeOK, EvaluateBegin, Acquire, ResetLocals, Goto, Locations,
              Threads, memory, bounds
<1>4. CASE EvaluateRule \/ ReadInput \/ CompareInput
  BY <1>4, EvaluateRuleTypes, ReadInputTypes, CompareInputTypes
<1>5. ASSUME NEW t \in Threads, ExecuteRuleCommand(t) PROVE TypeOK'
  BY <1>5, ExecuteRuleCommandTypes
<1>6. CASE CommandsDone \/ EvaluateEnd \/ ExecuteDone
  BY <1>6, CommandsDoneTypes, EvaluateEndTypes, ExecuteDoneTypes
<1>7. ASSUME NEW t \in Threads, SaveOpen(t) \/ SaveWrite(t) PROVE TypeOK'
  BY <1>7, SaveTypes
<1>8. CASE HandleSetVar \/ HandleGetRules \/ HandleSetEnabled \/ HandleExecute
  BY <1>8, HandleTypes
<1>9. CASE Forward
  BY <1>9 DEF TypeOK, Forward, Goto, Locations, memory, locals, bounds
<1>10. CASE Environment
  BY <1>10, EnvironmentTypes
<1>11. Monitor \in Threads /\ Command \in Threads
  BY DEF Threads
<1>12. QED
  BY <1>1, <1>2, <1>3, <1>4, <1>5, <1>6, <1>7, <1>8, <1>9, <1>10, <1>11
  DEF Next, MonitorStep, CommandStep

\* The inductive invariant holds when the server starts,
LEMMA InitInvariant == Init => IInv
<1> SUFFICES ASSUME Init PROVE IInv
  OBVIOUS
<1>1. /\ rules \in Seq(Rule) /\ loaded \in [Threads -> Seq(Rule)]
      /\ file \in [state : {"absent", "partial", "whole"}, rules : Seq(Rule)]
  <2>1. <<>> \in Seq(Rule)
    OBVIOUS
  <2>2. NoFile \in [state : {"absent", "partial", "whole"}, rules : Seq(Rule)]
    BY <2>1 DEF NoFile
  <2>3. \A rs \in RuleFiles :
          Whole(rs) \in [state : {"absent", "partial", "whole"}, rules : Seq(Rule)]
    BY RuleFilesAssumption DEF Whole
  <2>4. QED
    BY <2>1, <2>2, <2>3 DEF Init
<1>2. /\ pc \in [Threads -> Locations]
      /\ at \in [Threads -> Nat \ {0}] /\ step \in [Threads -> Nat \ {0}]
      /\ modified \in [Threads -> BOOLEAN]
  BY DEF Init, Locations
<1>3. /\ crashes \in 0..MaxCrashes /\ failures \in 0..MaxFailures
      /\ edits \in 0..MaxEdits
  BY BoundsAssumption DEF Init
<1>4. TypeOK
  BY <1>1, <1>2, <1>3 DEF Init, TypeOK, NeverMet
<1>5. LockProtocol /\ Places
  BY DEF Init, LockProtocol, Places, Critical, Threads, Monitor, Command, Free
<1>6. QED
  BY <1>4, <1>5 DEF IInv

\* and every step keeps it.
LEMMA StepInvariant == IInv /\ [Next]_vars => IInv'
<1>1. ASSUME IInv, Next PROVE IInv'
  BY <1>1, StepTypes, ControlStep DEF IInv
<1>2. ASSUME IInv, UNCHANGED vars PROVE IInv'
  <2>1. TypeOK'
    BY <1>2 DEF IInv, TypeOK, vars, memory, locals, bounds
  <2>2. LockProtocol' /\ Places'
    BY <1>2 DEF IInv, LockProtocol, Places, vars, memory, locals, bounds
  <2>3. QED
    BY <2>1, <2>2 DEF IInv
<1>3. QED
  BY <1>1, <1>2

\* The engine's variables keep their types: in particular a pass never indexes
\* past the rules or the conditions of a rule (Places), although reloads and
\* requests replace and change the rules between its steps.
THEOREM TypeInvariant == Spec => []TypeOK
<1>1. IInv => TypeOK
  BY DEF IInv
<1>2. QED
  BY <1>1, InitInvariant, StepInvariant, PTL DEF Spec

\* rulesMutex is held exactly where the code believes it is: never by two
\* threads, never left behind by a return.
THEOREM LockProtocolHolds == Spec => []LockProtocol
<1>1. IInv => LockProtocol
  BY DEF IInv
<1>2. QED
  BY <1>1, InitInvariant, StepInvariant, PTL DEF Spec

----------------------------------------------------------------------------
(* A rule fires on an edge.  The proof needs what the README asks of a     *)
(* rules file: identifiers are unique, or two rules would share one        *)
(* ruleLastState entry.                                                    *)

UniqueIds(rs) == \A j, k \in 1..Len(rs) : rs[j].id = rs[k].id => j = k

AllUnique ==
  /\ UniqueIds(rules) /\ UniqueIds(file.rules)
  /\ \A t \in Threads : UniqueIds(loaded[t])

\* A rule that is spent is remembered as met, or its commands are running and
\* the verdict is about to be stored.
SpentIsRemembered ==
  \A k \in spent :
    /\ k \in 1..Len(rules)
    /\ \/ lastState[rules[k].id]
       \/ pc[Monitor] = "command" /\ at[Monitor] = k

EdgeInv == AllUnique /\ SpentIsRemembered

\* Every step keeps the identifiers unique in memory, in the file and in the
\* rules read but not yet installed.
LEMMA UniqueStep ==
  ASSUME \A rs \in RuleFiles : UniqueIds(rs), TypeOK, AllUnique, Next
  PROVE  AllUnique'
<1>1. CASE UNCHANGED <<rules, file, loaded>>
  BY <1>1 DEF AllUnique, UniqueIds
<1>2. ASSUME NEW t \in Threads, LoadRead(t) PROVE AllUnique'
  <2>1. UNCHANGED <<rules, file>>
        /\ (UNCHANGED loaded \/ loaded' = [loaded EXCEPT ![t] = file.rules])
    BY <1>2 DEF LoadRead, memory
  <2>2. \A s \in Threads : UniqueIds(loaded'[s])
    BY <2>1 DEF TypeOK, AllUnique
  <2>3. QED
    BY <2>1, <2>2 DEF AllUnique, UniqueIds
<1>3. ASSUME NEW t \in Threads, LoadInstall(t) PROVE AllUnique'
  <2>1. /\ rules' = loaded[t] /\ UNCHANGED file
        /\ loaded' = [loaded EXCEPT ![t] = <<>>]
    BY <1>3 DEF LoadInstall
  <2>2. UniqueIds(<<>>)
    BY DEF UniqueIds
  <2>3. \A s \in Threads : UniqueIds(loaded'[s])
    BY <2>1, <2>2 DEF TypeOK, AllUnique
  <2>4. UniqueIds(rules')
    BY <2>1 DEF AllUnique
  <2>5. QED
    BY <2>1, <2>3, <2>4 DEF AllUnique, UniqueIds
<1>4. ASSUME NEW id, NEW on \in BOOLEAN, SetRuleEnabledInternal(id, on),
             UNCHANGED <<file, loaded>>
      PROVE  AllUnique'
  <2>1. /\ rules \in Seq(Rule) /\ Len(rules') = Len(rules)
        /\ \A k \in 1..Len(rules) : rules'[k].id = rules[k].id
    BY <1>4, SetEnabledTypes DEF TypeOK
  <2>2. UniqueIds(rules')
    BY <2>1 DEF AllUnique, UniqueIds
  <2>3. QED
    BY <1>4, <2>2 DEF AllUnique, UniqueIds
<1>5. ASSUME NEW t \in Threads, SaveOpen(t) \/ SaveWrite(t) PROVE AllUnique'
  <2>1. /\ UNCHANGED <<rules, loaded>>
        /\ file'.rules = rules \/ file'.rules = <<>>
    <3>1. CASE SaveOpen(t)
      BY <3>1 DEF SaveOpen, Partial, memory
    <3>2. CASE SaveWrite(t)
      BY <3>2 DEF SaveWrite, Whole, memory
    <3>3. QED
      BY <1>5, <3>1, <3>2
  <2>2. UniqueIds(<<>>)
    BY DEF UniqueIds
  <2>3. UniqueIds(file'.rules)
    BY <2>1, <2>2 DEF AllUnique
  <2>4. QED
    BY <2>1, <2>3 DEF AllUnique, UniqueIds
<1>6. ASSUME NEW rs \in RuleFiles, EditFile(rs) PROVE AllUnique'
  <2>1. UNCHANGED <<rules, loaded>> /\ file'.rules = rs
    BY <1>6 DEF EditFile, Whole, memory
  <2>2. QED
    BY <2>1 DEF AllUnique, UniqueIds
<1>7. CASE Crash
  <2>1. /\ rules' = <<>> /\ UNCHANGED file
        /\ \A t \in Threads : loaded'[t] = <<>>
    BY <1>7 DEF Crash
  <2>2. UniqueIds(<<>>)
    BY DEF UniqueIds
  <2>3. QED
    BY <2>1, <2>2 DEF AllUnique, UniqueIds
<1>8. ASSUME NEW t \in Threads, ExecuteRuleCommand(t) PROVE AllUnique'
  BY <1>1, <1>4, <1>8 DEF ExecuteRuleCommand, memory
<1>9. CASE HandleSetEnabled
  BY <1>1, <1>4, <1>9 DEF HandleSetEnabled, memory
<1>10. CASE EvaluateBegin \/ EvaluateRule \/ ReadInput \/ CompareInput \/ CommandsDone
            \/ EvaluateEnd
  BY <1>1, <1>10 DEF EvaluateBegin, EvaluateRule, ReadInput, CompareInput,
                     CommandsDone, EvaluateEnd, memory
<1>11. CASE HandleSetVar \/ HandleGetRules \/ HandleExecute \/ ExecuteDone \/ Forward
  BY <1>1, <1>11 DEF HandleSetVar, HandleGetRules, HandleExecute, ExecuteDone,
                     Forward, memory
<1>12. ASSUME NEW a \in Addresses, NEW v \in Values, ReceiveValue(a, v) PROVE AllUnique'
  BY <1>1, <1>12 DEF ReceiveValue, memory
<1>13. ASSUME NEW r \in Requests, ReceiveRequest(r) PROVE AllUnique'
  BY <1>1, <1>13 DEF ReceiveRequest, memory
<1>14. ASSUME NEW t \in Threads, SaveFails(t) PROVE AllUnique'
  BY <1>1, <1>14 DEF SaveFails, memory
<1>15. Monitor \in Threads /\ Command \in Threads
  BY DEF Threads
<1>16. QED
  BY <1>2, <1>3, <1>5, <1>6, <1>7, <1>8, <1>9, <1>10, <1>11, <1>12, <1>13, <1>14,
     <1>15 DEF Next, MonitorStep, CommandStep, Environment

\* The identifier of a rule in memory has an entry in ruleLastState.
LEMMA RuleIdType ==
  ASSUME TypeOK, NEW k \in 1..Len(rules)
  PROVE  rules[k].id \in RuleIds
<1>1. rules[k] \in Rule
  BY ElementOfSeq DEF TypeOK
<1>2. QED
  BY <1>1 DEF Rule

\* Every step keeps SpentIsRemembered: the verdict of a rule is forgotten only
\* when the rule is re-armed.
LEMMA EdgeStep ==
  ASSUME IInv, EdgeInv, Next
  PROVE  SpentIsRemembered'
<1> USE DEF IInv
<1>0. Monitor \in Threads /\ Command \in Threads /\ Monitor # Command
  BY DEF Threads, Monitor, Command
<1>1. ASSUME UNCHANGED memory,
             pc[Monitor] # "command" \/ (pc'[Monitor] = "command" /\ UNCHANGED at[Monitor])
      PROVE  SpentIsRemembered'
  BY <1>1 DEF EdgeInv, SpentIsRemembered, memory
<1>2. CASE spent' = {}
  BY <1>2 DEF SpentIsRemembered
<1>3. ASSUME NEW met \in BOOLEAN, Verdict(met), UNCHANGED rules,
             pc[Monitor] # "command", at[Monitor] \in 1..Len(rules)
      PROVE  SpentIsRemembered'
  <2>1. \A k \in spent : k \in 1..Len(rules) /\ lastState[rules[k].id]
    BY <1>3 DEF EdgeInv, SpentIsRemembered
  <2>2. CASE /\ spent' = spent \union {at[Monitor]} /\ UNCHANGED <<lastState, at>>
             /\ Goto(Monitor, "command")
    <3>1. pc'[Monitor] = "command"
      BY <1>0, <2>2 DEF TypeOK, Goto
    <3>2. QED
      BY <1>3, <2>1, <2>2, <3>1 DEF SpentIsRemembered
  <2>3. CASE /\ lastState' = [lastState EXCEPT ![rules[at[Monitor]].id] = met]
             /\ spent' = IF met THEN spent ELSE spent \ {at[Monitor]}
    <3>1. ASSUME NEW k \in spent' PROVE k \in 1..Len(rules) /\ lastState'[rules[k].id]
      <4>1. k \in spent /\ (met \/ k # at[Monitor])
        BY <2>3
      <4>2. met \/ rules[k].id # rules[at[Monitor]].id
        BY <1>3, <2>1, <4>1 DEF EdgeInv, AllUnique, UniqueIds
      <4>3. rules[k].id \in RuleIds
        BY <2>1, <4>1, RuleIdType
      <4>4. QED
        BY <2>1, <2>3, <4>1, <4>2, <4>3 DEF TypeOK
    <3>2. QED
      BY <1>3, <3>1 DEF SpentIsRemembered
  <2>4. QED
    BY <1>3, <2>2, <2>3 DEF Verdict, current
<1>4. ASSUME NEW id, NEW on \in BOOLEAN, Changes(id, on), SetRuleEnabledInternal(id, on),
             UNCHANGED <<pc[Monitor], at[Monitor]>>
      PROVE  SpentIsRemembered'
  <2>1. IndexOf(id) \in 1..Len(rules) /\ rules[IndexOf(id)].id = id
    BY <1>4, IndexOfRule DEF TypeOK, Changes
  <2>2. /\ Len(rules') = Len(rules)
        /\ \A k \in 1..Len(rules) : rules'[k].id = rules[k].id
    BY <1>4, SetEnabledTypes
  <2>3. ASSUME NEW k \in spent'
        PROVE  /\ k \in 1..Len(rules')
               /\ \/ lastState'[rules'[k].id]
                  \/ pc'[Monitor] = "command" /\ at'[Monitor] = k
    <3>1. k \in spent /\ (on \/ k # IndexOf(id))
      BY <1>4 DEF SetRuleEnabledInternal
    <3>2. k \in 1..Len(rules) /\ (on \/ rules[k].id # id)
      BY <2>1, <3>1 DEF EdgeInv, AllUnique, UniqueIds, SpentIsRemembered
    <3>3. rules[k].id \in RuleIds
      BY <3>2, RuleIdType
    <3>4. lastState'[rules[k].id] = lastState[rules[k].id]
      BY <1>4, <3>2, <3>3 DEF TypeOK, SetRuleEnabledInternal
    <3>5. QED
      BY <1>4, <2>2, <3>1, <3>2, <3>4 DEF EdgeInv, SpentIsRemembered
  <2>4. QED
    BY <2>3 DEF SpentIsRemembered
<1>5. ASSUME NEW t \in Threads, LoadRead(t) PROVE SpentIsRemembered'
  <2>1. UNCHANGED memory /\ (t = Monitor \/ at'[Monitor] = at[Monitor])
    <3>1. UNCHANGED memory /\ (UNCHANGED locals \/ ResetLocals(t))
      BY <1>5 DEF LoadRead, Return
    <3>2. QED
      BY <1>0, <3>1 DEF TypeOK, ResetLocals, locals
  <2>2. pc[Monitor] # "command" \/ pc'[Monitor] = pc[Monitor]
    BY <1>0, <1>5 DEF TypeOK, LoadRead, Return, Goto
  <2>3. pc[Monitor] # "command" \/ t # Monitor
    BY <1>5 DEF LoadRead
  <2>4. QED
    BY <1>1, <2>1, <2>2, <2>3
<1>6. ASSUME NEW t \in Threads, LoadInstall(t) PROVE SpentIsRemembered'
  BY <1>2, <1>6 DEF LoadInstall
<1>7. CASE Crash
  BY <1>2, <1>7 DEF Crash
<1>8. CASE EvaluateBegin \/ EvaluateEnd
  BY <1>1, <1>8 DEF EvaluateBegin, EvaluateEnd
<1>9. CASE EvaluateRule
  <2>1. pc[Monitor] # "command" /\ at[Monitor] \in 1..Len(rules) /\ UNCHANGED rules
    BY <1>0, <1>9 DEF TypeOK, EvaluateRule, current
  <2>2. CASE /\ lastState' = [lastState EXCEPT ![rules[at[Monitor]].id] = FALSE]
             /\ spent' = spent \ {at[Monitor]}
    <3>1. ASSUME NEW k \in spent' PROVE k \in 1..Len(rules) /\ lastState'[rules[k].id]
      <4>1. k \in spent /\ k # at[Monitor] /\ k \in 1..Len(rules) /\ lastState[rules[k].id]
        BY <2>1, <2>2 DEF EdgeInv, SpentIsRemembered
      <4>2. rules[k].id # rules[at[Monitor]].id
        BY <2>1, <4>1 DEF EdgeInv, AllUnique, UniqueIds
      <4>3. QED
        BY <2>2, <4>1, <4>2 DEF TypeOK
    <3>2. QED
      BY <2>1, <3>1 DEF SpentIsRemembered
  <2>3. CASE Verdict(TRUE)
    BY <1>3, <2>1, <2>3
  <2>4. CASE UNCHANGED <<lastState, spent, at, step>>
    BY <1>1, <2>1, <2>4 DEF memory
  <2>5. QED
    BY <1>9, <2>2, <2>3, <2>4 DEF EvaluateRule, current
<1>10. CASE ReadInput
  <2>1. pc[Monitor] # "command" /\ at[Monitor] \in 1..Len(rules) /\ UNCHANGED rules
    BY <1>10 DEF Places, ReadInput
  <2>2. CASE Verdict(FALSE)
    BY <1>3, <2>1, <2>2
  <2>3. CASE UNCHANGED <<lastState, spent, at, step>>
    BY <1>1, <2>1, <2>3 DEF memory
  <2>4. QED
    BY <1>10, <2>2, <2>3 DEF ReadInput
<1>11. CASE CompareInput
  <2>1. pc[Monitor] # "command" /\ at[Monitor] \in 1..Len(rules) /\ UNCHANGED rules
    BY <1>11 DEF Places, CompareInput
  <2>2. CASE \E met \in BOOLEAN : Verdict(met)
    BY <1>3, <2>1, <2>2
  <2>3. CASE UNCHANGED <<lastState, spent, at>>
    BY <1>1, <2>1, <2>3 DEF memory
  <2>4. \A x, op, y : Compare(x, op, y) \in BOOLEAN
    BY DEF Compare
  <2>5. QED
    BY <1>11, <2>2, <2>3, <2>4 DEF CompareInput, CompareWith
<1>12. ASSUME NEW t \in Threads, ExecuteRuleCommand(t) PROVE SpentIsRemembered'
  <2>1. UNCHANGED <<pc[Monitor], at[Monitor]>>
    BY <1>12 DEF ExecuteRuleCommand
  <2>2. \/ UNCHANGED memory
        \/ \E id : \E on \in BOOLEAN : Changes(id, on) /\ SetRuleEnabledInternal(id, on)
    BY <1>12 DEF ExecuteRuleCommand
  <2>3. QED
    BY <1>1, <1>4, <2>1, <2>2
<1>13. CASE CommandsDone
  <2>1. /\ lastState' = [lastState EXCEPT ![rules[at[Monitor]].id] = TRUE]
        /\ UNCHANGED <<rules, spent>>
    BY <1>13 DEF CommandsDone, current
  <2>2. ASSUME NEW k \in spent PROVE k \in 1..Len(rules) /\ lastState'[rules[k].id]
    <3>1. /\ k \in 1..Len(rules)
          /\ lastState[rules[k].id] \/ at[Monitor] = k
      BY DEF EdgeInv, SpentIsRemembered
    <3>2. rules[k].id \in RuleIds
      BY <3>1, RuleIdType
    <3>3. QED
      BY <2>1, <3>1, <3>2 DEF TypeOK
  <2>3. QED
    BY <2>1, <2>2 DEF SpentIsRemembered
<1>14. ASSUME NEW t \in Threads, SaveOpen(t) \/ SaveWrite(t) \/ SaveFails(t)
       PROVE  SpentIsRemembered'
  <2>1. pc[t] # "command" /\ UNCHANGED memory
    BY <1>14 DEF SaveOpen, SaveWrite, SaveFails
  <2>2. t # Monitor => UNCHANGED <<pc[Monitor], at[Monitor]>>
    BY <1>0, <1>14 DEF TypeOK, SaveOpen, SaveWrite, SaveFails, Return, ResetLocals,
                       Goto, locals
  <2>3. QED
    BY <1>1, <2>1, <2>2
<1>15. CASE HandleSetVar \/ HandleGetRules \/ HandleExecute \/ ExecuteDone \/ Forward
  <2>1. UNCHANGED memory
    BY <1>15 DEF HandleSetVar, HandleGetRules, HandleExecute, ExecuteDone, Forward
  <2>2. UNCHANGED <<pc[Monitor], at[Monitor]>>
    BY <1>0, <1>15 DEF TypeOK, HandleSetVar, HandleGetRules, HandleExecute, ExecuteDone,
                       Forward, Return, ResetLocals, Goto, locals
  <2>3. QED
    BY <1>1, <2>1, <2>2
<1>16. CASE HandleSetEnabled
  <2>1. UNCHANGED <<pc[Monitor], at[Monitor]>>
    BY <1>0, <1>16 DEF TypeOK, HandleSetEnabled, Return, ResetLocals, Goto, locals
  <2>2. \/ UNCHANGED memory
        \/ \E id : \E on \in BOOLEAN : Changes(id, on) /\ SetRuleEnabledInternal(id, on)
    BY <1>16 DEF HandleSetEnabled
  <2>3. QED
    BY <1>1, <1>4, <2>1, <2>2
<1>17. ASSUME NEW a \in Addresses, NEW v \in Values, ReceiveValue(a, v)
       PROVE  SpentIsRemembered'
  BY <1>1, <1>17 DEF ReceiveValue
<1>18. ASSUME NEW r \in Requests, ReceiveRequest(r) PROVE SpentIsRemembered'
  BY <1>0, <1>1, <1>18 DEF TypeOK, ReceiveRequest, Goto, locals
<1>19. ASSUME NEW rs \in RuleFiles, EditFile(rs) PROVE SpentIsRemembered'
  BY <1>1, <1>19 DEF EditFile, locals
<1>20. QED
  BY <1>0, <1>5, <1>6, <1>7, <1>8, <1>9, <1>10, <1>11, <1>12, <1>13, <1>14, <1>15,
     <1>16, <1>17, <1>18, <1>19 DEF Next, MonitorStep, CommandStep, Environment

\* A rule does not fire while it is spent: a pass runs the commands of a rule
\* again only after an evaluation, a command, a request or a reload re-armed it.
THEOREM FiresOncePerEdgeHolds ==
  ASSUME \A rs \in RuleFiles : UniqueIds(rs)
  PROVE  Spec => FiresOncePerEdge
<1>1. Init => EdgeInv
  <2> SUFFICES ASSUME Init PROVE EdgeInv
    OBVIOUS
  <2>1. UniqueIds(<<>>)
    BY DEF UniqueIds
  <2>2. UniqueIds(file.rules)
    BY <2>1 DEF Init, NoFile, Whole
  <2>3. QED
    BY <2>1, <2>2 DEF Init, EdgeInv, AllUnique, SpentIsRemembered
<1>2. IInv /\ EdgeInv /\ [Next]_vars => EdgeInv'
  <2>1. ASSUME IInv, EdgeInv, Next PROVE EdgeInv'
    BY <2>1, UniqueStep, EdgeStep DEF IInv, EdgeInv
  <2>2. ASSUME EdgeInv, UNCHANGED vars PROVE EdgeInv'
    BY <2>2 DEF EdgeInv, AllUnique, UniqueIds, SpentIsRemembered, vars, memory, locals
  <2>3. QED
    BY <2>1, <2>2
<1>3. IInv /\ EdgeInv /\ [Next]_vars => [\A k \in spent : ~Fires(k)]_vars
  <2> SUFFICES ASSUME IInv, EdgeInv, Next, NEW k \in spent, Fires(k) PROVE FALSE
    BY DEF vars
  <2> USE DEF Fires
  <2>1. lastState[rules[k].id] /\ k = at[Monitor] /\ k \in 1..Len(rules)
    BY DEF EdgeInv, SpentIsRemembered
  <2>2. ~ \E met \in BOOLEAN : Verdict(met)
    BY <2>1 DEF IInv, TypeOK, Verdict, NextRule, Goto, current, Threads
  <2>3. CASE EvaluateRule \/ ReadInput \/ CompareInput
    <3>1. ASSUME Goto(Monitor, "input") \/ Goto(Monitor, "compare") \/ NextRule
          PROVE  FALSE
      BY <3>1 DEF IInv, TypeOK, NextRule, Goto, Threads
    <3>2. \A x, op, y : Compare(x, op, y) \in BOOLEAN
      BY DEF Compare
    <3>3. QED
      BY <2>2, <2>3, <3>1, <3>2
      DEF EvaluateRule, ReadInput, CompareInput, CompareWith
  <2>4. CASE EvaluateBegin \/ CommandsDone \/ EvaluateEnd
    BY <2>4 DEF IInv, TypeOK, EvaluateBegin, CommandsDone, EvaluateEnd, NextRule,
                Return, Goto, Threads
  <2>5. ASSUME NEW t \in Threads,
               \/ LoadRead(t) \/ LoadInstall(t) \/ ExecuteRuleCommand(t)
               \/ SaveOpen(t) \/ SaveWrite(t) \/ SaveFails(t)
        PROVE  FALSE
    <3>1. UNCHANGED pc \/ \E l : l # "command" /\ Goto(t, l)
      BY <2>5 DEF LoadRead, LoadInstall, ExecuteRuleCommand, SaveOpen, SaveWrite,
                  SaveFails, Return
    <3>2. QED
      BY <2>5, <3>1 DEF IInv, TypeOK, Goto, Threads
  <2>6. CASE HandleSetVar \/ HandleGetRules \/ HandleSetEnabled \/ HandleExecute
             \/ ExecuteDone \/ Forward
    <3>1. \E l : Goto(Command, l)
      BY <2>6 DEF HandleSetVar, HandleGetRules, HandleSetEnabled, HandleExecute,
                  ExecuteDone, Forward, Return
    <3>2. QED
      BY <3>1 DEF IInv, TypeOK, Goto, Monitor, Command
  <2>7. ASSUME NEW r \in Requests, ReceiveRequest(r) PROVE FALSE
    BY <2>7 DEF IInv, TypeOK, ReceiveRequest, Goto, Monitor, Command
  <2>8. ASSUME \/ \E a \in Addresses, v \in Values : ReceiveValue(a, v)
               \/ \E rs \in RuleFiles : EditFile(rs)
               \/ Crash
        PROVE  FALSE
    BY <2>8 DEF ReceiveValue, EditFile, Crash, Threads
  <2>9. Monitor \in Threads /\ Command \in Threads
    BY DEF Threads
  <2>10. QED
    BY <2>3, <2>4, <2>5, <2>6, <2>7, <2>8, <2>9
    DEF Next, MonitorStep, CommandStep, Environment
<1>4. QED
  BY <1>1, <1>2, <1>3, InitInvariant, StepInvariant, PTL DEF Spec, FiresOncePerEdge

----------------------------------------------------------------------------
(* rules.json and the rules in memory.                                     *)

\* Only a thread that is writing the file leaves it partly written, until a write
\* fails or the server crashes.
PartialIsBeingWritten ==
  (file.state = "partial" /\ failures = 0 /\ crashes = 0)
    => \E t \in Threads : pc[t] = "write"

\* While the monitor thread loads, at the start of the server, there are no rules
\* in memory and so nothing the command thread could change or save: what is
\* loaded stays what the file says.
LoadsFromFile ==
  Loading(Monitor) =>
    /\ rules = <<>> /\ lock = Free
    /\ pc[Monitor] # "install" => loaded[Monitor] = <<>>
    /\ (edits = 0 /\ pc[Monitor] = "clear") => file.state = "absent"
    /\ (edits = 0 /\ pc[Monitor] = "install") => file = Whole(loaded[Monitor])

\* The holder of rulesMutex has changed a rule and will save.
Unsaved ==
  lock # Free /\ (modified[lock] \/ pc[lock] \in {"open", "write"})

Saved == file = Whole(rules) \/ (file.state # "whole" /\ rules = <<>>)

\* Without reloads, memory and file differ only between a change and its save.
SavedOrPending ==
  /\ ~Loading(Command)
  /\ (failures = 0 /\ edits = 0 /\ ~Loading(Monitor)) => Saved \/ Unsaved

FileInv == PartialIsBeingWritten /\ LoadsFromFile /\ SavedOrPending

\* The steps that neither write the file nor end the process.
Quiet ==
  \/ \E t \in Threads : LoadRead(t) \/ LoadInstall(t) \/ ExecuteRuleCommand(t)
  \/ EvaluateBegin \/ EvaluateRule \/ ReadInput \/ CompareInput \/ CommandsDone
  \/ EvaluateEnd
  \/ HandleSetVar \/ HandleGetRules \/ HandleSetEnabled \/ HandleExecute \/ ExecuteDone
  \/ Forward
  \/ \E a \in Addresses, v \in Values : ReceiveValue(a, v)
  \/ \E r \in Requests : ReceiveRequest(r)

\* Every other step is a part of a save, a crash or an edit of the file.
LEMMA QuietOrNot ==
  ASSUME Next
  PROVE  \/ Quiet \/ Crash
         \/ \E t \in Threads : SaveOpen(t) \/ SaveWrite(t) \/ SaveFails(t)
         \/ \E rs \in RuleFiles : EditFile(rs)
BY DEF Next, MonitorStep, CommandStep, Environment, Quiet, Threads

\* A quiet step leaves the file as it is, and a thread that is writing it where it is.
LEMMA QuietKeepsFile ==
  ASSUME TypeOK, Quiet
  PROVE  /\ UNCHANGED <<file, bounds>>
         /\ \A t \in Threads : pc[t] = "write" => pc'[t] = "write"
<1> DEFINE Goal == /\ UNCHANGED <<file, bounds>>
                   /\ \A t \in Threads : pc[t] = "write" => pc'[t] = "write"
<1> USE DEF Threads, Monitor, Command
<1>1. ASSUME NEW t \in Threads, LoadRead(t) PROVE Goal
  BY <1>1 DEF TypeOK, LoadRead, Return, Goto
<1>2. ASSUME NEW t \in Threads, LoadInstall(t) PROVE Goal
  BY <1>2 DEF TypeOK, LoadInstall, Return, Goto
<1>3. ASSUME NEW t \in Threads, ExecuteRuleCommand(t) PROVE Goal
  BY <1>3 DEF ExecuteRuleCommand
<1>4. CASE EvaluateBegin
  BY <1>4 DEF TypeOK, EvaluateBegin, Goto
<1>5. ASSUME NEW met, Verdict(met), pc[Monitor] # "write"
      PROVE  \A t \in Threads : pc[t] = "write" => pc'[t] = "write"
  BY <1>5 DEF TypeOK, Verdict, NextRule, Goto
<1>6. CASE EvaluateRule
  BY <1>5, <1>6 DEF TypeOK, EvaluateRule, NextRule, Goto
<1>7. CASE ReadInput
  BY <1>5, <1>7 DEF TypeOK, ReadInput, Goto
<1>8. CASE CompareInput
  BY <1>5, <1>8 DEF TypeOK, CompareInput, CompareWith, Goto
<1>9. CASE CommandsDone
  BY <1>9 DEF TypeOK, CommandsDone, NextRule, Goto
<1>10. CASE EvaluateEnd
  BY <1>10 DEF TypeOK, EvaluateEnd, Return, Goto
<1>11. CASE HandleSetVar \/ HandleGetRules
  BY <1>11 DEF TypeOK, HandleSetVar, HandleGetRules, Return, Goto
<1>12. CASE HandleSetEnabled
  BY <1>12 DEF TypeOK, HandleSetEnabled, Return, Goto
<1>13. CASE HandleExecute \/ ExecuteDone
  BY <1>13 DEF TypeOK, HandleExecute, ExecuteDone, Return, Goto
<1>14. CASE Forward
  BY <1>14 DEF TypeOK, Forward, Goto
<1>15. CASE \E a \in Addresses, v \in Values : ReceiveValue(a, v)
  BY <1>15 DEF ReceiveValue
<1>16. CASE \E r \in Requests : ReceiveRequest(r)
  BY <1>16 DEF TypeOK, ReceiveRequest, Goto
<1>17. QED
  BY <1>1, <1>2, <1>3, <1>4, <1>6, <1>7, <1>8, <1>9, <1>10, <1>11, <1>12, <1>13,
     <1>14, <1>15, <1>16 DEF Quiet

\* Every step keeps PartialIsBeingWritten.
LEMMA PartialStep ==
  ASSUME TypeOK, PartialIsBeingWritten, Next
  PROVE  PartialIsBeingWritten'
<1> USE DEF PartialIsBeingWritten
<1>1. CASE Quiet
  BY <1>1, QuietKeepsFile DEF bounds
<1>2. CASE Crash
  BY <1>2 DEF TypeOK, Crash
<1>3. ASSUME NEW t \in Threads, SaveOpen(t) PROVE PartialIsBeingWritten'
  BY <1>3 DEF TypeOK, SaveOpen, Goto
<1>4. ASSUME NEW t \in Threads, SaveWrite(t) PROVE PartialIsBeingWritten'
  BY <1>4 DEF SaveWrite, Whole
<1>5. ASSUME NEW t \in Threads, SaveFails(t) PROVE PartialIsBeingWritten'
  BY <1>5 DEF TypeOK, SaveFails
<1>6. ASSUME NEW rs \in RuleFiles, EditFile(rs) PROVE PartialIsBeingWritten'
  BY <1>6 DEF EditFile, Whole
<1>7. QED
  BY <1>1, <1>2, <1>3, <1>4, <1>5, <1>6, QuietOrNot

\* rules.json is left partly written only by a failed write or a crash: whoever
\* takes rulesMutex otherwise finds a whole file.
THEOREM FileWholeHolds == Spec => []FileWholeAfterSave
<1>1. Init => PartialIsBeingWritten
  BY DEF Init, PartialIsBeingWritten, NoFile, Whole
<1>2. IInv /\ PartialIsBeingWritten /\ [Next]_vars => PartialIsBeingWritten'
  <2>1. IInv /\ PartialIsBeingWritten /\ Next => PartialIsBeingWritten'
    BY PartialStep DEF IInv
  <2>2. PartialIsBeingWritten /\ UNCHANGED vars => PartialIsBeingWritten'
    BY DEF PartialIsBeingWritten, vars, bounds
  <2>3. QED
    BY <2>1, <2>2
<1>3. IInv /\ PartialIsBeingWritten => FileWholeAfterSave
  BY DEF IInv, LockProtocol, Critical, Threads, Monitor, Command, Free,
         PartialIsBeingWritten, FileWholeAfterSave
<1>4. QED
  BY <1>1, <1>2, <1>3, InitInvariant, StepInvariant, PTL DEF Spec

----------------------------------------------------------------------------
(* Memory against file, when no client reloads.  With reloads              *)
(* MemoryMatchesFile fails (the run RulesReloadRace): the hypothesis is    *)
(* what the code needs.                                                    *)

NoReloads == \A r \in Requests : r.op # "RELOADRULES"

\* The command thread does not load rules.
LEMMA CommandLoadsNothing ==
  ASSUME NoReloads, TypeOK, Places, ~Loading(Command), Next
  PROVE  ~Loading(Command)'
<1> USE DEF Threads, Monitor, Command, Loading
<1>1. ASSUME NEW t \in Threads, LoadRead(t) \/ LoadInstall(t) PROVE ~Loading(Command)'
  BY <1>1 DEF TypeOK, LoadRead, LoadInstall, Return, Goto
<1>2. ASSUME NEW met, Verdict(met) PROVE ~Loading(Command)'
  BY <1>2 DEF TypeOK, Verdict, NextRule, Goto
<1>3. CASE EvaluateBegin \/ EvaluateRule \/ ReadInput \/ CompareInput \/ CommandsDone
           \/ EvaluateEnd
  BY <1>2, <1>3 DEF TypeOK, EvaluateBegin, EvaluateRule, ReadInput, CompareInput,
     CompareWith, CommandsDone, EvaluateEnd, NextRule, Return, Goto
<1>4. ASSUME NEW t \in Threads, ExecuteRuleCommand(t) PROVE ~Loading(Command)'
  BY <1>4 DEF ExecuteRuleCommand
<1>5. ASSUME NEW t \in Threads, SaveOpen(t) \/ SaveWrite(t) \/ SaveFails(t)
      PROVE  ~Loading(Command)'
  BY <1>5 DEF TypeOK, SaveOpen, SaveWrite, SaveFails, Return, Goto
<1>6. CASE HandleSetVar \/ HandleGetRules \/ HandleSetEnabled \/ HandleExecute
           \/ ExecuteDone \/ Forward
  BY <1>6 DEF TypeOK, HandleSetVar, HandleGetRules, HandleSetEnabled, HandleExecute,
     ExecuteDone, Forward, Return, Goto
<1>7. ASSUME NEW r \in Requests, ReceiveRequest(r) PROVE ~Loading(Command)'
  BY <1>7 DEF TypeOK, ReceiveRequest, Goto, NoReloads
<1>8. CASE \/ \E a \in Addresses, v \in Values : ReceiveValue(a, v)
           \/ \E rs \in RuleFiles : EditFile(rs)
  BY <1>8 DEF ReceiveValue, EditFile
<1>9. CASE Crash
  BY <1>9 DEF Crash
<1>10. QED
  BY <1>1, <1>3, <1>4, <1>5, <1>6, <1>7, <1>8, <1>9
     DEF Next, MonitorStep, CommandStep, Environment

\* While the monitor thread loads, nothing but its own steps, an operator's edit
\* and a crash touches the rules, the file or the mutex.
LEMMA LoadStep ==
  ASSUME IInv, ~Loading(Command), LoadsFromFile, Next
  PROVE  LoadsFromFile'
<1> USE DEF Threads, Monitor, Command, Free, Loading, IInv
<1>1. ASSUME ~Loading(Monitor)' PROVE LoadsFromFile'
  BY <1>1 DEF LoadsFromFile
<1>2. ASSUME UNCHANGED <<rules, lock, loaded, file, edits>>,
             pc'[Monitor] = pc[Monitor]
      PROVE  LoadsFromFile'
  BY <1>2 DEF LoadsFromFile
<1>3. CASE LoadRead(Monitor)
  <2>1. CASE file.state = "absent"
    BY <1>3, <2>1 DEF LoadsFromFile, TypeOK, LoadRead, Goto, memory, bounds
  <2>2. CASE file.state = "partial"
    BY <1>1, <1>3, <2>2 DEF TypeOK, LoadRead, Return, Goto
  <2>3. CASE file.state = "whole"
    <3>1. file = Whole(file.rules)
      BY <2>3 DEF TypeOK, Whole
    <3>2. QED
      BY <1>3, <2>3, <3>1 DEF LoadsFromFile, TypeOK, LoadRead, Goto, memory, bounds
  <2>4. QED
    BY <2>1, <2>2, <2>3 DEF TypeOK
<1>4. CASE LoadInstall(Monitor)
  BY <1>1, <1>4 DEF TypeOK, LoadInstall, Return, Goto
<1>5. ASSUME LoadRead(Command) \/ LoadInstall(Command) PROVE FALSE
  BY <1>5 DEF LoadRead, LoadInstall
<1>6. ASSUME NEW met, Verdict(met), ~Loading(Monitor) PROVE ~Loading(Monitor)'
  BY <1>6 DEF TypeOK, Verdict, NextRule, Goto
<1>7. CASE EvaluateBegin \/ EvaluateRule \/ ReadInput \/ CompareInput \/ CommandsDone
           \/ EvaluateEnd
  BY <1>1, <1>6, <1>7 DEF TypeOK, EvaluateBegin, EvaluateRule, ReadInput, CompareInput,
     CompareWith, CommandsDone, EvaluateEnd, NextRule, Return, Goto
<1>8. CASE Loading(Monitor)
  <2>1. rules = <<>> /\ lock = Free /\ pc[Command] \notin Critical
    BY <1>8 DEF LoadsFromFile, LockProtocol
  <2>2. \A id : ~HasRule(id)
    BY <2>1 DEF HasRule
  <2>3. CASE \E t \in Threads : ExecuteRuleCommand(t) \/ SaveOpen(t) \/ SaveWrite(t)
                                \/ SaveFails(t)
    BY <1>8, <2>1, <2>3 DEF Critical, ExecuteRuleCommand, SaveOpen, SaveWrite, SaveFails
  <2>4. CASE HandleSetVar \/ HandleGetRules \/ HandleSetEnabled \/ HandleExecute
             \/ ExecuteDone \/ Forward
    BY <1>2, <2>1, <2>2, <2>4 DEF TypeOK, HandleSetVar, HandleGetRules, HandleSetEnabled,
       HandleExecute, ExecuteDone, Forward, Critical, Changes, Return, Goto, memory,
       bounds
  <2>5. CASE \/ \E a \in Addresses, v \in Values : ReceiveValue(a, v)
             \/ \E r \in Requests : ReceiveRequest(r)
    BY <1>2, <2>5 DEF TypeOK, ReceiveValue, ReceiveRequest, Goto, memory, bounds
  <2>6. CASE \E rs \in RuleFiles : EditFile(rs)
    BY <2>1, <2>6 DEF LoadsFromFile, TypeOK, EditFile, memory
  <2>7. CASE Crash
    BY <2>7 DEF LoadsFromFile, Crash
  <2>8. QED
    BY <1>3, <1>4, <1>5, <1>7, <2>3, <2>4, <2>5, <2>6, <2>7
       DEF Next, MonitorStep, CommandStep, Environment
<1>9. CASE ~Loading(Monitor)
  <2>1. CASE Crash
    BY <2>1 DEF LoadsFromFile, Crash
  <2>2. CASE ~Crash
    <3>1. ASSUME NEW t \in Threads, SaveOpen(t) \/ SaveWrite(t) \/ SaveFails(t)
                                    \/ ExecuteRuleCommand(t)
          PROVE  ~Loading(Monitor)'
      BY <1>9, <3>1 DEF TypeOK, ExecuteRuleCommand, SaveOpen, SaveWrite, SaveFails,
         Return, Goto
    <3>2. CASE HandleSetVar \/ HandleGetRules \/ HandleSetEnabled \/ HandleExecute
               \/ ExecuteDone \/ Forward
      BY <1>1, <1>9, <3>2 DEF TypeOK, HandleSetVar, HandleGetRules, HandleSetEnabled,
         HandleExecute, ExecuteDone, Forward, Return, Goto
    <3>3. CASE \/ \E a \in Addresses, v \in Values : ReceiveValue(a, v)
               \/ \E r \in Requests : ReceiveRequest(r)
               \/ \E rs \in RuleFiles : EditFile(rs)
      BY <1>1, <1>9, <3>3 DEF TypeOK, ReceiveValue, ReceiveRequest, EditFile, Goto
    <3>4. QED
      BY <1>1, <1>3, <1>4, <1>5, <1>7, <2>2, <3>1, <3>2, <3>3
         DEF Next, MonitorStep, CommandStep, Environment
  <2>3. QED
    BY <2>1, <2>2
<1>10. QED
  BY <1>8, <1>9

\* A rule in memory changes only under rulesMutex, and its holder releases it only
\* after it saved the change, or could not.
LEMMA SavedStep ==
  ASSUME NoReloads, IInv, LoadsFromFile, SavedOrPending, Next
  PROVE  SavedOrPending'
<1> USE DEF Threads, Monitor, Command, Free, IInv
<1> DEFINE Goal == (failures' = 0 /\ edits' = 0 /\ ~Loading(Monitor)')
                     => Saved' \/ Unsaved'
<1>0. ~Loading(Command) /\ ~Loading(Command)'
  BY CommandLoadsNothing DEF SavedOrPending
<1> SUFFICES Goal
  BY <1>0 DEF SavedOrPending
<1>1. ASSUME UNCHANGED <<rules, file, failures, edits, lock>>,
             Loading(Monitor) => Loading(Monitor)',
             lock # Free => UNCHANGED <<pc[lock], modified[lock]>>
      PROVE  Goal
  BY <1>1 DEF SavedOrPending, Saved, Unsaved
<1>2. ASSUME UNCHANGED <<rules, file, failures, edits, lock, modified>>,
             lock # Free, pc[lock] \notin {"open", "write"}, ~Loading(Monitor)
      PROVE  Goal
  BY <1>2 DEF SavedOrPending, Saved, Unsaved
<1>3. ASSUME Saved, UNCHANGED <<rules, file>> PROVE Goal
  BY <1>3 DEF Saved
<1>4. ASSUME NEW t \in Threads, lock' = t, modified'[t] \/ pc'[t] \in {"open", "write"}
      PROVE  Goal
  BY <1>4 DEF Unsaved
<1>5. ASSUME lock = Free, ~Loading(Monitor), failures = 0, edits = 0 PROVE Saved
  BY <1>5 DEF SavedOrPending, Unsaved
<1>6. CASE LoadRead(Monitor)
  <2>1. CASE file.state = "partial"
    BY <1>6, <2>1 DEF LoadRead, LoadsFromFile, Loading, Saved, memory
  <2>2. CASE file.state # "partial"
    BY <1>6, <2>2 DEF TypeOK, LoadRead, Goto, Loading
  <2>3. QED
    BY <2>1, <2>2
<1>7. CASE LoadInstall(Monitor)
  BY <1>7 DEF LoadInstall, LoadsFromFile, Loading, Saved, bounds, Whole
<1>8. CASE EvaluateBegin
  BY <1>3, <1>5, <1>8 DEF EvaluateBegin, Acquire, Loading, memory, bounds
<1>9. CASE EvaluateRule \/ ReadInput \/ CompareInput \/ CommandsDone
  <2>1. lock = Monitor /\ pc[lock] \notin {"open", "write"} /\ ~Loading(Monitor)
    BY <1>9 DEF LockProtocol, Critical, Loading, EvaluateRule, ReadInput, CompareInput,
       CommandsDone
  <2>2. UNCHANGED <<rules, file, failures, edits, lock, modified>>
    BY <1>9 DEF EvaluateRule, ReadInput, CompareInput, CommandsDone, bounds
  <2>3. QED
    BY <1>2, <2>1, <2>2
<1>10. ASSUME NEW t \in Threads, lock = t, ~Loading(Monitor),
              pc[t] \notin {"open", "write"},
              UNCHANGED <<rules, file, failures, edits>>,
              \/ modified[t] /\ Goto(t, "open") /\ UNCHANGED lock
              \/ ~modified[t]
       PROVE  Goal
  <2>1. CASE modified[t]
    BY <1>10, <2>1 DEF TypeOK, Goto, Unsaved
  <2>2. CASE ~modified[t]
    BY <1>10, <2>2 DEF SavedOrPending, Saved, Unsaved
  <2>3. QED
    BY <2>1, <2>2
<1>11. CASE EvaluateEnd
  <2>1. lock = Monitor /\ ~Loading(Monitor) /\ pc[Monitor] \notin {"open", "write"}
    BY <1>11 DEF LockProtocol, Critical, Loading, EvaluateEnd
  <2>2. QED
    BY <1>10, <1>11, <2>1 DEF EvaluateEnd, memory, bounds
<1>12. CASE ExecuteDone
  <2>1. lock = Command /\ pc[Command] \notin {"open", "write"}
    BY <1>12 DEF LockProtocol, Critical, ExecuteDone
  <2>2. ~Loading(Monitor)
    BY <2>1 DEF LoadsFromFile
  <2>3. QED
    BY <1>10, <1>12, <2>1, <2>2 DEF ExecuteDone, memory, bounds
<1>13. ASSUME NEW t \in Threads, ExecuteRuleCommand(t) PROVE Goal
  <2>1. lock = t /\ pc[lock] = "command"
    BY <1>13 DEF LockProtocol, Critical, ExecuteRuleCommand
  <2>2. ~Loading(Monitor)
    BY <2>1 DEF LoadsFromFile
  <2>3. \/ UNCHANGED <<rules, modified>>
        \/ modified'[t]
    BY <1>13 DEF TypeOK, ExecuteRuleCommand, memory
  <2>4. UNCHANGED <<file, lock, pc, failures, edits>>
    BY <1>13 DEF ExecuteRuleCommand, bounds
  <2>5. QED
    BY <1>2, <1>4, <2>1, <2>2, <2>3, <2>4
<1>14. ASSUME NEW t \in Threads, SaveOpen(t) PROVE Goal
  <2>1. lock' = t /\ pc'[t] = "write"
    BY <1>14 DEF TypeOK, LockProtocol, Critical, SaveOpen, Goto
  <2>2. QED
    BY <1>4, <2>1
<1>15. ASSUME NEW t \in Threads, SaveWrite(t) PROVE Goal
  BY <1>15 DEF SaveWrite, Saved, memory, Whole
<1>16. ASSUME NEW t \in Threads, SaveFails(t) PROVE Goal
  BY <1>16 DEF TypeOK, SaveFails
<1>17. CASE HandleSetVar \/ Forward \/ \E r \in Requests : ReceiveRequest(r)
  <2>1. lock # Command
    BY <1>17 DEF LockProtocol, Critical, HandleSetVar, Forward, ReceiveRequest
  <2>2. UNCHANGED <<rules, file, failures, edits, lock, pc[Monitor], modified[Monitor]>>
    BY <1>17 DEF TypeOK, HandleSetVar, Forward, ReceiveRequest, Return, ResetLocals,
       Goto, memory, locals, bounds
  <2>3. QED
    BY <1>1, <2>1, <2>2 DEF TypeOK, Loading
<1>18. CASE HandleGetRules \/ HandleExecute
  <2>1. lock = Free /\ UNCHANGED <<rules, file, failures, edits>>
    BY <1>18 DEF HandleGetRules, HandleExecute, memory, bounds
  <2>2. pc'[Monitor] = pc[Monitor]
    BY <1>18 DEF TypeOK, HandleGetRules, HandleExecute, Return, Goto
  <2>3. QED
    BY <1>3, <1>5, <2>1, <2>2 DEF Loading
<1>19. CASE HandleSetEnabled
  <2>1. lock = Free /\ UNCHANGED <<file, failures, edits>>
    BY <1>19 DEF HandleSetEnabled, Changes, bounds
  <2>2. pc'[Monitor] = pc[Monitor]
    BY <1>19 DEF TypeOK, HandleSetEnabled, Return, Goto
  <2>3. UNCHANGED rules \/ (lock' = Command /\ pc'[Command] = "open")
    BY <1>19 DEF TypeOK, HandleSetEnabled, Goto, memory
  <2>4. QED
    BY <1>3, <1>4, <1>5, <2>1, <2>2, <2>3 DEF Loading
<1>20. CASE \E a \in Addresses, v \in Values : ReceiveValue(a, v)
  BY <1>1, <1>20 DEF ReceiveValue, Loading, memory, locals, bounds
<1>21. CASE \E rs \in RuleFiles : EditFile(rs)
  BY <1>21 DEF TypeOK, EditFile
<1>22. CASE Crash
  BY <1>22 DEF Crash, Loading
<1>23. ~LoadRead(Command) /\ ~LoadInstall(Command)
  BY <1>0 DEF Loading, LoadRead, LoadInstall
<1> HIDE DEF Goal
<1>24. QED
  BY <1>6, <1>7, <1>8, <1>9, <1>11, <1>12, <1>13, <1>14, <1>15, <1>16, <1>17, <1>18,
     <1>19, <1>20, <1>21, <1>22, <1>23 DEF Next, MonitorStep, CommandStep, Environment

\* When no client reloads the rules, rules.json holds the rules in memory whenever
\* rulesMutex is free and the monitor thread does not load, unless a write failed or
\* an operator edited the file; crashes included.
THEOREM MemoryMatchesFileHolds ==
  ASSUME NoReloads
  PROVE  Spec => []MemoryMatchesFile
<1> DEFINE Inv == IInv /\ LoadsFromFile /\ SavedOrPending
<1>1. Init => Inv
  <2>1. Init => LoadsFromFile /\ SavedOrPending
    BY DEF Init, LoadsFromFile, SavedOrPending, Loading, Threads, Monitor, Command, Free
  <2>2. QED
    BY <2>1, InitInvariant
<1>2. Inv /\ [Next]_vars => Inv'
  <2>1. Inv /\ Next => Inv'
    BY LoadStep, SavedStep, StepInvariant DEF SavedOrPending
  <2>2. Inv /\ UNCHANGED vars => Inv'
    <3>1. LoadsFromFile /\ UNCHANGED vars => LoadsFromFile'
      BY DEF LoadsFromFile, Loading, vars, memory, bounds
    <3>2. SavedOrPending /\ UNCHANGED vars => SavedOrPending'
      BY DEF SavedOrPending, Saved, Unsaved, Loading, vars, memory, locals, bounds
    <3>3. QED
      BY <3>1, <3>2, StepInvariant
  <2>3. QED
    BY <2>1, <2>2
<1>3. Inv => MemoryMatchesFile
  BY DEF SavedOrPending, Saved, Unsaved, MemoryMatchesFile, Threads
<1>4. QED
  BY <1>1, <1>2, <1>3, PTL DEF Spec

----------------------------------------------------------------------------
(* The pair of rules of rules.json.example hands over, in every file that  *)
(* begins with these two rules, one of them enabled: their conditions may  *)
(* be any, other rules may follow that leave the pair and its relay alone, *)
(* and operators may put such files in place at any time.                  *)

LeavesPairAlone(c) ==
  /\ c.type \in {"Enable", "Disable"} => c.address \notin {1, 2}
  /\ c.type = "Send" => c.address # Pump

Paired(rs) ==
  /\ Len(rs) >= 2
  /\ rs[1].id = 1 /\ rs[1].commands = DisablerCommands
  /\ rs[2].id = 2 /\ rs[2].commands = EnablerCommands
  /\ \A k \in 3..Len(rs) : \A j \in 1..Len(rs[k].commands) :
       LeavesPairAlone(rs[k].commands[j])

OneArmed(rs) == rs[1].enabled # rs[2].enabled

Fit(rs) == rs # <<>> => Paired(rs) /\ OneArmed(rs)

\* What the hand-over needs of the files and of the requests: a reload after an
\* edit, or a request that disables a rule, arms the rules as it likes.
PairFiles   == \A rs \in RuleFiles : Fit(rs)
NoSwitching == \A r \in Requests : r.op \notin {"RELOADRULES", "DISABLERULE"}

\* Whatever is in memory, in the file or on the way from one to the other begins
\* with the pair, and what is not in memory with one of the two armed.
PairEverywhere ==
  /\ rules # <<>> => Paired(rules)
  /\ file.state = "whole" => Fit(file.rules)
  /\ \A t \in Threads : Fit(loaded[t])

\* The rules have not sent anything while the server loads them for the first
\* time, and the command thread starts a rule at its first command.
PairControl ==
  /\ ~Loading(Command)
  /\ (Loading(Monitor) /\ crashes = 0) => sent[Pump] = "unknown"
  /\ pc[Command] \notin Critical => step[Command] = 1
  /\ request.op \notin {"ENABLERULE", "DISABLERULE"}

PumpAgrees ==
  (sent[Pump] # "unknown" /\ crashes = 0) => (sent[Pump] = "OFF" <=> rules[2].enabled)

Settled == rules # <<>> => OneArmed(rules) /\ PumpAgrees

\* A thread runs one of the pair's rules, has switched the pump and is still to
\* disable the rule itself or to enable the other.
Midway(t) == pc[t] = "command" /\ at[t] \in {1, 2} /\ step[t] \in {2, 3}

HandingOver(t) ==
  /\ sent[Pump] = IF at[t] = 1 THEN "OFF" ELSE "ON"
  /\ step[t] = 3 => ~rules[at[t]].enabled

\* Between a rule's first command and its last the pair may be in any state, which
\* its last command repairs; at all other times the pair is settled.
HandOver ==
  /\ \A t \in Threads : Midway(t) => HandingOver(t)
  /\ (\A t \in Threads : ~Midway(t)) => Settled

PairInv == PairEverywhere /\ PairControl /\ HandOver

\* The file the repository ships is one of those considered.
LEMMA ExampleFits == \A rs \in ExampleFiles : Fit(rs)
<1> DEFINE rs == << PumpDisabler(TRUE), PumpEnabler(FALSE) >>
<1>1. Len(rs) = 2 /\ rs[1] = PumpDisabler(TRUE) /\ rs[2] = PumpEnabler(FALSE)
  OBVIOUS
<1> HIDE DEF rs
<1>2. Fit(rs)
  BY <1>1 DEF Fit, Paired, OneArmed, PumpDisabler, PumpEnabler
<1>3. QED
  BY <1>2 DEF ExampleFiles, rs

\* The identifiers of the pair are found at its places, and no other is.
LEMMA PairIndex ==
  ASSUME rules \in Seq(Rule), Paired(rules)
  PROVE  /\ HasRule(1) /\ IndexOf(1) = 1
         /\ HasRule(2) /\ IndexOf(2) = 2
         /\ \A id : HasRule(id) /\ id \notin {1, 2} => IndexOf(id) \notin {1, 2}
<1>1. /\ Len(rules) \in Nat /\ Len(rules) >= 2 /\ DOMAIN rules = 1..Len(rules)
      /\ rules[1].id = 1 /\ rules[2].id = 2
  BY DEF Paired
<1>2. HasRule(1) /\ HasRule(2)
  BY <1>1 DEF HasRule
<1>3. \A id : HasRule(id) => IndexOf(id) \in 1..Len(rules) /\ rules[IndexOf(id)].id = id
  BY IndexOfRule
<1>4. IndexOf(1) = 1
  <2>1. \E i \in DOMAIN rules :
          /\ rules[i].id = 1
          /\ \A j \in DOMAIN rules : rules[j].id = 1 => i <= j
    BY <1>1
  <2>2. \A j \in DOMAIN rules : rules[j].id = 1 => IndexOf(1) <= j
    BY <2>1 DEF IndexOf
  <2>3. QED
    BY <1>1, <1>2, <1>3, <2>2
<1>5. IndexOf(2) = 2
  <2>1. \E i \in DOMAIN rules :
          /\ rules[i].id = 2
          /\ \A j \in DOMAIN rules : rules[j].id = 2 => i <= j
    BY <1>1
  <2>2. \A j \in DOMAIN rules : rules[j].id = 2 => IndexOf(2) <= j
    BY <2>1 DEF IndexOf
  <2>3. IndexOf(2) # 1
    BY <1>1, <1>2, <1>3
  <2>4. QED
    BY <1>1, <1>2, <1>3, <2>2, <2>3
<1>6. QED
  BY <1>1, <1>2, <1>3, <1>4, <1>5

\* Switching a rule keeps the pair in place and sets no flag of it but the rule's.
LEMMA PairKept ==
  ASSUME TypeOK, Paired(rules), NEW id, NEW on \in BOOLEAN, HasRule(id),
         SetRuleEnabledInternal(id, on)
  PROVE  /\ rules' # <<>> /\ Paired(rules')
         /\ rules'[1].enabled = IF id = 1 THEN on ELSE rules[1].enabled
         /\ rules'[2].enabled = IF id = 2 THEN on ELSE rules[2].enabled
<1> DEFINE n == IndexOf(id)
<1>1. /\ rules \in Seq(Rule)
      /\ Len(rules) \in Nat /\ Len(rules) >= 2 /\ DOMAIN rules = 1..Len(rules)
  BY DEF TypeOK, Paired
<1>2. /\ rules' \in Seq(Rule) /\ Len(rules') = Len(rules)
      /\ \A k \in 1..Len(rules) :
           rules'[k].id = rules[k].id /\ rules'[k].commands = rules[k].commands
  BY SetEnabledTypes
<1>3. Paired(rules') /\ rules' # <<>>
  <2>1. Len(rules') >= 2 /\ rules' # <<>>
    BY <1>1, <1>2
  <2>2. \A k \in {1, 2} \union 3..Len(rules) : k \in 1..Len(rules)
    BY <1>1
  <2>3. QED
    BY <1>2, <2>1, <2>2 DEF Paired
<1>4. n \in 1..Len(rules) /\ (n = 1 <=> id = 1) /\ (n = 2 <=> id = 2)
  BY <1>1, IndexOfRule, PairIndex
<1>5. rules' = [rules EXCEPT ![n].enabled = on]
  BY DEF SetRuleEnabledInternal
<1> HIDE DEF n
<1>6. \A k \in {1, 2} : rules[k] \in Rule
  BY <1>1, ElementOfSeq
<1>7. \A k \in {1, 2} :
        rules'[k].enabled = IF k = n THEN on ELSE rules[k].enabled
  BY <1>1, <1>4, <1>5, <1>6 DEF Rule
<1>8. QED
  BY <1>3, <1>4, <1>7

\* The same when the rule may already be in the wanted state.
LEMMA PairSwitched ==
  ASSUME TypeOK, Paired(rules), NEW id, NEW on \in BOOLEAN,
         IF Changes(id, on) THEN SetRuleEnabledInternal(id, on) ELSE UNCHANGED memory
  PROVE  /\ rules' # <<>> /\ Paired(rules')
         /\ rules'[1].enabled = IF id = 1 THEN on ELSE rules[1].enabled
         /\ rules'[2].enabled = IF id = 2 THEN on ELSE rules[2].enabled
<1>1. CASE Changes(id, on)
  BY <1>1, PairKept DEF Changes
<1>2. CASE ~Changes(id, on)
  <2>1. rules' = rules /\ rules # <<>>
    BY <1>2 DEF memory, Paired, TypeOK
  <2>2. \A k \in {1, 2} : id = k => rules[k].enabled = on
    BY <1>2, PairIndex DEF TypeOK, Changes
  <2>3. QED
    BY <2>1, <2>2
<1>3. QED
  BY <1>1, <1>2

\* One command of a rule: the pair's own commands hand over, those of another rule
\* leave the pair alone.
LEMMA PairCommand ==
  ASSUME Pump \in Relays, IInv, PairInv, NEW t \in Threads, ExecuteRuleCommand(t)
  PROVE  PairEverywhere' /\ HandOver'
<1> DEFINE c == Commands(t)[step[t]]
           on == c.type = "Enable"
           switches == c.type \in {"Enable", "Disable"}
<1>1. /\ TypeOK /\ rules \in Seq(Rule) /\ at[t] \in 1..Len(rules)
      /\ step[t] \in 1..Len(Commands(t))
      /\ lock = t /\ pc[t] = "command"
  <2>1. TypeOK /\ pc[t] = "command" /\ lock = t /\ at[t] \in 1..Len(rules)
    BY DEF IInv, LockProtocol, Places, Critical, ExecuteRuleCommand, Threads
  <2>2. rules \in Seq(Rule) /\ step[t] \in Nat \ {0}
    BY <2>1 DEF TypeOK
  <2>3. rules[at[t]] \in Rule
    BY <2>1, <2>2, ElementOfSeq
  <2>4. Commands(t) \in Seq(RuleCommand)
    BY <2>3 DEF Rule, Commands
  <2>5. QED
    BY <2>1, <2>2, <2>4 DEF ExecuteRuleCommand
<1>2. rules # <<>> /\ Paired(rules)
  BY <1>1 DEF PairInv, PairEverywhere
<1>3. \A u \in Threads : u # t => ~Midway(u) /\ ~Midway(u)'
  BY <1>1 DEF IInv, LockProtocol, Critical, Midway, ExecuteRuleCommand, Threads,
     Monitor, Command
<1>4. /\ IF switches /\ Changes(c.address, on)
            THEN SetRuleEnabledInternal(c.address, on) ELSE UNCHANGED memory
      /\ sent' = IF c.type = "Send" /\ c.address \in Relays
                 THEN [sent EXCEPT ![c.address] = IF c.value = 0 THEN "OFF" ELSE "ON"]
                 ELSE sent
      /\ step'[t] = step[t] + 1
      /\ UNCHANGED <<file, pc, at, loaded, crashes>>
  BY <1>1 DEF ExecuteRuleCommand, TypeOK, bounds
<1>5. on \in BOOLEAN
  OBVIOUS
<1>6. sent \in [Relays -> {"unknown", "ON", "OFF"}]
  BY <1>1 DEF TypeOK
<1> HIDE DEF on
<1>7. /\ rules' # <<>> /\ Paired(rules')
      /\ rules'[1].enabled = IF switches /\ c.address = 1 THEN on ELSE rules[1].enabled
      /\ rules'[2].enabled = IF switches /\ c.address = 2 THEN on ELSE rules[2].enabled
  <2>1. CASE switches
    BY <1>1, <1>2, <1>4, <1>5, <2>1, PairSwitched
  <2>2. CASE ~switches
    BY <1>2, <1>4, <2>2 DEF memory
  <2>3. QED
    BY <2>1, <2>2
<1>8. PairEverywhere'
  BY <1>4, <1>7 DEF PairInv, PairEverywhere
<1>9. ASSUME NEW type \in {"Enable", "Disable"}, NEW id \in {1, 2},
              c = Do(type, id, 0)
       PROVE  /\ sent' = sent
              /\ rules'[id].enabled = IF type = "Enable" THEN TRUE ELSE FALSE
              /\ id # 1 => rules'[1].enabled = rules[1].enabled
              /\ id # 2 => rules'[2].enabled = rules[2].enabled
  <2>1. c.type = type /\ c.address = id
    BY <1>9 DEF Do
  <2>2. /\ switches /\ c.type # "Send"
        /\ on = IF type = "Enable" THEN TRUE ELSE FALSE
    BY <2>1 DEF on
  <2> HIDE DEF c, switches
  <2>3. QED
    BY <1>4, <1>7, <2>1, <2>2
<1>10. (Midway(t) => HandingOver(t)) /\ (~Midway(t) => Settled)
  BY <1>3 DEF PairInv, HandOver
<1>11. ASSUME at[t] \in {1, 2}, step[t] \in {1, 2},
              sent'[Pump] = IF at[t] = 1 THEN "OFF" ELSE "ON",
              step[t] = 2 => ~rules'[at[t]].enabled
       PROVE  Midway(t)' /\ HandingOver(t)'
  <2>1. pc'[t] = "command" /\ at'[t] = at[t] /\ step'[t] = step[t] + 1
    BY <1>1, <1>4
  <2>2. Midway(t)'
    BY <1>11, <2>1 DEF Midway
  <2>3. HandingOver(t)'
    BY <1>11, <2>1 DEF HandingOver
  <2>4. QED
    BY <2>2, <2>3
<1>12. (Midway(t)' => HandingOver(t)') /\ (~Midway(t)' => Settled')
  <2>1. CASE at[t] = 1
    <3>1. Commands(t) = DisablerCommands
      BY <1>2, <2>1 DEF Commands, Paired
    <3>2. step[t] \in {1, 2, 3}
      BY <1>1, <3>1 DEF DisablerCommands
    <3>3. CASE step[t] = 1
      <4>1. c = Do("Send", Pump, 0)
        BY <3>1, <3>3 DEF DisablerCommands
      <4>2. sent'[Pump] = "OFF"
        BY <1>4, <1>6, <4>1 DEF Do
      <4>3. QED
        BY <1>11, <2>1, <3>3, <4>2
    <3>4. CASE step[t] = 2
      <4>1. c = Do("Disable", 1, 0)
        BY <3>1, <3>4 DEF DisablerCommands
      <4>2. sent' = sent /\ rules'[1].enabled = FALSE
        BY <1>9, <4>1
      <4>3. QED
        <5>1. sent[Pump] = IF at[t] = 1 THEN "OFF" ELSE "ON"
          BY <1>1, <1>10, <2>1, <3>4 DEF Midway, HandingOver
        <5>2. QED
          BY <1>11, <2>1, <3>4, <4>2, <5>1
    <3>5. CASE step[t] = 3
      <4>1. c = Do("Enable", 2, 0)
        BY <3>1, <3>5 DEF DisablerCommands
      <4>2. sent' = sent /\ rules'[2].enabled = TRUE
        BY <1>9, <4>1
      <4>3. rules'[1].enabled = rules[1].enabled
        BY <1>9, <4>1
      <4>4. Settled'
        BY <1>1, <1>10, <2>1, <3>5, <4>2, <4>3
           DEF Midway, HandingOver, Settled, OneArmed, PumpAgrees
      <4>5. QED
        BY <1>4, <3>5, <4>4 DEF Midway
    <3>6. QED
      BY <3>2, <3>3, <3>4, <3>5
  <2>2. CASE at[t] = 2
    <3>1. Commands(t) = EnablerCommands
      BY <1>2, <2>2 DEF Commands, Paired
    <3>2. step[t] \in {1, 2, 3}
      BY <1>1, <3>1 DEF EnablerCommands
    <3>3. CASE step[t] = 1
      <4>1. c = Do("Send", Pump, 1)
        BY <3>1, <3>3 DEF EnablerCommands
      <4>2. sent'[Pump] = "ON"
        BY <1>4, <1>6, <4>1 DEF Do
      <4>3. QED
        BY <1>11, <2>2, <3>3, <4>2
    <3>4. CASE step[t] = 2
      <4>1. c = Do("Disable", 2, 0)
        BY <3>1, <3>4 DEF EnablerCommands
      <4>2. sent' = sent /\ rules'[2].enabled = FALSE
        BY <1>9, <4>1
      <4>3. QED
        <5>1. sent[Pump] = IF at[t] = 1 THEN "OFF" ELSE "ON"
          BY <1>1, <1>10, <2>2, <3>4 DEF Midway, HandingOver
        <5>2. QED
          BY <1>11, <2>2, <3>4, <4>2, <5>1
    <3>5. CASE step[t] = 3
      <4>1. c = Do("Enable", 1, 0)
        BY <3>1, <3>5 DEF EnablerCommands
      <4>2. sent' = sent /\ rules'[1].enabled = TRUE
        BY <1>9, <4>1
      <4>3. rules'[2].enabled = rules[2].enabled
        BY <1>9, <4>1
      <4>4. Settled'
        BY <1>1, <1>10, <2>2, <3>5, <4>2, <4>3
           DEF Midway, HandingOver, Settled, OneArmed, PumpAgrees
      <4>5. QED
        BY <1>4, <3>5, <4>4 DEF Midway
    <3>6. QED
      BY <3>2, <3>3, <3>4, <3>5
  <2>3. CASE at[t] \in 3..Len(rules)
    <3>1. LeavesPairAlone(c)
      BY <1>1, <1>2, <2>3 DEF Commands, Paired
    <3>2. /\ sent'[Pump] = sent[Pump]
          /\ rules'[1].enabled = rules[1].enabled
          /\ rules'[2].enabled = rules[2].enabled
      BY <1>4, <1>6, <1>7, <3>1 DEF LeavesPairAlone
    <3>3. ~Midway(t) /\ ~Midway(t)'
      BY <1>4, <2>3 DEF Midway
    <3>4. QED
      BY <1>2, <1>4, <1>10, <3>2, <3>3 DEF Settled, OneArmed, PumpAgrees
  <2>4. QED
    BY <1>1, <2>1, <2>2, <2>3
<1>13. QED
  BY <1>3, <1>8, <1>12 DEF HandOver

\* The command thread starts a rule at its first command: Return puts it back, and
\* no location without the mutex moves it.
LEMMA CommandAtFirst ==
  ASSUME IInv, ~Loading(Command), pc[Command] \notin Critical => step[Command] = 1, Next
  PROVE  (pc[Command] \notin Critical => step[Command] = 1)'
<1> DEFINE Goal == (pc[Command] \notin Critical => step[Command] = 1)'
<1> SUFFICES Goal
  OBVIOUS
<1> USE DEF IInv, Threads, Monitor, Command
<1>1. ASSUME pc'[Command] = pc[Command], step'[Command] = step[Command] PROVE Goal
  BY <1>1
<1>2. ASSUME NEW ok, Return(Command, ok) PROVE Goal
  BY <1>2 DEF TypeOK, Return, ResetLocals
<1>3. ASSUME NEW ok, Return(Monitor, ok) PROVE Goal
  BY <1>3 DEF TypeOK, Return, ResetLocals, Goto
<1>4. ASSUME NEW met, Verdict(met) PROVE Goal
  BY <1>4 DEF TypeOK, Verdict, NextRule, Goto
<1>5. CASE LoadRead(Monitor) \/ LoadInstall(Monitor)
  BY <1>1, <1>3, <1>5 DEF TypeOK, LoadRead, LoadInstall, Goto, locals
<1>6. CASE EvaluateBegin \/ EvaluateRule \/ ReadInput \/ CompareInput
  BY <1>1, <1>4, <1>6 DEF TypeOK, EvaluateBegin, EvaluateRule, ReadInput, CompareInput,
     CompareWith, NextRule, ResetLocals, Goto
<1>7. CASE CommandsDone \/ EvaluateEnd
  BY <1>1, <1>3, <1>7 DEF TypeOK, CommandsDone, EvaluateEnd, NextRule, Goto, locals
<1>8. ASSUME NEW t \in Threads, ExecuteRuleCommand(t) PROVE Goal
  <2>1. CASE t = Command
    BY <1>8, <2>1 DEF ExecuteRuleCommand, Critical
  <2>2. CASE t = Monitor
    BY <1>1, <1>8, <2>2 DEF TypeOK, ExecuteRuleCommand
  <2>3. QED
    BY <2>1, <2>2
<1>9. ASSUME NEW t \in Threads, SaveOpen(t) PROVE Goal
  BY <1>9 DEF TypeOK, SaveOpen, Goto, Critical, locals
<1>10. ASSUME NEW t \in Threads, SaveWrite(t) \/ SaveFails(t) PROVE Goal
  <2>1. \E ok : Return(t, ok)
    BY <1>10 DEF SaveWrite, SaveFails
  <2>2. QED
    BY <1>2, <1>3, <2>1
<1>11. CASE HandleSetVar \/ HandleGetRules
  BY <1>2, <1>11 DEF HandleSetVar, HandleGetRules
<1>12. CASE HandleSetEnabled \/ HandleExecute \/ ExecuteDone
  <2>1. ASSUME NEW l \in Critical, Goto(Command, l) PROVE Goal
    BY <2>1 DEF TypeOK, Goto
  <2>2. "open" \in Critical /\ "command" \in Critical
    BY DEF Critical
  <2>3. QED
    BY <1>2, <1>12, <2>1, <2>2 DEF HandleSetEnabled, HandleExecute, ExecuteDone
<1>13. CASE Forward \/ \E r \in Requests : ReceiveRequest(r)
  BY <1>13 DEF TypeOK, Forward, ReceiveRequest, Goto, Critical, locals
<1>14. CASE \/ \E a \in Addresses, v \in Values : ReceiveValue(a, v)
            \/ \E rs \in RuleFiles : EditFile(rs)
  BY <1>1, <1>14 DEF ReceiveValue, EditFile, locals
<1>15. CASE Crash
  BY <1>15 DEF Crash
<1>16. ~LoadRead(Command) /\ ~LoadInstall(Command)
  BY DEF Loading, LoadRead, LoadInstall
<1>17. Monitor \in Threads /\ Command \in Threads
  OBVIOUS
<1> HIDE DEF Goal, IInv, Threads, Monitor, Command
<1>18. QED
  BY <1>5, <1>6, <1>7, <1>8, <1>9, <1>10, <1>11, <1>12, <1>13, <1>14, <1>15, <1>16, <1>17
     DEF Next, MonitorStep, CommandStep, Environment

\* The monitor thread loads only at the start, and until it has, no rule of the new
\* process can send anything.
LEMMA SilentWhileLoading ==
  ASSUME IInv, ~Loading(Command), LoadsFromFile, Next, Loading(Monitor)',
         crashes' = 0
  PROVE  crashes = 0 /\ Loading(Monitor) /\ sent' = sent
<1> DEFINE Goal == crashes = 0 /\ Loading(Monitor) /\ sent' = sent
<1> SUFFICES Goal
  OBVIOUS
<1> USE DEF IInv, Threads, Monitor, Command
<1>1. ASSUME NEW ok, Return(Monitor, ok) PROVE FALSE
  BY <1>1 DEF TypeOK, Return, Goto, Loading
<1>2. ASSUME UNCHANGED <<sent, crashes>>, pc'[Monitor] = pc[Monitor] PROVE Goal
  BY <1>2 DEF Loading
<1>3. CASE LoadRead(Monitor)
  BY <1>3 DEF LoadRead, Loading, bounds
<1>4. CASE LoadInstall(Monitor)
  BY <1>1, <1>4 DEF LoadInstall
<1>5. ASSUME NEW met, Verdict(met), ~Loading(Monitor) PROVE FALSE
  BY <1>5 DEF TypeOK, Verdict, NextRule, Goto, Loading
<1>6. ASSUME EvaluateBegin \/ EvaluateRule \/ ReadInput \/ CompareInput PROVE FALSE
  BY <1>5, <1>6 DEF TypeOK, EvaluateBegin, EvaluateRule, ReadInput, CompareInput,
     CompareWith, NextRule, Goto, Loading
<1>7. ASSUME CommandsDone \/ EvaluateEnd PROVE FALSE
  BY <1>1, <1>7 DEF TypeOK, CommandsDone, EvaluateEnd, NextRule, Goto, Loading
<1>8. ASSUME NEW t \in Threads, ExecuteRuleCommand(t) PROVE FALSE
  <2>1. lock = t /\ Loading(Monitor)
    BY <1>8 DEF ExecuteRuleCommand, LockProtocol, Critical, Loading
  <2>2. QED
    BY <2>1 DEF LoadsFromFile, Free
<1>9. ASSUME NEW t \in Threads, SaveOpen(t) \/ SaveWrite(t) \/ SaveFails(t) PROVE Goal
  <2>1. CASE t = Monitor
    <3>1. Goto(Monitor, "write") \/ \E ok : Return(Monitor, ok)
      BY <1>9, <2>1 DEF SaveOpen, SaveWrite, SaveFails
    <3>2. QED
      BY <1>1, <3>1 DEF TypeOK, Goto, Loading
  <2>2. CASE t = Command
    BY <1>2, <1>9, <2>2 DEF TypeOK, SaveOpen, SaveWrite, SaveFails, Return, Goto, bounds
  <2>3. QED
    BY <2>1, <2>2
<1>10. CASE HandleSetVar \/ HandleGetRules \/ HandleSetEnabled \/ HandleExecute
            \/ ExecuteDone \/ Forward
  BY <1>2, <1>10 DEF TypeOK, HandleSetVar, HandleGetRules, HandleSetEnabled,
     HandleExecute, ExecuteDone, Forward, Return, Goto, bounds
<1>11. CASE \/ \E a \in Addresses, v \in Values : ReceiveValue(a, v)
            \/ \E r \in Requests : ReceiveRequest(r)
            \/ \E rs \in RuleFiles : EditFile(rs)
  BY <1>2, <1>11 DEF TypeOK, ReceiveValue, ReceiveRequest, EditFile, Goto, bounds
<1>12. ASSUME Crash PROVE FALSE
  <2>1. crashes \in Nat /\ crashes' = crashes + 1
    BY <1>12, BoundsAssumption DEF TypeOK, Crash
  <2>2. QED
    BY <2>1
<1>13. ~LoadRead(Command) /\ ~LoadInstall(Command)
  BY DEF Loading, LoadRead, LoadInstall
<1>14. Monitor \in Threads /\ Command \in Threads
  OBVIOUS
<1> HIDE DEF Goal, IInv, Threads, Monitor, Command
<1>15. QED
  BY <1>3, <1>4, <1>6, <1>7, <1>8, <1>9, <1>10, <1>11, <1>12, <1>13, <1>14
     DEF Next, MonitorStep, CommandStep, Environment

\* Every step keeps PairControl.
LEMMA PairControlStep ==
  ASSUME NoSwitching, IInv, LoadsFromFile, PairControl, Next,
         request'.op # "ENABLERULE"
  PROVE  PairControl'
<1>1. ~Loading(Command)'
  BY CommandLoadsNothing DEF NoSwitching, NoReloads, IInv, PairControl
<1>2. (Loading(Monitor)' /\ crashes' = 0) => sent'[Pump] = "unknown"
  BY SilentWhileLoading DEF PairControl
<1>3. (pc[Command] \notin Critical => step[Command] = 1)'
  BY CommandAtFirst DEF PairControl
<1>4. request' \in Requests \union {NoRequest}
  BY StepInvariant DEF IInv, TypeOK
<1>5. request'.op # "DISABLERULE"
  BY <1>4 DEF NoSwitching, NoRequest
<1>6. QED
  BY <1>1, <1>2, <1>3, <1>5 DEF PairControl

\* Every other step keeps the pair's place and state: it moves whole files, or it
\* begins or ends a rule.
LEMMA PairStep ==
  ASSUME Pump \in Relays, PairFiles, IInv, IInv', LoadsFromFile, PairInv, PairControl',
         Next
  PROVE  PairEverywhere' /\ HandOver'
<1> DEFINE Goal == PairEverywhere' /\ HandOver'
<1> SUFFICES Goal
  OBVIOUS
<1> USE DEF Threads, Monitor, Command
<1>1. /\ TypeOK /\ PairEverywhere /\ PairControl /\ HandOver
      /\ \A t \in Threads : Midway(t) => lock = t
      /\ \A t \in Threads : Midway(t)' => lock' = t
  BY DEF PairInv, IInv, LockProtocol, Critical, Midway
<1>2. ASSUME UNCHANGED <<rules, file, loaded>> PROVE PairEverywhere'
  BY <1>1, <1>2 DEF PairEverywhere
<1>3. ASSUME \A t \in Threads : ~Midway(t) PROVE Settled
  BY <1>1, <1>3 DEF HandOver
<1>4. ASSUME UNCHANGED <<rules, sent, crashes>>,
             \A t \in Threads : ~Midway(t), \A t \in Threads : ~Midway(t)'
      PROVE  HandOver'
  BY <1>3, <1>4 DEF HandOver, Settled, PumpAgrees
<1>5. ASSUME UNCHANGED <<rules, sent, crashes>>,
             \A t \in Threads : \/ pc'[t] = pc[t] /\ at'[t] = at[t] /\ step'[t] = step[t]
                                \/ pc[t] # "command" /\ pc'[t] # "command"
      PROVE  HandOver'
  <2>1. \A t \in Threads : Midway(t)' <=> Midway(t)
    BY <1>5 DEF Midway
  <2>2. \A t \in Threads : Midway(t) => pc'[t] = pc[t] /\ at'[t] = at[t] /\ step'[t] = step[t]
    BY <1>5 DEF Midway
  <2>3. \A t \in Threads : Midway(t)' => HandingOver(t)'
    BY <1>1, <1>5, <2>1, <2>2 DEF HandOver, HandingOver
  <2>4. (\A t \in Threads : ~Midway(t)') => Settled'
    BY <1>3, <1>5, <2>1 DEF Settled, PumpAgrees
  <2>5. QED
    BY <2>3, <2>4 DEF HandOver
<1>6. CASE LoadRead(Monitor)
  <2>1. file.state = "whole" => Fit(file.rules)
    BY <1>1 DEF PairEverywhere
  <2>2. PairEverywhere'
    BY <1>1, <1>6, <2>1 DEF PairEverywhere, TypeOK, LoadRead, memory
  <2>3. pc[Monitor] = "read" /\ pc'[Monitor] # "command" /\ pc'[Command] = pc[Command]
    BY <1>1, <1>6 DEF TypeOK, LoadRead, Return, Goto
  <2>4. lock = Free /\ lock' = Free
    BY <1>6, <2>3 DEF LoadsFromFile, Loading, LoadRead
  <2>5. QED
    BY <1>1, <1>4, <1>6, <2>2, <2>4 DEF LoadRead, memory, bounds, Free
<1>7. CASE LoadInstall(Monitor)
  <2>1. /\ rules' = loaded[Monitor] /\ Fit(loaded[Monitor])
        /\ lock' = Free /\ UNCHANGED <<file, sent, crashes>>
    BY <1>1, <1>7 DEF LoadInstall, PairEverywhere, bounds
  <2>2. crashes = 0 => sent[Pump] = "unknown"
    BY <1>1, <1>7 DEF PairControl, LoadInstall, Loading
  <2>3. \A t \in Threads : loaded'[t] = loaded[t] \/ loaded'[t] = <<>>
    BY <1>1, <1>7 DEF TypeOK, LoadInstall
  <2>4. PairEverywhere'
    BY <1>1, <2>1, <2>3 DEF PairEverywhere, Fit
  <2>5. Settled'
    BY <2>1, <2>2 DEF Settled, Fit, PumpAgrees
  <2>6. QED
    BY <1>1, <2>1, <2>4, <2>5 DEF HandOver, Free
<1>8. CASE EvaluateBegin
  <2>1. lock = Free /\ pc'[Monitor] = "rule" /\ pc'[Command] = pc[Command]
    BY <1>1, <1>8 DEF TypeOK, EvaluateBegin, Acquire, Goto
  <2>2. ~Midway(Monitor)' /\ pc[Command] # "command"
    BY <2>1 DEF Midway, IInv, LockProtocol, Critical, Free
  <2>3. \A t \in Threads : ~Midway(t) /\ ~Midway(t)'
    BY <1>1, <2>1, <2>2 DEF Midway, Free
  <2>4. QED
    BY <1>2, <1>4, <1>8, <2>3 DEF EvaluateBegin, memory, bounds
<1>9. ASSUME NEW met, Verdict(met) PROVE ~Midway(Monitor)'
  BY <1>1, <1>9 DEF TypeOK, Verdict, NextRule, Goto, Midway
<1>10. CASE EvaluateRule \/ ReadInput \/ CompareInput
  <2>1. pc[Monitor] # "command" /\ lock = Monitor /\ lock' = Monitor
    BY <1>10 DEF IInv, LockProtocol, Critical, EvaluateRule, ReadInput, CompareInput
  <2>2. ~Midway(Monitor)'
    <3>1. ASSUME NEW l, l # "command", Goto(Monitor, l) PROVE ~Midway(Monitor)'
      BY <1>1, <3>1 DEF TypeOK, Goto, Midway
    <3>2. QED
      BY <1>9, <1>10, <3>1 DEF EvaluateRule, ReadInput, CompareInput, CompareWith,
         NextRule
  <2>3. \A t \in Threads : ~Midway(t) /\ ~Midway(t)'
    BY <1>1, <2>1, <2>2 DEF Midway
  <2>4. QED
    BY <1>2, <1>4, <1>10, <2>3 DEF EvaluateRule, ReadInput, CompareInput, bounds
<1>11. ASSUME NEW t \in Threads, pc[t] = "command", step[t] > Len(Commands(t))
       PROVE  ~Midway(t)
  <2>1. at[t] \in 1..Len(rules)
    BY <1>11 DEF IInv, Places
  <2>2. rules # <<>>
    BY <1>1, <2>1 DEF TypeOK
  <2>3. Paired(rules)
    BY <1>1, <2>2 DEF PairEverywhere
  <2>4. Len(DisablerCommands) = 3 /\ Len(EnablerCommands) = 3
    BY DEF DisablerCommands, EnablerCommands
  <2>5. at[t] \in {1, 2} => Len(Commands(t)) = 3
    BY <2>3, <2>4 DEF Paired, Commands
  <2>6. CASE at[t] \in {1, 2}
    <3>1. step[t] > 3
      BY <1>11, <2>5, <2>6
    <3>2. QED
      BY <3>1 DEF Midway
  <2>7. QED
    BY <2>6 DEF Midway
<1>12. CASE CommandsDone
  <2>1. lock = Monitor /\ lock' = Monitor /\ pc'[Monitor] = "rule"
    BY <1>1, <1>12 DEF TypeOK, IInv, LockProtocol, Critical, CommandsDone, NextRule, Goto
  <2>2. \A t \in Threads : ~Midway(t) /\ ~Midway(t)'
    BY <1>1, <1>11, <1>12, <2>1 DEF CommandsDone, Midway
  <2>3. QED
    BY <1>2, <1>4, <1>12, <2>2 DEF CommandsDone, bounds
<1>13. ASSUME NEW t \in Threads, lock = t, ~Midway(t), lock' \in {t, Free},
              pc'[t] # "command", UNCHANGED <<rules, file, loaded, sent, crashes>>
       PROVE  Goal
  <2>1. \A u \in Threads : ~Midway(u) /\ ~Midway(u)'
    BY <1>1, <1>13 DEF Midway, Free
  <2>2. QED
    BY <1>2, <1>4, <1>13, <2>1
<1>14. CASE EvaluateEnd
  <2>1. pc[Monitor] = "rule" /\ pc'[Monitor] # "command" /\ lock' \in {lock, Free}
    BY <1>1, <1>14 DEF TypeOK, EvaluateEnd, Release, Return, Goto
  <2>2. lock = Monitor /\ ~Midway(Monitor)
    BY <2>1 DEF IInv, LockProtocol, Critical, Midway
  <2>3. QED
    BY <1>13, <1>14, <2>1, <2>2 DEF EvaluateEnd, memory, bounds
<1>15. CASE ExecuteDone
  <2>1. pc[Command] = "command" /\ pc'[Command] # "command" /\ lock' \in {lock, Free}
    BY <1>1, <1>15 DEF TypeOK, ExecuteDone, Release, Return, Goto
  <2>2. lock = Command /\ ~Midway(Command)
    BY <1>11, <1>15, <2>1 DEF IInv, LockProtocol, Critical, ExecuteDone
  <2>3. QED
    BY <1>13, <1>15, <2>1, <2>2 DEF ExecuteDone, memory, bounds
<1>16. ASSUME NEW t \in Threads, SaveOpen(t) \/ SaveWrite(t) \/ SaveFails(t) PROVE Goal
  <2>1. /\ pc[t] \in {"open", "write"} /\ pc'[t] # "command" /\ lock' \in {lock, Free}
        /\ UNCHANGED <<rules, loaded, sent, crashes>>
    BY <1>1, <1>16 DEF TypeOK, SaveOpen, SaveWrite, SaveFails, Release, Return, Goto,
       memory, bounds
  <2>2. lock = t /\ ~Midway(t)
    BY <2>1 DEF IInv, LockProtocol, Critical, Midway
  <2>3. \A u \in Threads : ~Midway(u) /\ ~Midway(u)'
    BY <1>1, <2>1, <2>2 DEF Midway, Free
  <2>4. HandOver'
    BY <1>4, <2>1, <2>3
  <2>5. Fit(rules)
    BY <1>1, <1>3, <2>3 DEF PairEverywhere, Settled, Fit
  <2>6. UNCHANGED file \/ file' = Partial \/ file' = Whole(rules)
    BY <1>16 DEF SaveOpen, SaveWrite, SaveFails
  <2>7. PairEverywhere'
    BY <1>1, <2>1, <2>5, <2>6 DEF PairEverywhere, Partial, Whole
  <2>8. QED
    BY <2>4, <2>7
<1>17. CASE \/ HandleSetVar \/ Forward
            \/ \E a \in Addresses, v \in Values : ReceiveValue(a, v)
            \/ \E r \in Requests : ReceiveRequest(r)
  <2>1. UNCHANGED <<rules, file, loaded, sent, crashes>>
    BY <1>17 DEF HandleSetVar, Forward, ReceiveValue, ReceiveRequest, memory, bounds
  <2>2. \A t \in Threads : \/ pc'[t] = pc[t] /\ at'[t] = at[t] /\ step'[t] = step[t]
                           \/ pc[t] # "command" /\ pc'[t] # "command"
    BY <1>1, <1>17 DEF TypeOK, HandleSetVar, Forward, ReceiveValue, ReceiveRequest,
       Return, ResetLocals, Goto, locals
  <2>3. QED
    BY <1>2, <1>5, <2>1, <2>2
<1>18. CASE HandleGetRules \/ HandleExecute
  <2>1. lock = Free /\ UNCHANGED <<rules, file, loaded, sent, crashes>>
    BY <1>18 DEF HandleGetRules, HandleExecute, memory, bounds
  <2>2. step'[Command] = 1 /\ (lock' = Free \/ lock' = Command)
    BY <1>1, <1>18 DEF TypeOK, HandleGetRules, HandleExecute, PairControl, Critical,
       Return, ResetLocals
  <2>3. \A t \in Threads : ~Midway(t) /\ ~Midway(t)'
    BY <1>1, <2>1, <2>2 DEF Midway, Free
  <2>4. QED
    BY <1>2, <1>4, <2>1, <2>3
<1>19. ASSUME NEW rs \in RuleFiles, EditFile(rs) PROVE Goal
  <2>1. UNCHANGED <<rules, loaded, sent, crashes, pc, at, step>> /\ file' = Whole(rs)
    BY <1>19 DEF EditFile, memory, locals
  <2>2. PairEverywhere'
    BY <1>1, <2>1 DEF PairEverywhere, PairFiles, Whole
  <2>3. QED
    BY <1>5, <2>1, <2>2
<1>20. CASE Crash
  <2>1. /\ rules' = <<>> /\ file' = file
        /\ \A t \in Threads : loaded'[t] = <<>> /\ pc'[t] # "command"
    BY <1>20 DEF Crash
  <2>2. QED
    BY <1>1, <2>1 DEF PairEverywhere, HandOver, Midway, Settled, Fit
<1>21. ~HandleSetEnabled /\ ~LoadRead(Command) /\ ~LoadInstall(Command)
  BY <1>1 DEF PairControl, HandleSetEnabled, Loading, LoadRead, LoadInstall
<1>22. ASSUME NEW t \in Threads, ExecuteRuleCommand(t) PROVE Goal
  BY <1>22, PairCommand
<1>23. Monitor \in Threads /\ Command \in Threads
  OBVIOUS
<1> HIDE DEF Goal, Threads, Monitor, Command
<1>24. QED
  BY <1>6, <1>7, <1>8, <1>10, <1>12, <1>14, <1>15, <1>16, <1>17, <1>18, <1>19, <1>20,
     <1>21, <1>22, <1>23 DEF Next, MonitorStep, CommandStep, Environment

\* Whenever rulesMutex is free, exactly one rule of the pair is armed, and until the
\* server crashes it is the one that would change the pump: for every file that
\* begins with the pair, through EXECUTERULE of any rule, any number of crashes,
\* failed writes and edits, and any values of the battery.
THEOREM PairHandsOverHolds ==
  ASSUME Pump \in Relays, PairFiles, NoSwitching
  PROVE  PumpSpec => []PairHandsOver
<1> DEFINE Inv == clients = "executing" => IInv /\ LoadsFromFile /\ PairInv
<1>1. PumpInit => Inv
  <2>1. Init => LoadsFromFile
    BY DEF Init, LoadsFromFile, Loading, Threads, Monitor, Free
  <2>2. Init => PairEverywhere
    BY DEF Init, PairEverywhere, PairFiles, NoFile, Whole, Fit
  <2>3. Init => PairControl /\ HandOver
    BY DEF Init, PairControl, HandOver, Midway, Settled, Loading, NoRequest, Threads,
       Monitor, Command
  <2>4. QED
    BY <2>1, <2>2, <2>3, InitInvariant DEF PumpInit, PairInv
<1>2. Inv /\ [PumpNext]_<<vars, clients>> => Inv'
  <2>1. ASSUME Inv, PumpNext, clients = "executing"
        PROVE  (IInv /\ LoadsFromFile /\ PairInv)'
    <3>1. Next /\ request'.op # "ENABLERULE"
      BY <2>1 DEF PumpNext
    <3>2. IInv' /\ LoadsFromFile'
      BY <2>1, <3>1, StepInvariant, LoadStep DEF PairInv, PairControl
    <3>3. PairControl'
      BY <2>1, <3>1, PairControlStep DEF PairInv
    <3>4. QED
      BY <2>1, <3>1, <3>2, <3>3, PairStep DEF PairInv
  <2>2. ASSUME Inv, UNCHANGED <<vars, clients>>, clients = "executing"
        PROVE  (IInv /\ LoadsFromFile /\ PairInv)'
    <3>1. IInv' /\ LoadsFromFile'
      BY <2>2, StepInvariant DEF LoadsFromFile, Loading, vars, memory, bounds
    <3>2. PairEverywhere' /\ PairControl'
      BY <2>2 DEF PairInv, PairEverywhere, PairControl, Loading, vars, memory, locals,
         bounds
    <3>3. HandOver'
      BY <2>2 DEF PairInv, HandOver, Midway, HandingOver, Settled, PumpAgrees, vars,
         memory, locals, bounds
    <3>4. QED
      BY <3>1, <3>2, <3>3 DEF PairInv
  <2>3. PumpNext \/ UNCHANGED <<vars, clients>> => clients' = clients
    BY DEF PumpNext
  <2>4. QED
    BY <2>1, <2>2, <2>3
<1>3. Inv => PairHandsOver
  <2>1. ASSUME Inv, clients = "executing", lock = Free, rules # <<>>
        PROVE  OneArmed(rules) /\ PumpAgrees
    <3>1. \A t \in Threads : ~Midway(t)
      BY <2>1 DEF IInv, LockProtocol, Critical, Midway, Threads, Monitor, Command, Free
    <3>2. QED
      BY <2>1, <3>1 DEF PairInv, HandOver, Settled
  <2>2. QED
    BY <2>1 DEF PairHandsOver, OneArmed, PumpAgrees
<1>4. QED
  BY <1>1, <1>2, <1>3, PTL DEF PumpSpec
=============================================================================
