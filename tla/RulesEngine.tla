----------------------------- MODULE RulesEngine -----------------------------
(***************************************************************************)
(* The rules engine of the monitor server (server/rules.hpp), with the two *)
(* threads that drive it: the monitor thread, which loads rules.json once  *)
(* and then evaluates every rule after each batch of register values, and  *)
(* the HTTP command thread, which enables, disables, executes and reloads  *)
(* rules on behalf of authorised clients.                                  *)
(*                                                                         *)
(* rulesMutex is the variable lock.  Everything the code does while it     *)
(* holds the mutex is a sequence of small steps here, because the server's *)
(* variables (variables.hpp) and the file are reached without it: the      *)
(* variables have a mutex of their own, and loadRules reads the file       *)
(* before it takes rulesMutex.                                             *)
(*                                                                         *)
(* Register values and condition thresholds are integers, in tenths where  *)
(* the register has a multiplier of 0.1.                                   *)
(***************************************************************************)
EXTENDS Integers, Sequences, FiniteSets

CONSTANTS
  RuleIds,      \* rule identifiers, positive (0 in a file is replaced on load)
  RuleFiles,    \* the rule sequences an operator may put in rules.json
  Addresses,    \* register addresses and relay numbers the devices report
  Values,       \* the values the devices report for them
  Keys,         \* keys of the server's variables
  Relays,       \* relays a "send" command may name
  DayTimes,     \* the readings of the wall clock, in seconds of the day
  Requests,     \* what authorised HTTP clients ask for
  Absent,       \* no value reported yet for an address
  MaxVariable,  \* bound: requests stop once a variable is this far from zero
  MaxCrashes,   \* bound: number of crashes of the server
  MaxFailures,  \* bound: number of failed writes of rules.json
  MaxEdits      \* bound: number of edits of rules.json by an operator

ConditionInputTypes == {"Register", "Variable", "Relay", "Time", "Unknown"}
ConditionOperators  == {"Equal", "NotEqual", "Less", "LessEqual", "Greater",
                        "GreaterEqual", "Unknown"}
CommandTypes == {"Send", "Enable", "Disable", "SetVar", "AddVar", "SubVar",
                 "System", "Unknown"}

RuleCondition ==
  [inputType : ConditionInputTypes, inputAddress : Nat, op : ConditionOperators,
   valueInputType : ConditionInputTypes, valueInputAddress : Nat,
   valueNumber : Int]

\* address is the variable's key, the target of Enable and Disable, or the
\* relay a Send names; value is the number in the command's data (for a Send,
\* 0 means OFF).
RuleCommand == [type : CommandTypes, address : Nat, value : Int]

Rule == [id : RuleIds, enabled : BOOLEAN, conditions : Seq(RuleCondition),
         commands : Seq(RuleCommand)]

RequestOps == {"GETRULES", "RELOADRULES", "ENABLERULE", "DISABLERULE",
               "EXECUTERULE", "SETVAR"}
Request == [op : RequestOps, id : Nat, value : Int]
NoRequest == [op |-> "none", id |-> 0, value |-> 0]

ASSUME RuleIdsAssumption == RuleIds \subseteq Nat \ {0}
ASSUME RuleFilesAssumption == RuleFiles \subseteq Seq(Rule)
ASSUME ValuesAssumption == Values \subseteq Int /\ Absent \notin Int
ASSUME DayTimesAssumption == DayTimes \subseteq Int /\ DayTimes # {}
ASSUME RequestsAssumption == Requests \subseteq Request
ASSUME BoundsAssumption ==
  {MaxVariable, MaxCrashes, MaxFailures, MaxEdits} \subseteq Nat

Monitor == "monitor"        \* serverLoop
Command == "command"        \* commandServerLoop
Threads == {Monitor, Command}
Free    == "free"           \* rulesMutex is not held

\* Where a thread is: "idle" outside rules.hpp; "read", "clear" and "install"
\* in loadRules; "lock" before a request takes the mutex; "rule", "input" and
\* "compare" in evaluateRules; "command" running the commands of a rule;
\* "open" and "write" in saveRules; "forward" when a refused request goes on
\* to parseCommand.
Locations == {"idle", "read", "clear", "install", "lock", "rule", "input",
              "compare", "command", "open", "write", "forward"}
\* The locations at which the code holds rulesMutex.
Critical == {"rule", "input", "compare", "command", "open", "write"}

VARIABLES
  rules,        \* the rules in memory, in file order
  lastState,    \* ruleLastState: was the rule's condition met last time?
  variables,    \* the server's variables
  lastValues,   \* the last value of each address, owned by the monitor thread
  file,         \* rules.json: absent, partly written, or whole
  lock,         \* the holder of rulesMutex
  pc,           \* where each thread is
  at,           \* index of the rule a thread works on
  step,         \* index of its condition or command
  held,         \* the condition's input value, read before its compare value
  modified,     \* rulesModified of each thread
  loaded,       \* the rules a thread has parsed and not yet installed
  request,      \* the request the command thread serves
  sent,         \* history: the last state a rule sent each relay
  spent,        \* history: rules that fired and have not been re-armed since
  crashes, failures, edits    \* how often each bounded event happened

memory  == <<rules, lastState, spent>>
locals  == <<at, step, modified>>
bounds  == <<crashes, failures, edits>>
vars == <<memory, variables, lastValues, file, lock, pc, locals, held, loaded,
          request, sent, bounds>>

Whole(rs) == [state |-> "whole", rules |-> rs]
Partial   == [state |-> "partial", rules |-> <<>>]
NoFile    == [state |-> "absent", rules |-> <<>>]

NeverMet == [id \in RuleIds |-> FALSE]

TypeOK ==
  /\ rules \in Seq(Rule)
  /\ lastState \in [RuleIds -> BOOLEAN]
  /\ variables \in [Keys -> Int]
  /\ lastValues \in [Addresses -> Values \union {Absent}]
  /\ file \in [state : {"absent", "partial", "whole"}, rules : Seq(Rule)]
  /\ lock \in Threads \union {Free}
  /\ pc \in [Threads -> Locations]
  /\ at \in [Threads -> Nat \ {0}]
  /\ step \in [Threads -> Nat \ {0}]
  /\ held \in Int
  /\ modified \in [Threads -> BOOLEAN]
  /\ loaded \in [Threads -> Seq(Rule)]
  /\ request \in Requests \union {NoRequest}
  /\ sent \in [Relays -> {"unknown", "ON", "OFF"}]
  /\ spent \subseteq Nat
  /\ crashes \in 0..MaxCrashes
  /\ failures \in 0..MaxFailures
  /\ edits \in 0..MaxEdits

Init ==
  /\ rules = <<>> /\ lastState = NeverMet /\ spent = {}
  /\ variables = [k \in Keys |-> 0]
  /\ lastValues = [a \in Addresses |-> Absent]
  /\ file \in {NoFile} \union {Whole(rs) : rs \in RuleFiles}
  /\ lock = Free
  /\ pc = [t \in Threads |-> IF t = Monitor THEN "read" ELSE "idle"]
  /\ at = [t \in Threads |-> 1] /\ step = [t \in Threads |-> 1]
  /\ modified = [t \in Threads |-> FALSE]
  /\ held = 0
  /\ loaded = [t \in Threads |-> <<>>]
  /\ request = NoRequest
  /\ sent = [r \in Relays |-> "unknown"]
  /\ crashes = 0 /\ failures = 0 /\ edits = 0

----------------------------------------------------------------------------
(* Control shared by the two threads.                                      *)

Goto(t, l) == pc' = [pc EXCEPT ![t] = l]

\* (Broken variant: the first index of a sequence taken to be 0.)
ResetLocalsToZero(t) ==
  /\ at' = [at EXCEPT ![t] = 0]
  /\ step' = [step EXCEPT ![t] = 1]
  /\ modified' = [modified EXCEPT ![t] = FALSE]

ResetLocals(t) ==
  /\ at' = [at EXCEPT ![t] = 1]
  /\ step' = [step EXCEPT ![t] = 1]
  /\ modified' = [modified EXCEPT ![t] = FALSE]

\* The call returns.  The command thread answers a request that succeeded and
\* passes one that was refused on to parseCommand; the monitor thread ignores
\* the result.
Return(t, ok) ==
  /\ ResetLocals(t)
  /\ IF t = Monitor \/ ok THEN Goto(t, "idle") ELSE Goto(t, "forward")
  /\ request' = IF t = Command /\ ok THEN NoRequest ELSE request

Acquire(t) == lock = Free /\ lock' = t
Release(t) == lock' = Free

----------------------------------------------------------------------------
(* loadRules: the file is read and parsed first, the mutex is taken only   *)
(* to install the result.                                                  *)

LoadRead(t) ==
  /\ pc[t] = "read"
  /\ CASE file.state = "absent" ->
            Goto(t, "clear") /\ UNCHANGED <<loaded, locals, request>>
       [] file.state = "partial" ->
            Return(t, FALSE) /\ UNCHANGED loaded
       [] OTHER ->
            /\ loaded' = [loaded EXCEPT ![t] = file.rules]
            /\ Goto(t, "install") /\ UNCHANGED <<locals, request>>
  /\ UNCHANGED <<memory, variables, lastValues, file, lock, held, sent, bounds>>

LoadInstall(t) ==
  /\ pc[t] \in {"clear", "install"}
  /\ lock = Free
  /\ rules' = loaded[t] /\ lastState' = NeverMet /\ spent' = {}
  /\ loaded' = [loaded EXCEPT ![t] = <<>>]
  /\ Return(t, TRUE)
  /\ UNCHANGED <<variables, lastValues, file, lock, held, sent, bounds>>

----------------------------------------------------------------------------
(* setRuleEnabledInternal: the first rule with the id changes, if it is    *)
(* not already in the wanted state.  Disabling clears the last verdict;    *)
(* enabling leaves it as it is.                                            *)

HasRule(id) == \E i \in DOMAIN rules : rules[i].id = id
IndexOf(id) ==
  CHOOSE i \in DOMAIN rules :
    /\ rules[i].id = id
    /\ \A j \in DOMAIN rules : rules[j].id = id => i <= j

\* (Broken variant: an enabled rule counts as already in the wanted state.)
ChangesDisabled(id, on) == HasRule(id) /\ ~rules[IndexOf(id)].enabled

Changes(id, on) == HasRule(id) /\ rules[IndexOf(id)].enabled # on

SetRuleEnabledInternal(id, on) ==
  /\ rules' = [rules EXCEPT ![IndexOf(id)].enabled = on]
  /\ lastState' = [lastState EXCEPT ![id] = on /\ @]
  /\ spent' = IF on THEN spent ELSE spent \ {IndexOf(id)}

----------------------------------------------------------------------------
(* evaluateRules, on the monitor thread.                                   *)

\* A device's line is stored (updateAddressValue, updateRelayStateWithIp).
ReceiveValue(a, v) ==
  /\ pc[Monitor] = "idle"
  /\ lastValues' = [lastValues EXCEPT ![a] = v]
  /\ UNCHANGED <<memory, variables, file, lock, pc, locals, held, loaded,
                 request, sent, bounds>>

\* A pass starts after values arrived and in any case every five seconds, so
\* it may start whenever the thread is outside the engine.
EvaluateBegin ==
  /\ pc[Monitor] = "idle"
  /\ Acquire(Monitor)
  /\ Goto(Monitor, "rule")
  /\ ResetLocals(Monitor)
  /\ UNCHANGED <<memory, variables, lastValues, file, held, loaded, request,
                 sent, bounds>>

\* The index of the rule the pass is at.
current == at[Monitor]
Condition == rules[current].conditions[step[Monitor]]

\* (Broken variant: the loop over the rules does not advance.)
SameRule ==
  /\ UNCHANGED at
  /\ step' = [step EXCEPT ![Monitor] = 1]
  /\ Goto(Monitor, "rule")

NextRule ==
  /\ at' = [at EXCEPT ![Monitor] = current + 1]
  /\ step' = [step EXCEPT ![Monitor] = 1]
  /\ Goto(Monitor, "rule")

\* What follows the conjunction of the conditions: the commands run if it
\* holds now and did not at the last evaluation.
Verdict(met) ==
  IF met /\ ~lastState[rules[current].id]
  THEN /\ Goto(Monitor, "command")
       /\ step' = [step EXCEPT ![Monitor] = 1]
       /\ spent' = spent \union {current}
       /\ UNCHANGED <<lastState, at>>
  ELSE /\ lastState' = [lastState EXCEPT ![rules[current].id] = met]
       /\ spent' = IF met THEN spent ELSE spent \ {current}
       /\ NextRule

\* (Broken variant: the verdict of a disabled rule is not reset.)
EvaluateRuleKeepsVerdict ==
  /\ pc[Monitor] = "rule"
  /\ current <= Len(rules)
  /\ IF ~rules[current].enabled
     THEN NextRule /\ UNCHANGED <<lastState, spent>>
     ELSE IF rules[current].conditions = <<>>
          THEN Verdict(TRUE)
          ELSE Goto(Monitor, "input") /\ UNCHANGED <<lastState, spent, at, step>>
  /\ UNCHANGED <<rules, variables, lastValues, file, lock, held, modified,
                 loaded, request, sent, bounds>>

EvaluateRule ==
  /\ pc[Monitor] = "rule"
  /\ current <= Len(rules)
  /\ IF ~rules[current].enabled
     THEN /\ lastState' = [lastState EXCEPT ![rules[current].id] = FALSE]
          /\ spent' = spent \ {current}
          /\ NextRule
     ELSE IF rules[current].conditions = <<>>
          THEN Verdict(TRUE)
          ELSE Goto(Monitor, "input") /\ UNCHANGED <<lastState, spent, at, step>>
  /\ UNCHANGED <<rules, variables, lastValues, file, lock, held, modified,
                 loaded, request, sent, bounds>>

\* getConditionInputValue: the values an input can be read as.  None for an
\* address nobody reported and for an unknown type; a variable that was never
\* set reads 0; the clock reads any time of day.
InputValues(type, address) ==
  CASE type \in {"Register", "Relay"} ->
         IF address \in Addresses /\ lastValues[address] # Absent
         THEN {lastValues[address]} ELSE {}
    [] type = "Variable" ->
         {IF address \in Keys THEN variables[address] ELSE 0}
    [] type = "Time" -> DayTimes
    [] OTHER -> {}

\* getConditionValue: a literal, or a second input.
CompareValues(c) ==
  IF c.valueInputType = "Unknown" THEN {c.valueNumber}
  ELSE InputValues(c.valueInputType, c.valueInputAddress)

\* evaluateConditionValue
Compare(x, op, y) ==
  \/ op = "Equal" /\ x = y
  \/ op = "NotEqual" /\ x # y
  \/ op = "Less" /\ x < y
  \/ op = "LessEqual" /\ x <= y
  \/ op = "Greater" /\ x > y
  \/ op = "GreaterEqual" /\ x >= y

\* The input is read first and the compare value after it: a request may set a
\* variable in between.
ReadInput ==
  LET readings == InputValues(Condition.inputType, Condition.inputAddress)
  IN /\ pc[Monitor] = "input"
     /\ IF readings = {}
        THEN Verdict(FALSE) /\ UNCHANGED held
        ELSE /\ held' \in readings
             /\ Goto(Monitor, "compare")
             /\ UNCHANGED <<lastState, spent, at, step>>
     /\ UNCHANGED <<rules, variables, lastValues, file, lock, modified, loaded,
                    request, sent, bounds>>

CompareWith(y) ==
  LET holds == Compare(held, Condition.op, y)
  IN IF holds /\ step[Monitor] < Len(rules[current].conditions)
     THEN /\ Goto(Monitor, "input")
          /\ step' = [step EXCEPT ![Monitor] = @ + 1]
          /\ UNCHANGED <<lastState, spent, at>>
     ELSE Verdict(holds)

CompareInput ==
  /\ pc[Monitor] = "compare"
  /\ \/ CompareValues(Condition) = {} /\ Verdict(FALSE)
     \/ \E y \in CompareValues(Condition) : CompareWith(y)
  /\ held' = 0
  /\ UNCHANGED <<rules, variables, lastValues, file, lock, modified, loaded,
                 request, sent, bounds>>

----------------------------------------------------------------------------
(* Running the commands of a rule, in a pass or for EXECUTERULE.           *)

Commands(t) == rules[at[t]].commands

SetVariable(k, x) ==
  variables' = IF k \in Keys THEN [variables EXCEPT ![k] = x] ELSE variables
Variable(k) == IF k \in Keys THEN variables[k] ELSE 0

\* executeRuleCommand.  The number of an Enable or Disable command is parsed
\* from its text; text that is no number is 0 and names no rule.
ExecuteRuleCommand(t) ==
  LET c == Commands(t)[step[t]]
      on == c.type = "Enable"
      toggles == c.type \in {"Enable", "Disable"} /\ Changes(c.address, on)
  IN /\ pc[t] = "command"
     /\ step[t] <= Len(Commands(t))
     /\ IF toggles THEN SetRuleEnabledInternal(c.address, on)
                   ELSE UNCHANGED memory
     /\ modified' = [modified EXCEPT ![t] = @ \/ toggles]
     /\ CASE c.type = "SetVar" -> SetVariable(c.address, c.value)
          [] c.type = "AddVar" -> SetVariable(c.address, Variable(c.address) + c.value)
          [] c.type = "SubVar" -> SetVariable(c.address, Variable(c.address) - c.value)
          [] OTHER -> UNCHANGED variables
     /\ sent' = IF c.type = "Send" /\ c.address \in Relays
                THEN [sent EXCEPT ![c.address] = IF c.value = 0 THEN "OFF" ELSE "ON"]
                ELSE sent
     /\ step' = [step EXCEPT ![t] = @ + 1]
     /\ UNCHANGED <<lastValues, file, lock, pc, at, held, loaded, request, bounds>>

\* (Broken variant: the verdict is not stored after the commands.)
CommandsDoneForgets ==
  /\ pc[Monitor] = "command"
  /\ step[Monitor] > Len(Commands(Monitor))
  /\ NextRule
  /\ UNCHANGED <<memory, variables, lastValues, file, lock, held, modified,
                 loaded, request, sent, bounds>>

\* After its last command the rule's verdict is stored, whatever the commands
\* did to the rule itself.
CommandsDone ==
  /\ pc[Monitor] = "command"
  /\ step[Monitor] > Len(Commands(Monitor))
  /\ lastState' = [lastState EXCEPT ![rules[current].id] = TRUE]
  /\ NextRule
  /\ UNCHANGED <<rules, spent, variables, lastValues, file, lock, held, modified,
                 loaded, request, sent, bounds>>

\* (Broken variant: a pass that changed nothing keeps the mutex.)
EvaluateEndKeepsLock ==
  /\ pc[Monitor] = "rule"
  /\ current > Len(rules)
  /\ IF modified[Monitor]
     THEN Goto(Monitor, "open") /\ UNCHANGED <<lock, locals, request>>
     ELSE Return(Monitor, TRUE) /\ UNCHANGED lock
  /\ UNCHANGED <<memory, variables, lastValues, file, held, loaded, sent, bounds>>

\* The pass ends: the rules are saved if a command changed one.
EvaluateEnd ==
  /\ pc[Monitor] = "rule"
  /\ current > Len(rules)
  /\ IF modified[Monitor]
     THEN Goto(Monitor, "open") /\ UNCHANGED <<lock, locals, request>>
     ELSE Release(Monitor) /\ Return(Monitor, TRUE)
  /\ UNCHANGED <<memory, variables, lastValues, file, held, loaded, sent, bounds>>

----------------------------------------------------------------------------
(* saveRules, with the mutex held: the file is truncated, then written.    *)

\* (Broken variant: the mutex is released before the file is written.)
SaveOpenUnlocked(t) ==
  /\ pc[t] = "open"
  /\ file' = Partial
  /\ Goto(t, "write") /\ Release(t)
  /\ UNCHANGED <<memory, variables, lastValues, locals, held, loaded,
                 request, sent, bounds>>

SaveOpen(t) ==
  /\ pc[t] = "open"
  /\ file' = Partial
  /\ Goto(t, "write")
  /\ UNCHANGED <<memory, variables, lastValues, lock, locals, held, loaded,
                 request, sent, bounds>>

SaveWrite(t) ==
  /\ pc[t] = "write"
  /\ file' = Whole(rules)
  /\ Release(t) /\ Return(t, TRUE)
  /\ UNCHANGED <<memory, variables, lastValues, held, loaded, sent, bounds>>

\* The file cannot be opened and keeps its content, or the disk fills up and
\* leaves it partly written.  The second is noticed only if the stream is
\* flushed before its state is returned, which a short file is not.
SaveFails(t) ==
  /\ pc[t] \in {"open", "write"}
  /\ failures < MaxFailures
  /\ failures' = failures + 1
  /\ Release(t)
  /\ \/ Return(t, FALSE)
     \/ pc[t] = "write" /\ Return(t, TRUE)
  /\ UNCHANGED <<memory, variables, lastValues, file, held, loaded, sent,
                 crashes, edits>>

----------------------------------------------------------------------------
(* Requests of authorised HTTP clients, served one at a time.              *)

WithinBound ==
  \A k \in Keys : variables[k] <= MaxVariable /\ -variables[k] <= MaxVariable

ReceiveRequest(r) ==
  /\ pc[Command] = "idle" /\ WithinBound
  /\ request' = r
  /\ Goto(Command, IF r.op = "RELOADRULES" THEN "read" ELSE "lock")
  /\ UNCHANGED <<memory, variables, lastValues, file, lock, locals, held, loaded,
                 sent, bounds>>

\* SETVAR needs only variablesMutex, which is never held across a step.
HandleSetVar ==
  /\ pc[Command] = "lock" /\ request.op = "SETVAR"
  /\ SetVariable(request.id, request.value)
  /\ Return(Command, TRUE)
  /\ UNCHANGED <<memory, lastValues, file, lock, held, loaded, sent, bounds>>

\* getRulesSnapshot copies the rules under the mutex.
HandleGetRules ==
  /\ pc[Command] = "lock" /\ request.op = "GETRULES"
  /\ lock = Free
  /\ Return(Command, TRUE)
  /\ UNCHANGED <<memory, variables, lastValues, file, lock, held, loaded, sent,
                 bounds>>

\* setRuleEnabled
HandleSetEnabled ==
  LET on == request.op = "ENABLERULE"
  IN /\ pc[Command] = "lock" /\ request.op \in {"ENABLERULE", "DISABLERULE"}
     /\ lock = Free
     /\ IF Changes(request.id, on)
        THEN /\ SetRuleEnabledInternal(request.id, on)
             /\ lock' = Command /\ Goto(Command, "open")
             /\ UNCHANGED <<locals, request>>
        ELSE Return(Command, FALSE) /\ UNCHANGED <<memory, lock>>
     /\ UNCHANGED <<variables, lastValues, file, held, loaded, sent, bounds>>

\* (Broken variant: the commands are run without the mutex.)
HandleExecuteUnlocked ==
  /\ pc[Command] = "lock" /\ request.op = "EXECUTERULE"
  /\ IF HasRule(request.id)
     THEN /\ Goto(Command, "command")
          /\ at' = [at EXCEPT ![Command] = IndexOf(request.id)]
          /\ UNCHANGED <<step, modified, request>>
     ELSE Return(Command, FALSE)
  /\ UNCHANGED <<memory, variables, lastValues, file, lock, held, loaded, sent,
                 bounds>>

\* executeRuleCommands: conditions and enabled play no part.
HandleExecute ==
  /\ pc[Command] = "lock" /\ request.op = "EXECUTERULE"
  /\ lock = Free
  /\ IF HasRule(request.id)
     THEN /\ lock' = Command /\ Goto(Command, "command")
          /\ at' = [at EXCEPT ![Command] = IndexOf(request.id)]
          /\ UNCHANGED <<step, modified, request>>
     ELSE Return(Command, FALSE) /\ UNCHANGED lock
  /\ UNCHANGED <<memory, variables, lastValues, file, held, loaded, sent, bounds>>

\* (Broken variant: rules changed by EXECUTERULE are not saved.)
ExecuteDoneUnsaved ==
  /\ pc[Command] = "command"
  /\ step[Command] > Len(Commands(Command))
  /\ Release(Command) /\ Return(Command, TRUE)
  /\ UNCHANGED <<memory, variables, lastValues, file, held, loaded, sent, bounds>>

ExecuteDone ==
  /\ pc[Command] = "command"
  /\ step[Command] > Len(Commands(Command))
  /\ IF modified[Command]
     THEN Goto(Command, "open") /\ UNCHANGED <<lock, locals, request>>
     ELSE Release(Command) /\ Return(Command, TRUE)
  /\ UNCHANGED <<memory, variables, lastValues, file, held, loaded, sent, bounds>>

\* A refused request falls through to parseCommand, which broadcasts its text
\* to the devices, and the client is answered 200 OK.
Forward ==
  /\ pc[Command] = "forward"
  /\ Goto(Command, "idle")
  /\ request' = NoRequest
  /\ UNCHANGED <<memory, variables, lastValues, file, lock, locals, held, loaded,
                 sent, bounds>>

----------------------------------------------------------------------------
(* The environment.                                                        *)

EditFile(rs) ==
  /\ edits < MaxEdits
  /\ edits' = edits + 1
  /\ \A t \in Threads : pc[t] # "write"
  /\ file' = Whole(rs)
  /\ UNCHANGED <<memory, variables, lastValues, lock, pc, locals, held, loaded,
                 request, sent, crashes, failures>>

\* The process dies and is started again: only the file remains (and what was
\* sent before).
Crash ==
  /\ crashes < MaxCrashes
  /\ crashes' = crashes + 1
  /\ rules' = <<>> /\ lastState' = NeverMet /\ spent' = {}
  /\ variables' = [k \in Keys |-> 0]
  /\ lastValues' = [a \in Addresses |-> Absent]
  /\ lock' = Free
  /\ pc' = [t \in Threads |-> IF t = Monitor THEN "read" ELSE "idle"]
  /\ at' = [t \in Threads |-> 1] /\ step' = [t \in Threads |-> 1]
  /\ modified' = [t \in Threads |-> FALSE]
  /\ held' = 0
  /\ loaded' = [t \in Threads |-> <<>>]
  /\ request' = NoRequest
  /\ UNCHANGED <<file, sent, failures, edits>>

MonitorStep ==
  \/ LoadRead(Monitor) \/ LoadInstall(Monitor)
  \/ EvaluateBegin \/ EvaluateRule \/ ReadInput \/ CompareInput
  \/ ExecuteRuleCommand(Monitor) \/ CommandsDone \/ EvaluateEnd
  \/ SaveOpen(Monitor) \/ SaveWrite(Monitor)

CommandStep ==
  \/ LoadRead(Command) \/ LoadInstall(Command)
  \/ HandleSetVar \/ HandleGetRules \/ HandleSetEnabled \/ HandleExecute
  \/ ExecuteRuleCommand(Command) \/ ExecuteDone
  \/ SaveOpen(Command) \/ SaveWrite(Command)
  \/ Forward

Environment ==
  \/ \E a \in Addresses, v \in Values : ReceiveValue(a, v)
  \/ \E r \in Requests : ReceiveRequest(r)
  \/ \E t \in Threads : SaveFails(t)
  \/ \E rs \in RuleFiles : EditFile(rs)
  \/ Crash

Next == MonitorStep \/ CommandStep \/ Environment

Spec == Init /\ [][Next]_vars

\* Both threads run on.  Strong fairness: the other thread takes rulesMutex
\* again and again but leaves it free in between, for up to a second of
\* select or until the next request.
FairSpec == Spec /\ SF_vars(MonitorStep) /\ SF_vars(CommandStep)

----------------------------------------------------------------------------
(* Properties.                                                             *)

\* rulesMutex protects every step of a pass, of a rule's commands and of a
\* save: a thread is at one of those locations exactly while it holds the
\* mutex (the lock_guard of evaluateRules, setRuleEnabled, executeRuleCommands).
LockProtocol == \A t \in Threads : pc[t] \in Critical <=> lock = t

\* A rule fires on an edge: between two firings of the same rule by passes
\* there is an evaluation that found it disabled or not met, a command or
\* request that disabled it, or a reload.  It relates evaluateRules to every
\* other writer of ruleLastState.
Fires(k) ==
  /\ pc[Monitor] # "command" /\ pc'[Monitor] = "command"
  /\ at[Monitor] = k
FiresOncePerEdge == [][\A k \in spent : ~Fires(k)]_vars

\* While nobody is saving or loading, rules.json holds the rules in memory,
\* enabled flags included, or there are no rules in memory.  Only a failed
\* write or an operator's edit may break this, or a reload (see the README).
Loading(t) == pc[t] \in {"read", "clear", "install"}
MemoryMatchesFile ==
  (lock = Free /\ failures = 0 /\ edits = 0 /\ \A t \in Threads : ~Loading(t))
    => file = Whole(rules) \/ (file.state # "whole" /\ rules = <<>>)

\* rules.json is left partly written only by a crash or a failed write: the
\* next start or reload finds a whole file.
FileWholeAfterSave ==
  (lock = Free /\ failures = 0 /\ crashes = 0) => file.state # "partial"

\* Every request is answered: no thread keeps rulesMutex for good, and a
\* request that waits for it gets it (under the fairness of FairSpec).
RequestAnswered == pc[Command] # "idle" ~> pc[Command] = "idle"

\* Passes go on for ever: the monitor thread always comes back to receiving.
PassCompletes == []<>(pc[Monitor] = "idle")

=============================================================================
