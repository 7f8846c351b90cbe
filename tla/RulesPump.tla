------------------------------- MODULE RulesPump -------------------------------
(***************************************************************************)
(* The rules engine with the pair of rules of server/rules.json.example:   *)
(* rule 1 switches the pool pump (relay 3) off when the battery is at      *)
(* 24.5 V or below, disables itself and enables rule 2, which does the     *)
(* reverse at 27.0 V or above.                                             *)
(***************************************************************************)
EXTENDS RulesEngine

BatteryVoltage == 15206
Low == 245
High == 270
Pump == 3

VoltageIs(op, volts) ==
  << [inputType |-> "Register", inputAddress |-> BatteryVoltage, op |-> op,
      valueInputType |-> "Unknown", valueInputAddress |-> 0,
      valueNumber |-> volts] >>

Do(type, address, value) == [type |-> type, address |-> address, value |-> value]

DisablerCommands ==
  << Do("Send", Pump, 0), Do("Disable", 1, 0), Do("Enable", 2, 0) >>
EnablerCommands ==
  << Do("Send", Pump, 1), Do("Disable", 2, 0), Do("Enable", 1, 0) >>

PumpDisabler(on) ==
  [id |-> 1, enabled |-> on, conditions |-> VoltageIs("LessEqual", Low),
   commands |-> DisablerCommands]
PumpEnabler(on) ==
  [id |-> 2, enabled |-> on, conditions |-> VoltageIs("GreaterEqual", High),
   commands |-> EnablerCommands]

ExampleFiles == { << PumpDisabler(TRUE), PumpEnabler(FALSE) >> }

\* What clients do besides reading, in each of the behaviours considered: they
\* execute rules by hand, while the server may crash, or they enable rules.
VARIABLE clients

PumpInit == Init /\ clients \in {"executing", "enabling"}
PumpNext ==
  /\ Next /\ UNCHANGED clients
  /\ \/ clients = "executing" /\ request'.op # "ENABLERULE"
     \/ clients = "enabling" /\ request'.op # "EXECUTERULE" /\ crashes' = 0
PumpSpec ==
  /\ PumpInit /\ [][PumpNext]_<<vars, clients>>
  /\ SF_vars(MonitorStep) /\ SF_vars(CommandStep)

\* The two rules hand over to each other: whenever rulesMutex is free, and so
\* in every snapshot GETRULES returns and after every restart, exactly one of
\* them is enabled (or no rules are loaded), through crashes, failed writes and
\* EXECUTERULE; and it is the one that would change the pump: the rules' last word
\* to the pump is OFF exactly when the enabler is armed.  A crash between the
\* commands and the save of the rules breaks that: the pump keeps the state the
\* lost rules gave it.  (A client that enables a rule breaks the pair itself;
\* operators and the relay replay also switch the pump, not through the rules.)
PairHandsOver ==
  (lock = Free /\ rules # <<>> /\ clients = "executing") =>
    /\ rules[1].enabled # rules[2].enabled
    /\ (sent[Pump] # "unknown" /\ crashes = 0)
         => (sent[Pump] = "OFF" <=> rules[2].enabled)

\* When a battery stays at 24.5 V or below, the rules' last word to the pump is
\* OFF for good (README: a rule's commands are executed "when the rule triggers",
\* its conditions "must all be true"), through ENABLERULE and failed writes.  Not
\* if clients execute rules by hand: an EXECUTERULE 2 that enables rule 1 before
\* the next pass makes it miss its trigger, since its verdict is kept
\* (rules.hpp:992).
PumpStopsWhenLow ==
  /\ clients = "enabling"
  /\ <>[](lastValues[BatteryVoltage] = Low /\ rules # <<>>)
  => <>[](sent[Pump] = "OFF")
=============================================================================
