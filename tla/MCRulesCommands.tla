--------------------------- MODULE MCRulesCommands ---------------------------
(***************************************************************************)
(* The rules engine on a rule file that uses every kind of input and of    *)
(* command: variables set by clients while a pass reads them, a relay, the *)
(* clock, a rule without conditions, and an operator who edits the file.   *)
(***************************************************************************)
EXTENDS RulesEngine

If(type, address, op, value) ==
  [inputType |-> type, inputAddress |-> address, op |-> op,
   valueInputType |-> "Unknown", valueInputAddress |-> 0, valueNumber |-> value]
IfEqual(type, address, type2, address2) ==
  [inputType |-> type, inputAddress |-> address, op |-> "Equal",
   valueInputType |-> type2, valueInputAddress |-> address2, valueNumber |-> 0]

Do(type, address, value) == [type |-> type, address |-> address, value |-> value]

\* Fires when relay 1 reports what variable 1 says, and moves the variable on.
Follow(on) ==
  [id |-> 1, enabled |-> on,
   conditions |-> << If("Variable", 1, "LessEqual", 0),
                     IfEqual("Relay", 1, "Variable", 1) >>,
   commands |-> << Do("AddVar", 1, 1), Do("Send", 1, 0) >>]

\* Fires as soon as it is enabled.
Always(on) ==
  [id |-> 2, enabled |-> on, conditions |-> <<>>,
   commands |-> << Do("SubVar", 1, 1), Do("Enable", 3, 0), Do("System", 0, 0) >>]

\* Fires once a day.
Daily(on) ==
  [id |-> 3, enabled |-> on, conditions |-> << If("Time", 0, "GreaterEqual", 8) >>,
   commands |-> << Do("Disable", 2, 0), Do("Send", 1, 1) >>]

Edited == << Daily(TRUE), Follow(FALSE) >>
Files  == { << Follow(TRUE), Always(FALSE), Daily(TRUE) >>, Edited }

Ask(op, id) == [op |-> op, id |-> id, value |-> 0]
AllKinds == { Ask("GETRULES", 0), Ask("RELOADRULES", 0), Ask("ENABLERULE", 2),
              Ask("DISABLERULE", 1), Ask("EXECUTERULE", 1), Ask("SETVAR", 1) }
=============================================================================
