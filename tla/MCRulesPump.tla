----------------------------- MODULE MCRulesPump -----------------------------
(***************************************************************************)
(* Requests for the model checking of RulesPump.                           *)
(***************************************************************************)
EXTENDS RulesPump

Ask(op, id) == [op |-> op, id |-> id, value |-> 0]
ReadOnly  == { Ask("GETRULES", 0) }
Executing == ReadOnly \union { Ask("EXECUTERULE", 1), Ask("EXECUTERULE", 2),
                               Ask("EXECUTERULE", 3) }
Steering  == Executing \union { Ask("ENABLERULE", 1), Ask("ENABLERULE", 2) }
Reloading == { Ask("RELOADRULES", 0) }
=============================================================================
