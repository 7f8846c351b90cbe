--------------------------- MODULE MCInverterLoop ---------------------------
(***************************************************************************)
(* Instances of the inverter loop.  millis() wraps at 32, a half turn is   *)
(* 16; the proportions of the default settings are kept: the spacing is    *)
(* the shortest, the control interval the longest, and the monitor         *)
(* interval leaves room for a control read after the spacing.              *)
(***************************************************************************)
EXTENDS InverterLoop

Set(control, monitor, spacing) ==
  [setting \in Settings |->
     CASE setting = "control" -> control
       [] setting = "monitor" -> monitor
       [] OTHER -> spacing]

Usual == Set(8, 6, 2)
Varied == Set({3}, {5}, {3})

Start(hasSSID, sent, commands, outages, reboots) ==
  [ssid |-> hasSSID, kinds |-> sent,
   left |-> [commands |-> commands, outages |-> outages, reboots |-> reboots]]

\* What is combined: settings and a reboot, an outage and HOST; WIFI, and
\* the reading or writing of a register, are taken alone.
MCStarts ==
  {Start(FALSE, Settings, 1, 0, 1), Start(TRUE, {"WIFI"}, 1, 0, 0),
   Start(TRUE, {"HOST"}, 1, 1, 0), Start(FALSE, {"WRITE", "READ"}, 1, 0, 0)}
WifiOnly == {Start(TRUE, {"WIFI"}, 1, 0, 0)}
=============================================================================
