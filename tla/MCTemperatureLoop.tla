-------------------------- MODULE MCTemperatureLoop --------------------------
(***************************************************************************)
(* Three sensors for two registers; either sensors come and go, or the     *)
(* router and the server do.  millis() wraps at 12; the interval of the    *)
(* scans is longer than an iteration and shorter than half a turn.         *)
(***************************************************************************)
EXTENDS TemperatureLoop

Start(blank, bus, commands, outages, plugs, reboots) ==
  [blank |-> blank, present |-> bus,
   left |-> [commands |-> commands, outages |-> outages, plugs |-> plugs,
             reboots |-> reboots]]

MCStarts ==
  {Start(FALSE, {1, 3}, 1, 0, 2, 1), Start(FALSE, {2}, 1, 1, 0, 1),
   Start(TRUE, {1, 2, 3}, 2, 0, 0, 0)}
=============================================================================
