----------------------------- MODULE MCModbusBus -----------------------------
(***************************************************************************)
(* A control and a monitor register are polled, and one is written, by     *)
(* clients that also try a register that is read-only and an unknown one.  *)
(* The simulator has the id of the firmware, or another.                   *)
(***************************************************************************)
EXTENDS ModbusBus

MCWritten == {20101, 15206, 9999}
=============================================================================
