---------------------------- MODULE MCSessionStore ----------------------------
(***************************************************************************)
(* Two sessions, the least lifetime for which use and expiry differ, and   *)
(* time enough for two cleanups after a session expired.                   *)
(***************************************************************************)
EXTENDS SessionStore

CONSTANTS s1, s2, MaxTime   \* bound: the last time considered

MCIds == {s1, s2}
MCNow == now <= MaxTime
=============================================================================
