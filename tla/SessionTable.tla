----------------------------- MODULE SessionTable -----------------------------
(***************************************************************************)
(* What the server promises about sessions, whatever its threads do: a     *)
(* session begins once, every use renews it, and it ends only after it was *)
(* idle for longer than its lifetime.  SessionStore implements this.       *)
(***************************************************************************)
EXTENDS Integers

CONSTANTS Ids, Lifetime

VARIABLES
  now,            \* steady_clock
  validSessions,  \* the sessions of the map
  lastUse,        \* the time each of them is mapped to
  issued          \* the ids handed out so far

vars == <<now, validSessions, lastUse, issued>>

Init ==
  /\ now = 0 /\ validSessions = {} /\ issued = {}
  /\ lastUse = [s \in Ids |-> 0]

Tick == now' = now + 1 /\ UNCHANGED <<validSessions, lastUse, issued>>

Open(s) ==
  /\ s \in Ids \ issued
  /\ validSessions' = validSessions \union {s} /\ issued' = issued \union {s}
  /\ lastUse' = [lastUse EXCEPT ![s] = now] /\ UNCHANGED now

Use(s) ==
  /\ s \in validSessions
  /\ lastUse' = [lastUse EXCEPT ![s] = now]
  /\ UNCHANGED <<now, validSessions, issued>>

Expire(S) ==
  /\ \A s \in S : now - lastUse[s] > Lifetime
  /\ validSessions' = validSessions \ S
  /\ UNCHANGED <<now, lastUse, issued>>

Next ==
  \/ Tick
  \/ \E s \in Ids : Open(s) \/ Use(s)
  \/ \E S \in SUBSET validSessions : Expire(S)

Spec == Init /\ [][Next]_vars
=============================================================================
