----------------------------- MODULE SessionStore -----------------------------
(***************************************************************************)
(* Sessions of the HTTP clients (server/server_authorization.hpp, the      *)
(* request handling of server/server_command.hpp, removeExpiredSessions in *)
(* server/utils.hpp).  The authorization thread opens sessions, the        *)
(* command thread looks them up, and both remove the expired ones: the     *)
(* time of the last cleanup is a static variable read and written without  *)
(* a mutex.  What an accepted command does is in RulesEngine, how the page *)
(* of the administrator uses its session in AdminPanel.                    *)
(***************************************************************************)
EXTENDS Integers

CONSTANTS
  Ids,              \* session ids generateSessionId may return
  NoSession,
  Lifetime,         \* SESSION_LIFETIME
  CleanupInterval   \* the least time between two cleanups

ASSUME IdsAssumption == NoSession \notin Ids
ASSUME TimesAssumption == Lifetime \in Nat /\ CleanupInterval \in Nat \ {0}

Authorization == "authorization"   \* authorizationServerLoop
Command       == "command"         \* commandServerLoop
Threads       == {Authorization, Command}

VARIABLES
  now,            \* steady_clock
  validSessions,  \* the sessions of the map
  lastUse,        \* the time each of them is mapped to
  issued,         \* the ids handed out so far
  lastCleanup,    \* the static variable of removeExpiredSessions
  pc,             \* where each thread is
  cutoff,         \* now in removeExpiredSessions, kept until the lookup after it
  request         \* sessionId in handleCommandRequest

table == <<validSessions, lastUse, issued>>
vars  == <<now, table, lastCleanup, pc, cutoff, request>>

TypeOK ==
  /\ now \in Nat /\ lastCleanup \in Nat /\ cutoff \in [Threads -> Nat]
  /\ validSessions \subseteq issued /\ issued \subseteq Ids
  /\ lastUse \in [Ids -> Nat]
  /\ pc \in [Threads -> {"clock", "compare", "claim", "sweep", "select", "open",
                         "lookup", "act"}]
  /\ request \in Ids \union {NoSession}

\* The first call of removeExpiredSessions, before any session exists, only sets
\* the time of the last cleanup.
Init ==
  /\ now = 0 /\ validSessions = {} /\ issued = {} /\ lastUse = [s \in Ids |-> 0]
  /\ lastCleanup = 0 /\ cutoff = [t \in Threads |-> 0]
  /\ pc = [t \in Threads |-> "select"]
  /\ request = NoSession

Goto(t, l) == pc' = [pc EXCEPT ![t] = l]

Tick == now' = now + 1 /\ UNCHANGED <<table, lastCleanup, pc, cutoff, request>>

----------------------------------------------------------------------------
(* removeExpiredSessions, in the steps another thread can see.             *)

\* Where the call returns to: the top of authorizationServerLoop, or the lookup.
Return(t) == IF t = Authorization THEN "select" ELSE "lookup"

\* The clock is read before the mutex is taken.
ReadClock(t) ==
  /\ pc[t] = "clock" /\ Goto(t, "compare")
  /\ cutoff' = [cutoff EXCEPT ![t] = now]
  /\ UNCHANGED <<now, table, lastCleanup, request>>

\* (Broken variant: off by one, a cleanup is skipped after a whole interval.)
CompareLate(t) ==
  /\ pc[t] = "compare"
  /\ Goto(t, IF cutoff[t] - lastCleanup <= CleanupInterval THEN Return(t) ELSE "claim")
  /\ UNCHANGED <<now, table, lastCleanup, cutoff, request>>

\* Too soon after the last cleanup nothing is removed.
CompareCleanup(t) ==
  /\ pc[t] = "compare"
  /\ Goto(t, IF cutoff[t] - lastCleanup < CleanupInterval THEN Return(t) ELSE "claim")
  /\ UNCHANGED <<now, table, lastCleanup, cutoff, request>>

ClaimCleanup(t) ==
  /\ pc[t] = "claim" /\ Goto(t, "sweep")
  /\ lastCleanup' = cutoff[t]
  /\ UNCHANGED <<now, table, cutoff, request>>

Expired(t) == {s \in validSessions : cutoff[t] - lastUse[s] > Lifetime}

\* (Broken variant: the sweep stops at the first session that has not expired.)
SweepFirst(t) ==
  /\ pc[t] = "sweep" /\ Goto(t, Return(t))
  /\ validSessions' =
       IF Expired(t) = validSessions THEN {} ELSE validSessions
  /\ UNCHANGED <<now, lastUse, issued, lastCleanup, cutoff, request>>

\* Under sessionsMutex.
Sweep(t) ==
  /\ pc[t] = "sweep" /\ Goto(t, Return(t))
  /\ validSessions' = validSessions \ Expired(t)
  /\ UNCHANGED <<now, lastUse, issued, lastCleanup, cutoff, request>>

----------------------------------------------------------------------------
(* Serving one connection after another.                                   *)

\* (Broken variant: the cleanup waits for a client.)
SelectAgain == pc[Authorization] = "select" /\ UNCHANGED vars

\* select in authorizationServerLoop returns after a second without a client.
SelectTimeout ==
  /\ pc[Authorization] = "select" /\ Goto(Authorization, "clock")
  /\ UNCHANGED <<now, table, lastCleanup, cutoff, request>>

\* handleAuthorizeRequest: nothing is received, or the request, the password file
\* or the password is wrong, and the client is told so; or the password is right
\* (bound: as long as there is an id left).
ReceivePassword ==
  /\ pc[Authorization] = "select"
  /\ \/ Goto(Authorization, "clock")
     \/ issued # Ids /\ Goto(Authorization, "open")
  /\ UNCHANGED <<now, table, lastCleanup, cutoff, request>>

\* (Broken variant: an id may be given to two clients.)
OpenAny(s) ==
  /\ pc[Authorization] = "open"
  /\ validSessions' = validSessions \union {s} /\ issued' = issued \union {s}
  /\ lastUse' = [lastUse EXCEPT ![s] = now]
  /\ Goto(Authorization, "clock")
  /\ UNCHANGED <<now, lastCleanup, cutoff, request>>

\* An id is 512 bits long, but generated from one 32-bit seed (utils.hpp:69), so
\* there are at most 2^32 of them: that none comes twice is assumed.
OpenSession(s) ==
  /\ pc[Authorization] = "open" /\ s \notin issued
  /\ validSessions' = validSessions \union {s} /\ issued' = issued \union {s}
  /\ lastUse' = [lastUse EXCEPT ![s] = now]
  /\ Goto(Authorization, "clock")
  /\ UNCHANGED <<now, lastCleanup, cutoff, request>>

\* handleCommandRequest: a command or an upload that names a session, whoever sent
\* it; any other request is answered without looking at the sessions.
ReceiveCommand(s) ==
  /\ pc[Command] = "select" /\ Goto(Command, "clock")
  /\ request' = s
  /\ UNCHANGED <<now, table, lastCleanup, cutoff>>

\* (Broken variant: looking a session up with operator[] adds it to the map.)
LookupAdds ==
  /\ pc[Command] = "lookup" /\ cutoff' = [cutoff EXCEPT ![Command] = 0]
  /\ validSessions' = validSessions \union {request}
  /\ lastUse' = [lastUse EXCEPT ![request] = now]
  /\ Goto(Command, IF request \in validSessions THEN "act" ELSE "select")
  /\ request' = NoSession
  /\ UNCHANGED <<now, issued, lastCleanup>>

\* Under sessionsMutex: an unknown session is refused, a known one renewed.
Lookup ==
  /\ pc[Command] = "lookup" /\ cutoff' = [cutoff EXCEPT ![Command] = 0]
  /\ \/ /\ request \in validSessions
        /\ lastUse' = [lastUse EXCEPT ![request] = now]
        /\ Goto(Command, "act")
     \/ request \notin validSessions /\ Goto(Command, "select") /\ UNCHANGED lastUse
  /\ request' = NoSession
  /\ UNCHANGED <<now, validSessions, issued, lastCleanup>>

\* The command is executed or broadcast, or firmware.bin written.
Act ==
  /\ pc[Command] = "act" /\ Goto(Command, "select")
  /\ UNCHANGED <<now, table, lastCleanup, cutoff, request>>

CleanupStep(t) == ReadClock(t) \/ CompareCleanup(t) \/ ClaimCleanup(t) \/ Sweep(t)

AuthorizationStep ==
  CleanupStep(Authorization) \/ SelectTimeout \/ \E s \in Ids : OpenSession(s)
CommandStep == CleanupStep(Command) \/ Lookup \/ Act

Next ==
  \/ Tick \/ AuthorizationStep \/ CommandStep
  \/ ReceivePassword \/ \E s \in Ids : ReceiveCommand(s)

Spec == Init /\ [][Next]_vars

\* Both threads keep running: no client keeps a connection open and sends nothing
\* (recv has no timeout).
FairSpec == Spec /\ WF_vars(AuthorizationStep) /\ WF_vars(CommandStep)

----------------------------------------------------------------------------
(* Properties.                                                             *)

Table == INSTANCE SessionTable WITH Ids <- Ids, Lifetime <- Lifetime, now <- now,
           validSessions <- validSessions, lastUse <- lastUse, issued <- issued

\* The steps of the two threads implement the table of sessions: an id begins one
\* session, and only a session that has been idle for its lifetime ends, although
\* the clock is read before the mutex is taken (utils.hpp:91).
TableSpec == Table!Spec

\* No session outlived the last cleanup, unless the thread that claimed it, or a
\* later one, has yet to sweep.
Swept ==
  \/ \A s \in validSessions : lastCleanup - lastUse[s] <= Lifetime
  \/ \E t \in Threads : pc[t] = "sweep" /\ cutoff[t] >= lastCleanup

\* An expired session is refused only once a cleanup removed it, and a cleanup may
\* be skipped: a session is accepted (server_command.hpp:486) after it was idle for
\* its lifetime and one interval at the most when the cleanup looked, unless the
\* other thread claimed the cleanup and has yet to do it.
AcceptedInTime ==
  [][(pc[Command] = "lookup" /\ pc'[Command] = "act" /\ pc[Authorization] # "sweep")
     => cutoff[Command] - lastUse[request] < Lifetime + CleanupInterval]_vars

\* A session idle for its lifetime and an interval is removed, unless it is used
\* again: the authorization thread looks every second (server_authorization.hpp:142).
IdleRemoved ==
  \A s \in Ids :
    LET Overdue == s \in validSessions /\ now - lastUse[s] > Lifetime + CleanupInterval
    IN  Overdue ~> ~Overdue
=============================================================================
