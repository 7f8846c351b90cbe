------------------------------ MODULE AdminPanel ------------------------------
(***************************************************************************)
(* The administration panel of the dashboard (server/index.html) over the  *)
(* sessions of the server, as SessionTable promises them.  The page keeps  *)
(* the session it was given and a timer of its own; its requests are       *)
(* asynchronous, so an answer is handled in whatever state the page is by  *)
(* then, and another request may have been answered before it.             *)
(***************************************************************************)
EXTENDS SessionTable

CONSTANTS
  NoSession,
  Calls,             \* the requests the page can have on their way
  SessionDuration,   \* ADMIN_SESSION_DURATION_MS
  MaxTime            \* bound: the last time considered

ASSUME BoundsAssumption ==
  NoSession \notin Ids /\ SessionDuration \in Nat \ {0} /\ MaxTime \in Nat

PasswordOps == {"right", "wrong"}      \* authorizeAdmin, with a password
SessionOps  == {"command", "upload"}   \* sendCommandToServer, uploadFirmwareFile

VARIABLES
  adminAuthorized,
  adminSessionId,
  adminSessionExpiresAt,  \* 0: none; it also names the timer set last
  timers,                 \* when the timers that are running are due
  calls,                  \* each request of the page
  lost,                   \* the sessions of requests that broke on their way to the
                          \* server and may still reach it (NoSession: a password)
  unheard                 \* history: sessions used without the page being told

page      == <<adminAuthorized, adminSessionId, adminSessionExpiresAt, timers>>
panelVars == <<vars, page, calls, lost, unheard>>

Idle == [state |-> "idle", op |-> "wrong", session |-> NoSession, status |-> 0]

PanelInit ==
  /\ Init /\ adminAuthorized = FALSE /\ adminSessionId = NoSession
  /\ adminSessionExpiresAt = 0 /\ timers = {} /\ lost = {} /\ unheard = {}
  /\ calls = [c \in Calls |-> Idle]

----------------------------------------------------------------------------
(* The page.                                                               *)

Fetch(c, op, s) ==
  /\ calls[c] = Idle
  /\ calls' = [calls EXCEPT ![c] =
                 [state |-> "sent", op |-> op, session |-> s, status |-> 0]]
  /\ UNCHANGED <<vars, page, lost, unheard>>

AuthorizeAdmin(c) == \E op \in PasswordOps : Fetch(c, op, NoSession)

SendCommandToServer(c) == adminAuthorized /\ Fetch(c, "command", adminSessionId)

UploadFirmwareFile(c) == adminAuthorized /\ Fetch(c, "upload", adminSessionId)

ExpireAdminSession ==
  /\ adminAuthorized' = FALSE /\ adminSessionId' = NoSession
  /\ adminSessionExpiresAt' = 0
  /\ timers' = timers \ {adminSessionExpiresAt}

\* (Broken variant: a timer that is running is not restarted.)
StartAdminSessionTimer ==
  IF adminSessionExpiresAt # 0 THEN UNCHANGED <<adminSessionExpiresAt, timers>>
  ELSE /\ adminSessionExpiresAt' = now + SessionDuration
       /\ timers' = timers \union {now + SessionDuration}

ResetAdminSessionTimer ==
  /\ adminSessionExpiresAt' = now + SessionDuration
  /\ timers' = (timers \ {adminSessionExpiresAt}) \union {now + SessionDuration}

\* The timeout, or the interval that updates the countdown and looks at the time
\* of expiry, whichever the browser runs first.
TimerFires ==
  /\ \E d \in timers : d <= now
  /\ ExpireAdminSession /\ UNCHANGED <<vars, calls, lost, unheard>>

\* The end of authorizeAdmin.
AuthorizeAnswered(c) ==
  /\ calls[c].state = "answered" /\ calls[c].op \in PasswordOps
  /\ \/ /\ calls[c].status = 200
        /\ adminAuthorized' = TRUE /\ adminSessionId' = calls[c].session
        /\ ResetAdminSessionTimer
     \/ /\ calls[c].status # 200
        /\ adminAuthorized' = FALSE
        /\ UNCHANGED <<adminSessionId, adminSessionExpiresAt, timers>>
  /\ calls' = [calls EXCEPT ![c] = Idle] /\ UNCHANGED <<vars, lost, unheard>>

\* (Broken variant: every failure is taken for a refusal.)
CommandAnsweredStrictly(c) ==
  /\ calls[c].state = "answered" /\ calls[c].op \in SessionOps
  /\ \/ /\ calls[c].status = 200
        /\ ResetAdminSessionTimer /\ UNCHANGED <<adminAuthorized, adminSessionId>>
     \/ calls[c].status # 200 /\ ExpireAdminSession
  /\ calls' = [calls EXCEPT ![c] = Idle] /\ UNCHANGED <<vars, lost, unheard>>

\* The end of sendCommandToServer and uploadFirmwareFile.
CommandAnswered(c) ==
  /\ calls[c].state = "answered" /\ calls[c].op \in SessionOps
  /\ \/ /\ calls[c].status = 200
        /\ ResetAdminSessionTimer /\ UNCHANGED <<adminAuthorized, adminSessionId>>
     \/ calls[c].status = 401 /\ ExpireAdminSession
     \/ calls[c].status \notin {200, 401} /\ UNCHANGED page
  /\ calls' = [calls EXCEPT ![c] = Idle] /\ UNCHANGED <<vars, lost, unheard>>

----------------------------------------------------------------------------
(* The server, and the connections between them.                           *)

Answered(c, status, s) ==
  calls' = [calls EXCEPT ![c].state = "answered", ![c].status = status, ![c].session = s]

\* handleAuthorizeRequest.
ServeAuthorize(c) ==
  /\ calls[c].state = "sent" /\ calls[c].op \in PasswordOps
  /\ \/ calls[c].op = "right" /\ \E s \in Ids : Open(s) /\ Answered(c, 200, s)
     \/ calls[c].op = "wrong" /\ UNCHANGED vars /\ Answered(c, 401, NoSession)
  /\ UNCHANGED <<page, lost, unheard>>

\* The answer to a use of s that does not make the page restart its timer.
Untold(s) == unheard' = unheard \union {s}

\* handleCommandRequest: the session is renewed before the command is executed or
\* the upload stored, which may fail.
ServeCommand(c) ==
  LET s == calls[c].session IN
  /\ calls[c].state = "sent" /\ calls[c].op \in SessionOps
  /\ \/ Use(s) /\ Answered(c, 200, s) /\ UNCHANGED unheard
     \/ calls[c].op = "upload" /\ Use(s) /\ Answered(c, 500, s) /\ Untold(s)
     \/ s \notin validSessions /\ UNCHANGED vars /\ Answered(c, 401, s) /\ UNCHANGED unheard
  /\ UNCHANGED <<page, lost>>

\* The connection breaks before the request is served, or before it is answered:
\* fetch throws.
Break(c) ==
  /\ \/ /\ calls[c].state = "sent" /\ UNCHANGED unheard
        /\ lost' = IF calls[c].op = "wrong" THEN lost
                   ELSE lost \union {calls[c].session}
     \/ /\ calls[c].state = "answered" /\ calls[c].status # 0 /\ UNCHANGED lost
        /\ IF calls[c].op \in SessionOps THEN Untold(calls[c].session) ELSE UNCHANGED unheard
  /\ Answered(c, 0, NoSession) /\ UNCHANGED <<vars, page>>

\* The server reads a request the page has given up, and has nobody to answer; it
\* may be one of several made in that session, so it is not taken off.
ServeLost(s) ==
  /\ s \in lost
  /\ \/ s \in Ids /\ Use(s) /\ Untold(s)
     \/ s = NoSession /\ (\E t \in Ids : Open(t)) /\ UNCHANGED unheard
  /\ UNCHANGED <<page, calls, lost>>

PanelNext ==
  \/ /\ \/ Tick /\ now < MaxTime
        \/ \E S \in SUBSET validSessions : Expire(S)
     /\ UNCHANGED <<page, calls, lost, unheard>>
  \/ TimerFires
  \/ \E s \in lost : ServeLost(s)
  \/ \E c \in Calls :
       \/ AuthorizeAdmin(c) \/ SendCommandToServer(c) \/ UploadFirmwareFile(c)
       \/ ServeAuthorize(c) \/ ServeCommand(c) \/ Break(c)
       \/ AuthorizeAnswered(c) \/ CommandAnswered(c)

PanelSpec == PanelInit /\ [][PanelNext]_panelVars

----------------------------------------------------------------------------
(* Properties.                                                             *)

\* The page never gives up a session the server still accepts, but for its timer,
\* for another authorisation, or for an answer to a request made with an earlier
\* session (index.html:1047: a 401 closes the panel whatever session it refuses).
\* A refusal of its own session is final: nothing makes that session valid again
\* while the 401 is on its way (server_command.hpp:487).
ClosesForCause ==
  [][adminAuthorized /\ ~adminAuthorized' /\ adminSessionId \in validSessions =>
     \/ \E d \in timers : d <= now
     \/ \E c \in Calls :
          /\ calls[c].state = "answered" /\ calls'[c] = Idle
          /\ calls[c].op \in PasswordOps \/ calls[c].session # adminSessionId]_panelVars

\* The page does not close a session before the server may (index.html:954): while
\* the panel is open it has one timer, due a session duration after the last use
\* the server saw, unless the answer of that use is still on its way, was lost or
\* told of a failure, or the use was a request the page had given up.
PageOutlastsUse ==
  adminAuthorized =>
    /\ timers = {adminSessionExpiresAt}
    /\ \/ adminSessionId \in unheard
       \/ \E c \in Calls : /\ calls[c].state = "answered"
                           /\ calls[c].session = adminSessionId
       \/ adminSessionExpiresAt >= lastUse[adminSessionId] + SessionDuration
=============================================================================
