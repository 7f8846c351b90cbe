--------------------------- MODULE AdminPanel_proofs ---------------------------
(***************************************************************************)
(* Proofs about the administration panel for any number of requests on     *)
(* their way, every set of sessions and every duration.                    *)
(***************************************************************************)
EXTENDS AdminPanel, TLAPS

Statuses == {0, 200, 401, 500}
Call == [state : {"idle", "sent", "answered"}, op : PasswordOps \union SessionOps,
         session : issued \union {NoSession}, status : Statuses]

PanelTypeOK ==
  /\ now \in Nat /\ lastUse \in [Ids -> Nat]
  /\ validSessions \subseteq issued /\ issued \subseteq Ids
  /\ adminAuthorized \in BOOLEAN /\ adminSessionId \in issued \union {NoSession}
  /\ adminSessionExpiresAt \in Nat /\ unheard \subseteq issued
  /\ lost \subseteq issued \union {NoSession}
  /\ calls \in [Calls -> Call]

\* The page has at most one timer, the one it set last, and none once the panel
\* was closed by expiry; an open panel has a session and its timer.
OneTimer ==
  /\ timers = IF adminSessionExpiresAt = 0 THEN {} ELSE {adminSessionExpiresAt}
  /\ adminAuthorized => adminSessionExpiresAt # 0 /\ adminSessionId \in issued

\* What the status of an answer says of its session by the time the page reads it:
\* a refused one is gone for good, a failed use is on record.
StatusesTold ==
  \A c \in Calls : calls[c].state = "answered" =>
    /\ calls[c].status = 0 => calls[c].session = NoSession
    /\ calls[c].status = 401 => calls[c].session \notin validSessions
    /\ calls[c].status = 500 => calls[c].session \in unheard

\* A request made in a session names one that was issued, and so does its answer
\* and that of an authorisation.
RequestsNamed ==
  \A c \in Calls :
    /\ calls[c].op \in SessionOps
         /\ \/ calls[c].state = "sent"
            \/ calls[c].state = "answered" /\ calls[c].status # 0
       => calls[c].session \in issued
    /\ calls[c].state = "sent" /\ calls[c].op \in PasswordOps
       => calls[c].session = NoSession
    /\ calls[c].state = "answered" /\ calls[c].status = 200 => calls[c].session \in issued

\* The session an authorisation is about to hand over is known to nobody else.
Carries(c) == /\ calls[c].state = "answered" /\ calls[c].op \in PasswordOps
              /\ calls[c].session \in Ids
HandedOverOnce ==
  \A c \in Calls : Carries(c) =>
    /\ adminSessionId # calls[c].session
    /\ \A d \in Calls \ {c} : calls[d].session # calls[c].session

UsesPast == \A s \in Ids : lastUse[s] <= now

PanelInv ==
  /\ PanelTypeOK /\ OneTimer /\ StatusesTold /\ RequestsNamed /\ HandedOverOnce
  /\ UsesPast /\ PageOutlastsUse

\* The parts of a request.
LEMMA CallParts ==
  ASSUME PanelTypeOK, NEW c \in Calls
  PROVE  /\ calls[c].state \in {"idle", "sent", "answered"}
         /\ calls[c].op \in PasswordOps \union SessionOps
         /\ calls[c].session \in issued \union {NoSession}
         /\ calls[c].status \in Statuses
<1>1. calls[c] \in Call
  BY DEF PanelTypeOK
<1>2. QED
  BY <1>1 DEF Call

\* An answered request keeps the type of the slots.
LEMMA AnsweredCalls ==
  ASSUME PanelTypeOK, NEW c \in Calls, NEW status \in Statuses,
         NEW s \in issued \union {NoSession}, Answered(c, status, s), UNCHANGED issued
  PROVE  calls' \in [Calls -> Call']
<1>1. Call' = Call
  BY DEF Call
<1>2. calls' \in [Calls -> Call]
  <2>1. calls \in [Calls -> Call] /\ calls[c] \in Call
    BY DEF PanelTypeOK
  <2>2. [calls[c] EXCEPT !.state = "answered", !.status = status, !.session = s] \in Call
    BY <2>1 DEF Call
  <2>3. QED
    BY <2>1, <2>2 DEF Answered
<1>3. QED
  BY <1>1, <1>2

\* A request slot that is idle again keeps the type of the slots.
LEMMA IdleCalls ==
  ASSUME PanelTypeOK, NEW c \in Calls, calls' = [calls EXCEPT ![c] = Idle],
         UNCHANGED issued
  PROVE  calls' \in [Calls -> Call']
<1>1. Idle \in Call /\ Call' = Call
  BY DEF Idle, Call, Statuses, PasswordOps
<1>2. QED
  BY <1>1 DEF PanelTypeOK

\* The panel starts closed, with no timer and no request.
LEMMA InitPanelInv == PanelInit => PanelInv
<1> SUFFICES ASSUME PanelInit PROVE PanelInv
  OBVIOUS
<1> USE BoundsAssumption DEF PanelInit, Init, PasswordOps, SessionOps
<1>1. Idle \in Call /\ Idle.state = "idle"
  BY DEF Idle, Call, Statuses
<1>2. PanelTypeOK
  BY <1>1 DEF PanelTypeOK
<1>3. \A c \in Calls : calls[c].state = "idle"
  BY <1>1
<1>4. OneTimer /\ StatusesTold /\ RequestsNamed /\ HandedOverOnce /\ UsesPast
  BY <1>3 DEF OneTimer, StatusesTold, RequestsNamed, HandedOverOnce, Carries, UsesPast
<1>5. PageOutlastsUse
  BY DEF PageOutlastsUse
<1>6. QED
  BY <1>2, <1>4, <1>5 DEF PanelInv

\* Time passes, or the server lets sessions expire.
LEMMA TimeKeeps ==
  ASSUME PanelInv, Tick \/ (\E S \in SUBSET validSessions : Expire(S)),
         UNCHANGED <<page, calls, lost, unheard>>
  PROVE  PanelInv'
<1> USE BoundsAssumption DEF PanelInv, Statuses, Call, PasswordOps, SessionOps, Idle
<1>1. PanelTypeOK'
  BY DEF PanelTypeOK,
         Tick, Expire, page
<1>2. OneTimer'
  BY DEF PanelTypeOK, OneTimer,
         Tick, Expire, page
<1>3. StatusesTold'
  BY DEF PanelTypeOK, StatusesTold, RequestsNamed,
         Tick, Expire, page
<1>4. RequestsNamed'
  BY DEF PanelTypeOK, OneTimer, RequestsNamed,
         Tick, Expire, page
<1>5. HandedOverOnce'
  BY DEF PanelTypeOK, OneTimer, HandedOverOnce, Carries, RequestsNamed,
         Tick, Expire, page
<1>6. UsesPast'
  BY DEF PanelTypeOK, UsesPast,
         Tick, Expire, page
<1>7. PageOutlastsUse'
  BY DEF PanelTypeOK, OneTimer, StatusesTold, RequestsNamed, HandedOverOnce, Carries,
     UsesPast, PageOutlastsUse,
         Tick, Expire, page
<1>8. QED
  BY <1>1, <1>2, <1>3, <1>4, <1>5, <1>6, <1>7

\* The timer closes the panel.
LEMMA TimerKeeps ==
  ASSUME PanelInv, TimerFires
  PROVE  PanelInv'
<1> USE BoundsAssumption DEF PanelInv, Statuses, Call, PasswordOps, SessionOps, Idle
<1>1. PanelTypeOK'
  BY DEF PanelTypeOK,
         TimerFires, ExpireAdminSession, vars
<1>2. OneTimer'
  BY DEF PanelTypeOK, OneTimer,
         TimerFires, ExpireAdminSession, vars
<1>3. StatusesTold'
  BY DEF PanelTypeOK, StatusesTold, RequestsNamed,
         TimerFires, ExpireAdminSession, vars
<1>4. RequestsNamed'
  BY DEF PanelTypeOK, OneTimer, RequestsNamed,
         TimerFires, ExpireAdminSession, vars
<1>5. HandedOverOnce'
  BY DEF PanelTypeOK, OneTimer, HandedOverOnce, Carries, RequestsNamed,
         TimerFires, ExpireAdminSession, vars
<1>6. UsesPast'
  BY DEF PanelTypeOK, UsesPast,
         TimerFires, ExpireAdminSession, vars
<1>7. PageOutlastsUse'
  BY DEF PanelTypeOK, OneTimer, StatusesTold, RequestsNamed, HandedOverOnce, Carries,
     UsesPast, PageOutlastsUse,
         TimerFires, ExpireAdminSession, vars
<1>8. QED
  BY <1>1, <1>2, <1>3, <1>4, <1>5, <1>6, <1>7

\* The page sends a request, in its session if the panel is open.
LEMMA FetchKeeps ==
  ASSUME PanelInv, NEW c \in Calls,
         AuthorizeAdmin(c) \/ SendCommandToServer(c) \/ UploadFirmwareFile(c)
  PROVE  PanelInv'
<1> USE BoundsAssumption DEF PanelInv, Statuses, Call, PasswordOps, SessionOps, Idle
<1>1. PanelTypeOK'
  BY DEF PanelTypeOK,
         AuthorizeAdmin, SendCommandToServer, UploadFirmwareFile, Fetch, vars, page
<1>2. OneTimer'
  BY DEF PanelTypeOK, OneTimer,
         AuthorizeAdmin, SendCommandToServer, UploadFirmwareFile, Fetch, vars, page
<1>3. StatusesTold'
  BY DEF PanelTypeOK, StatusesTold, RequestsNamed,
         AuthorizeAdmin, SendCommandToServer, UploadFirmwareFile, Fetch, vars, page
<1>4. RequestsNamed'
  BY DEF PanelTypeOK, OneTimer, RequestsNamed,
         AuthorizeAdmin, SendCommandToServer, UploadFirmwareFile, Fetch, vars, page
<1>5. HandedOverOnce'
  BY DEF PanelTypeOK, OneTimer, HandedOverOnce, Carries, RequestsNamed,
         AuthorizeAdmin, SendCommandToServer, UploadFirmwareFile, Fetch, vars, page
<1>6. UsesPast'
  BY DEF PanelTypeOK, UsesPast,
         AuthorizeAdmin, SendCommandToServer, UploadFirmwareFile, Fetch, vars, page
<1>7. PageOutlastsUse'
  <2>1. calls[c] = Idle /\ UNCHANGED <<vars, page, lost, unheard>>
    BY DEF AuthorizeAdmin, SendCommandToServer, UploadFirmwareFile, Fetch
  <2>2. \A d \in Calls \ {c} : calls'[d] = calls[d]
    BY DEF AuthorizeAdmin, SendCommandToServer, UploadFirmwareFile, Fetch, PanelTypeOK
  <2>3. calls[c].state # "answered"
    BY <2>1
  <2>4. QED
    BY <2>1, <2>2, <2>3 DEF PageOutlastsUse, vars, page
<1>8. QED
  BY <1>1, <1>2, <1>3, <1>4, <1>5, <1>6, <1>7

\* The server answers an authorisation.
LEMMA ServeAuthorizeKeeps ==
  ASSUME PanelInv, NEW c \in Calls, ServeAuthorize(c)
  PROVE  PanelInv'
<1> USE BoundsAssumption DEF PanelInv, Statuses, Call, PasswordOps, SessionOps, Idle
<1>1. PanelTypeOK'
  BY DEF PanelTypeOK,
         ServeAuthorize, Open, Answered, vars, page
<1>2. OneTimer'
  BY DEF PanelTypeOK, OneTimer,
         ServeAuthorize, Open, Answered, vars, page
<1>3. StatusesTold'
  BY DEF PanelTypeOK, StatusesTold, RequestsNamed,
         ServeAuthorize, Open, Answered, vars, page
<1>4. RequestsNamed'
  BY DEF PanelTypeOK, OneTimer, RequestsNamed,
         ServeAuthorize, Open, Answered, vars, page
<1>5. HandedOverOnce'
  BY DEF PanelTypeOK, OneTimer, HandedOverOnce, Carries, RequestsNamed,
         ServeAuthorize, Open, Answered, vars, page
<1>6. UsesPast'
  BY DEF PanelTypeOK, UsesPast,
         ServeAuthorize, Open, Answered, vars, page
<1>7. PageOutlastsUse'
  BY DEF PanelTypeOK, OneTimer, StatusesTold, RequestsNamed, HandedOverOnce, Carries,
     UsesPast, PageOutlastsUse,
         ServeAuthorize, Open, Answered, vars, page
<1>8. QED
  BY <1>1, <1>2, <1>3, <1>4, <1>5, <1>6, <1>7

\* The server answers a command or an upload.
LEMMA ServeCommandKeeps ==
  ASSUME PanelInv, NEW c \in Calls, ServeCommand(c)
  PROVE  PanelInv'
<1> USE BoundsAssumption DEF PanelInv, Statuses, Call, PasswordOps, SessionOps, Idle
<1>1. PanelTypeOK'
  BY DEF PanelTypeOK,
         ServeCommand, Use, Untold, Answered, vars, page
<1>2. OneTimer'
  BY DEF PanelTypeOK, OneTimer,
         ServeCommand, Use, Untold, Answered, vars, page
<1>3. StatusesTold'
  BY DEF PanelTypeOK, StatusesTold, RequestsNamed,
         ServeCommand, Use, Untold, Answered, vars, page
<1>4. RequestsNamed'
  BY DEF PanelTypeOK, OneTimer, RequestsNamed,
         ServeCommand, Use, Untold, Answered, vars, page
<1>5. HandedOverOnce'
  BY DEF PanelTypeOK, OneTimer, HandedOverOnce, Carries, RequestsNamed,
         ServeCommand, Use, Untold, Answered, vars, page
<1>6. UsesPast'
  BY DEF PanelTypeOK, UsesPast,
         ServeCommand, Use, Untold, Answered, vars, page
<1>7. PageOutlastsUse'
  BY DEF PanelTypeOK, OneTimer, StatusesTold, RequestsNamed, HandedOverOnce, Carries,
     UsesPast, PageOutlastsUse,
         ServeCommand, Use, Untold, Answered, vars, page
<1>8. QED
  BY <1>1, <1>2, <1>3, <1>4, <1>5, <1>6, <1>7

\* A connection breaks.
LEMMA BreakKeeps ==
  ASSUME PanelInv, NEW c \in Calls, Break(c)
  PROVE  PanelInv'
<1> USE BoundsAssumption DEF PanelInv, Statuses, Call, PasswordOps, SessionOps, Idle
<1>1. PanelTypeOK'
  <2>1. unheard' \subseteq issued
    BY DEF PanelTypeOK, RequestsNamed, Break, Untold
  <2>4. lost' \subseteq issued \union {NoSession}
    BY CallParts DEF PanelTypeOK, Break
  <2>2. UNCHANGED <<vars, page>>
    BY DEF Break
  <2>5. calls' \in [Calls -> Call']
    BY <2>2, AnsweredCalls DEF Break, vars
  <2> HIDE DEF Call
  <2>3. QED
    BY <2>1, <2>2, <2>4, <2>5 DEF PanelTypeOK, vars, page
<1>2. OneTimer'
  BY DEF PanelTypeOK, OneTimer,
         Break, Untold, Answered, vars, page
<1>3. StatusesTold'
  BY DEF PanelTypeOK, StatusesTold, RequestsNamed,
         Break, Untold, Answered, vars, page
<1>4. RequestsNamed'
  BY DEF PanelTypeOK, OneTimer, RequestsNamed,
         Break, Untold, Answered, vars, page
<1>5. HandedOverOnce'
  BY DEF PanelTypeOK, OneTimer, HandedOverOnce, Carries, RequestsNamed,
         Break, Untold, Answered, vars, page
<1>6. UsesPast'
  BY DEF PanelTypeOK, UsesPast,
         Break, Untold, Answered, vars, page
<1>7. PageOutlastsUse'
  BY DEF PanelTypeOK, OneTimer, StatusesTold, RequestsNamed, HandedOverOnce, Carries,
     UsesPast, PageOutlastsUse,
         Break, Untold, Answered, vars, page
<1>8. QED
  BY <1>1, <1>2, <1>3, <1>4, <1>5, <1>6, <1>7

\* The server reads a request the page has given up: nobody has the session it may
\* open, and the use of one the page has is on record as unheard.
LEMMA ServeLostKeeps ==
  ASSUME PanelInv, NEW s \in lost, ServeLost(s)
  PROVE  PanelInv'
<1>1. UNCHANGED <<page, calls, lost, now>>
  BY DEF ServeLost, Use, Open
<1>2. CASE s \in Ids /\ Use(s) /\ Untold(s)
  <2> USE BoundsAssumption DEF PanelInv, Use, Untold
  <2>1. PanelTypeOK'
    BY <1>1, <1>2 DEF PanelTypeOK, Call, page
  <2>2. (OneTimer /\ StatusesTold)'
    BY <1>1, <1>2 DEF OneTimer, StatusesTold, page
  <2>3. (RequestsNamed /\ HandedOverOnce)'
    BY <1>1, <1>2 DEF RequestsNamed, HandedOverOnce, Carries, page
  <2>4. (UsesPast /\ PageOutlastsUse)'
    BY <1>1, <1>2 DEF UsesPast, PageOutlastsUse, PanelTypeOK, page
  <2>5. QED
    BY <2>1, <2>2, <2>3, <2>4
<1>3. ASSUME NEW t \in Ids, Open(t), UNCHANGED unheard PROVE PanelInv'
  <2> USE BoundsAssumption DEF PanelInv, Open
  <2>1. PanelTypeOK'
    BY <1>1, <1>3 DEF PanelTypeOK, Call, page
  <2>2. OneTimer' /\ RequestsNamed'
    BY <1>1, <1>3 DEF OneTimer, RequestsNamed, page
  <2>3. StatusesTold'
    BY <1>1, <1>3 DEF StatusesTold, PanelTypeOK, Call, Statuses, page
  <2>4. HandedOverOnce' /\ UsesPast'
    BY <1>1, <1>3 DEF HandedOverOnce, Carries, UsesPast, PanelTypeOK, page
  <2>5. PageOutlastsUse'
    BY <1>1, <1>3 DEF PageOutlastsUse, OneTimer, PanelTypeOK, page
  <2>6. QED
    BY <2>1, <2>2, <2>3, <2>4, <2>5
<1>4. QED
  BY <1>2, <1>3 DEF ServeLost

\* The page reads the answer to an authorisation.
LEMMA AuthorizeAnsweredKeeps ==
  ASSUME PanelInv, NEW c \in Calls, AuthorizeAnswered(c)
  PROVE  PanelInv'
<1>1. PanelTypeOK'
  <2>1. /\ UNCHANGED vars /\ UNCHANGED <<lost, unheard>>
        /\ calls' = [calls EXCEPT ![c] = Idle]
    BY DEF AuthorizeAnswered
  <2>2. PanelTypeOK
    BY DEF PanelInv
  <2>3. UNCHANGED issued
    BY <2>1 DEF vars
  <2>4. calls' \in [Calls -> Call']
    BY <2>1, <2>2, <2>3, IdleCalls
  <2>5. adminSessionId' \in issued \union {NoSession}
    BY <2>2, CallParts DEF PanelTypeOK, AuthorizeAnswered
  <2>6. adminAuthorized' \in BOOLEAN
    BY <2>2 DEF PanelTypeOK, AuthorizeAnswered
  <2>7. adminSessionExpiresAt' \in Nat
    BY <2>2, BoundsAssumption DEF PanelTypeOK, AuthorizeAnswered, ResetAdminSessionTimer
  <2>8. QED
    BY <2>1, <2>2, <2>3, <2>4, <2>5, <2>6, <2>7 DEF PanelTypeOK, vars
<1> USE BoundsAssumption DEF PanelInv, Statuses, Call, PasswordOps, SessionOps, Idle
<1>2. OneTimer'
  <2>1. CASE calls[c].status = 200
    <3>1. adminSessionId' \in issued'
      BY <2>1 DEF RequestsNamed, AuthorizeAnswered, vars
    <3>2. /\ adminSessionExpiresAt' = now + SessionDuration
          /\ timers' = {adminSessionExpiresAt'} /\ adminSessionExpiresAt' # 0
      BY <2>1 DEF PanelTypeOK, OneTimer, AuthorizeAnswered, ResetAdminSessionTimer
    <3>3. QED
      BY <3>1, <3>2 DEF OneTimer
  <2>2. CASE calls[c].status # 200
    BY <2>2 DEF OneTimer, AuthorizeAnswered
  <2>3. QED
    BY <2>1, <2>2
<1>3. StatusesTold'
  BY DEF PanelTypeOK, StatusesTold, RequestsNamed,
         AuthorizeAnswered, ResetAdminSessionTimer, vars, page
<1>4. RequestsNamed'
  BY DEF PanelTypeOK, OneTimer, RequestsNamed,
         AuthorizeAnswered, ResetAdminSessionTimer, vars, page
<1>5. HandedOverOnce'
  BY DEF PanelTypeOK, OneTimer, HandedOverOnce, Carries, RequestsNamed,
         AuthorizeAnswered, ResetAdminSessionTimer, vars, page
<1>6. UsesPast'
  BY DEF PanelTypeOK, UsesPast,
         AuthorizeAnswered, ResetAdminSessionTimer, vars, page
<1>7. PageOutlastsUse'
  BY DEF PanelTypeOK, OneTimer, StatusesTold, RequestsNamed, HandedOverOnce, Carries,
     UsesPast, PageOutlastsUse,
         AuthorizeAnswered, ResetAdminSessionTimer, vars, page
<1>8. QED
  BY <1>1, <1>2, <1>3, <1>4, <1>5, <1>6, <1>7

\* The page reads the answer to a command or an upload.
LEMMA CommandAnsweredKeeps ==
  ASSUME PanelInv, NEW c \in Calls, CommandAnswered(c)
  PROVE  PanelInv'
<1>1. PanelTypeOK'
  <2>1. /\ UNCHANGED vars /\ UNCHANGED <<lost, unheard>>
        /\ calls' = [calls EXCEPT ![c] = Idle]
    BY DEF CommandAnswered
  <2>2. PanelTypeOK
    BY DEF PanelInv
  <2>3. UNCHANGED issued
    BY <2>1 DEF vars
  <2>4. calls' \in [Calls -> Call']
    BY <2>1, <2>2, <2>3, IdleCalls
  <2>5. adminSessionId' \in issued \union {NoSession}
    BY <2>2 DEF PanelTypeOK, CommandAnswered, ExpireAdminSession, page
  <2>6. adminAuthorized' \in BOOLEAN
    BY <2>2 DEF PanelTypeOK, CommandAnswered, ExpireAdminSession, page
  <2>7. adminSessionExpiresAt' \in Nat
    BY <2>2, BoundsAssumption DEF PanelTypeOK, CommandAnswered, ResetAdminSessionTimer,
       ExpireAdminSession, page
  <2>8. QED
    BY <2>1, <2>2, <2>3, <2>4, <2>5, <2>6, <2>7 DEF PanelTypeOK, vars
<1> USE BoundsAssumption DEF PanelInv, Statuses, Call, PasswordOps, SessionOps, Idle
<1>2. OneTimer'
  BY DEF PanelTypeOK, OneTimer,
         CommandAnswered, ResetAdminSessionTimer, ExpireAdminSession, vars, page
<1>3. StatusesTold'
  BY DEF PanelTypeOK, StatusesTold, RequestsNamed,
         CommandAnswered, ResetAdminSessionTimer, ExpireAdminSession, vars, page
<1>4. RequestsNamed'
  BY DEF PanelTypeOK, OneTimer, RequestsNamed,
         CommandAnswered, ResetAdminSessionTimer, ExpireAdminSession, vars, page
<1>5. HandedOverOnce'
  BY DEF PanelTypeOK, OneTimer, HandedOverOnce, Carries, RequestsNamed,
         CommandAnswered, ResetAdminSessionTimer, ExpireAdminSession, vars, page
<1>6. UsesPast'
  BY DEF PanelTypeOK, UsesPast,
         CommandAnswered, ResetAdminSessionTimer, ExpireAdminSession, vars, page
<1>7. PageOutlastsUse'
  <2>1. CASE calls[c].status = 200
    <3>1. /\ adminSessionExpiresAt' = now + SessionDuration
          /\ UNCHANGED <<vars, adminSessionId, adminAuthorized>>
      BY <2>1 DEF CommandAnswered, ResetAdminSessionTimer
    <3>2. SUFFICES ASSUME adminAuthorized' PROVE PageOutlastsUse'
      BY DEF PageOutlastsUse
    <3>3. adminSessionId' \in Ids /\ timers' = {adminSessionExpiresAt'}
      BY <1>2, <3>1, <3>2 DEF OneTimer, PanelTypeOK, vars
    <3>4. adminSessionExpiresAt' >= lastUse'[adminSessionId'] + SessionDuration
      BY <3>1, <3>3 DEF UsesPast, PanelTypeOK, vars
    <3>5. QED
      BY <3>3, <3>4 DEF PageOutlastsUse
  <2>2. CASE calls[c].status = 401
    BY <2>2 DEF CommandAnswered, ExpireAdminSession, PageOutlastsUse
  <2>3. CASE calls[c].status \in {0, 500}
    <3>1. UNCHANGED <<vars, page, lost, unheard>> /\ calls' = [calls EXCEPT ![c] = Idle]
      BY <2>3 DEF CommandAnswered
    <3>2. SUFFICES ASSUME adminAuthorized PROVE PageOutlastsUse'
      BY <3>1 DEF PageOutlastsUse, page
    <3>3. adminSessionId \in Ids
      BY <3>2 DEF OneTimer, PanelTypeOK
    <3>4. calls[c].session = adminSessionId => adminSessionId \in unheard
      BY <2>3, <3>3 DEF StatusesTold, CommandAnswered
    <3>5. \A d \in Calls \ {c} : calls'[d] = calls[d]
      BY <3>1 DEF PanelTypeOK
    <3>6. QED
      BY <3>1, <3>2, <3>4, <3>5 DEF PageOutlastsUse, vars, page
  <2>4. QED
    BY <2>1, <2>2, <2>3, CallParts
<1>8. QED
  BY <1>1, <1>2, <1>3, <1>4, <1>5, <1>6, <1>7

----------------------------------------------------------------------------
\* Every step of the page, of the server or of time keeps the invariant.
LEMMA PanelStep == PanelInv /\ [PanelNext]_panelVars => PanelInv'
<1>1. ASSUME PanelInv, PanelNext PROVE PanelInv'
  BY <1>1, TimeKeeps, TimerKeeps, FetchKeeps, ServeAuthorizeKeeps, ServeCommandKeeps,
     BreakKeeps, ServeLostKeeps, AuthorizeAnsweredKeeps, CommandAnsweredKeeps DEF PanelNext
<1>2. ASSUME PanelInv, UNCHANGED panelVars PROVE PanelInv'
  <2>1. (PanelTypeOK /\ OneTimer)'
    BY <1>2 DEF PanelInv, PanelTypeOK, OneTimer, Call, panelVars, vars, page
  <2>2. (StatusesTold /\ RequestsNamed /\ HandedOverOnce)'
    BY <1>2 DEF PanelInv, StatusesTold, RequestsNamed, HandedOverOnce, Carries,
                panelVars, vars, page
  <2>3. (UsesPast /\ PageOutlastsUse)'
    BY <1>2 DEF PanelInv, UsesPast, PageOutlastsUse, panelVars, vars, page
  <2>4. QED
    BY <2>1, <2>2, <2>3 DEF PanelInv
<1>3. QED
  BY <1>1, <1>2

\* The invariant holds in every state of the page and the server.
LEMMA PanelInvariance == PanelSpec => []PanelInv
BY InitPanelInv, PanelStep, PTL DEF PanelSpec

\* While the panel is open its one timer is due no earlier than a session duration
\* after the last use the server saw, unless the page has not been told of that use.
THEOREM PageOutlastsUseHolds == PanelSpec => []PageOutlastsUse
<1>1. PanelInv => PageOutlastsUse
  BY DEF PanelInv
<1>2. QED
  BY PanelInvariance, <1>1, PTL

\* The panel gives a valid session up only for its timer, for another authorisation,
\* or for the refusal of an earlier session.
THEOREM ClosesForCauseHolds == PanelSpec => ClosesForCause
<1> DEFINE Cause == \/ \E d \in timers : d <= now
                    \/ \E c \in Calls :
                         /\ calls[c].state = "answered" /\ calls'[c] = Idle
                         /\ calls[c].op \in PasswordOps \/ calls[c].session # adminSessionId
           A == adminAuthorized /\ ~adminAuthorized' /\ adminSessionId \in validSessions
                  => Cause
<1>1. PanelInv /\ [PanelNext]_panelVars => [A]_panelVars
  <2> SUFFICES ASSUME PanelInv, PanelNext, adminAuthorized, ~adminAuthorized',
                      adminSessionId \in validSessions
               PROVE  Cause
    OBVIOUS
  <2>1. CASE TimerFires
    BY <2>1 DEF TimerFires
  <2>2. ASSUME NEW c \in Calls, AuthorizeAnswered(c) PROVE Cause
    <3>1. calls'[c] = Idle
      BY <2>2 DEF AuthorizeAnswered, PanelInv, PanelTypeOK
    <3>2. QED
      BY <2>2, <3>1 DEF AuthorizeAnswered
  <2>3. ASSUME NEW c \in Calls, CommandAnswered(c) PROVE Cause
    <3>1. calls'[c] = Idle /\ calls[c].state = "answered"
      BY <2>3 DEF CommandAnswered, PanelInv, PanelTypeOK
    <3>2. calls[c].status = 401
      BY <2>3 DEF CommandAnswered, page
    <3>3. calls[c].session # adminSessionId
      BY <3>1, <3>2 DEF PanelInv, StatusesTold
    <3>4. QED
      BY <3>1, <3>3
  <2>4. ASSUME NEW c \in Calls,
               \/ AuthorizeAdmin(c) \/ SendCommandToServer(c) \/ UploadFirmwareFile(c)
               \/ ServeAuthorize(c) \/ ServeCommand(c) \/ Break(c)
        PROVE  FALSE
    BY <2>4 DEF AuthorizeAdmin, SendCommandToServer, UploadFirmwareFile, Fetch,
       ServeAuthorize, ServeCommand, Break, page
  <2>5. ~ UNCHANGED page
    BY DEF page
  <2>6. QED
    BY <2>1, <2>2, <2>3, <2>4, <2>5 DEF PanelNext, ServeLost
<1>2. QED
  BY PanelInvariance, <1>1, PTL DEF PanelSpec, ClosesForCause
=============================================================================
