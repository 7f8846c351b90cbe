------------------------- MODULE SessionStore_proofs -------------------------
(***************************************************************************)
(* Proofs about the session store for every set of ids, every lifetime and *)
(* every cleanup interval, without a bound on time.                        *)
(***************************************************************************)
EXTENDS SessionStore, TLAPS

\* No clock reading is later than the clock, which is what makes a sweep with an
\* old reading spare every session used since.
Readings == lastCleanup <= now /\ \A t \in Threads : cutoff[t] <= now

\* What the command thread knows at the lookup: its call of removeExpiredSessions
\* left no session overdue, or the other thread has yet to sweep those that are.
LookupFresh ==
  pc[Command] = "lookup" =>
    \/ \A s \in validSessions : cutoff[Command] - lastUse[s] < Lifetime + CleanupInterval
    \/ pc[Authorization] = "sweep"
         /\ cutoff[Command] - cutoff[Authorization] < CleanupInterval

IInv == TypeOK /\ Readings /\ Swept /\ LookupFresh

\* At the start there are no sessions, and the readings are those of the start.
LEMMA InitInv == Init => IInv
BY IdsAssumption, TimesAssumption
   DEF Init, IInv, TypeOK, Readings, Swept, LookupFresh, Threads, Authorization, Command

\* TypeOK and Readings are inductive together.
LEMMA TypeStep == TypeOK /\ Readings /\ [Next]_vars => TypeOK' /\ Readings'
<1> SUFFICES ASSUME TypeOK, Readings, [Next]_vars
             PROVE  TypeOK' /\ Readings'
  OBVIOUS
<1> USE IdsAssumption, TimesAssumption
    DEF TypeOK, Readings, Threads, Authorization, Command, Goto, table
<1>1. CASE Tick
  BY <1>1 DEF Tick
<1>2. ASSUME NEW t \in Threads, CleanupStep(t) PROVE TypeOK' /\ Readings'
  <2>1. CASE ReadClock(t)
    BY <2>1 DEF ReadClock
  <2>2. CASE CompareCleanup(t)
    BY <2>2 DEF CompareCleanup, Return
  <2>3. CASE ClaimCleanup(t)
    BY <2>3 DEF ClaimCleanup
  <2>4. CASE Sweep(t)
    BY <2>4 DEF Sweep, Expired, Return
  <2>5. QED
    BY <1>2, <2>1, <2>2, <2>3, <2>4 DEF CleanupStep
<1>3. CASE SelectTimeout
  BY <1>3 DEF SelectTimeout
<1>4. CASE ReceivePassword
  BY <1>4 DEF ReceivePassword
<1>5. ASSUME NEW s \in Ids, OpenSession(s) PROVE TypeOK' /\ Readings'
  BY <1>5 DEF OpenSession
<1>6. ASSUME NEW s \in Ids, ReceiveCommand(s) PROVE TypeOK' /\ Readings'
  BY <1>6 DEF ReceiveCommand
<1>7. CASE Lookup
  BY <1>7 DEF Lookup
<1>8. CASE Act
  BY <1>8 DEF Act
<1>9. CASE UNCHANGED vars
  BY <1>9 DEF vars
<1>10. QED
  BY <1>1, <1>2, <1>3, <1>4, <1>5, <1>6, <1>7, <1>8, <1>9
     DEF Next, AuthorizationStep, CommandStep

\* What no cleanup claimed or swept, and no session opened or used, leaves as it is.
LEMMA SweptStep ==
  TypeOK /\ Readings /\ Swept /\ [Next]_vars => Swept'
<1> SUFFICES ASSUME TypeOK, Readings, Swept, [Next]_vars
             PROVE  Swept'
  OBVIOUS
<1> USE TimesAssumption
    DEF TypeOK, Readings, Swept, Threads, Authorization, Command, Goto, table
<1>1. CASE Tick
  BY <1>1 DEF Tick
<1>2. ASSUME NEW t \in Threads, CleanupStep(t) PROVE Swept'
  <2>1. CASE ReadClock(t)
    BY <2>1 DEF ReadClock
  <2>2. CASE CompareCleanup(t)
    BY <2>2 DEF CompareCleanup, Return
  <2>3. CASE ClaimCleanup(t)
    BY <2>3 DEF ClaimCleanup
  <2>4. CASE Sweep(t)
    \* A sweep with an earlier reading than the last claimed one leaves the other
    \* thread at its own.
    BY <2>4 DEF Sweep, Expired, Return
  <2>5. QED
    BY <1>2, <2>1, <2>2, <2>3, <2>4 DEF CleanupStep
<1>3. CASE SelectTimeout
  BY <1>3 DEF SelectTimeout
<1>4. CASE ReceivePassword
  BY <1>4 DEF ReceivePassword
<1>5. ASSUME NEW s \in Ids, OpenSession(s) PROVE Swept'
  BY <1>5 DEF OpenSession
<1>6. ASSUME NEW s \in Ids, ReceiveCommand(s) PROVE Swept'
  BY <1>6 DEF ReceiveCommand
<1>7. CASE Lookup
  BY <1>7 DEF Lookup
<1>8. CASE Act
  BY <1>8 DEF Act
<1>9. CASE UNCHANGED vars
  BY <1>9 DEF vars
<1>10. QED
  BY <1>1, <1>2, <1>3, <1>4, <1>5, <1>6, <1>7, <1>8, <1>9
     DEF Next, AuthorizationStep, CommandStep

\* The two ways the command thread comes to the lookup: it skipped the cleanup, and
\* Swept says what the last one left, or it swept itself.
LEMMA LookupStep ==
  TypeOK /\ Readings /\ Swept /\ LookupFresh /\ [Next]_vars => LookupFresh'
<1> SUFFICES ASSUME TypeOK, Readings, Swept, LookupFresh, [Next]_vars
             PROVE  LookupFresh'
  OBVIOUS
<1> USE TimesAssumption
    DEF TypeOK, Readings, LookupFresh, Threads, Authorization, Command, Goto, table
<1>1. CASE Tick
  BY <1>1 DEF Tick
<1>2. ASSUME NEW t \in Threads, CleanupStep(t) PROVE LookupFresh'
  <2>1. CASE ReadClock(t)
    BY <2>1 DEF ReadClock
  <2>2. CASE CompareCleanup(t)
    BY <2>2 DEF CompareCleanup, Return, Swept
  <2>3. CASE ClaimCleanup(t)
    BY <2>3 DEF ClaimCleanup
  <2>4. CASE Sweep(t)
    BY <2>4 DEF Sweep, Expired, Return
  <2>5. QED
    BY <1>2, <2>1, <2>2, <2>3, <2>4 DEF CleanupStep
<1>3. CASE SelectTimeout
  BY <1>3 DEF SelectTimeout
<1>4. CASE ReceivePassword
  BY <1>4 DEF ReceivePassword
<1>5. ASSUME NEW s \in Ids, OpenSession(s) PROVE LookupFresh'
  BY <1>5 DEF OpenSession
<1>6. ASSUME NEW s \in Ids, ReceiveCommand(s) PROVE LookupFresh'
  BY <1>6 DEF ReceiveCommand
<1>7. CASE Lookup
  BY <1>7 DEF Lookup
<1>8. CASE Act
  BY <1>8 DEF Act
<1>9. CASE UNCHANGED vars
  BY <1>9 DEF vars
<1>10. QED
  BY <1>1, <1>2, <1>3, <1>4, <1>5, <1>6, <1>7, <1>8, <1>9
     DEF Next, AuthorizationStep, CommandStep

\* The invariant holds in every state of the two threads.
LEMMA Invariance == Spec => []IInv
<1>1. IInv /\ [Next]_vars => IInv'
  BY TypeStep, SweptStep, LookupStep DEF IInv
<1>2. QED
  BY InitInv, <1>1, PTL DEF Spec

\* The state of the store keeps its type; sessions that are valid were issued.
THEOREM SessionTypes == Spec => []TypeOK
<1>1. IInv => TypeOK
  BY DEF IInv
<1>2. QED
  BY Invariance, <1>1, PTL

\* A cleanup that was claimed is the only thing that keeps a session beyond the
\* last cleanup, however the two threads interleave on the static variable.
THEOREM NothingOverdue == Spec => []Swept
<1>1. IInv => Swept
  BY DEF IInv
<1>2. QED
  BY Invariance, <1>1, PTL

\* No command is accepted in a session idle for longer than a lifetime and an
\* interval, unless the other thread is about to sweep.
THEOREM Acceptance == Spec => AcceptedInTime
<1> DEFINE A == (pc[Command] = "lookup" /\ pc'[Command] = "act"
                   /\ pc[Authorization] # "sweep")
                => cutoff[Command] - lastUse[request] < Lifetime + CleanupInterval
<1>1. IInv /\ [Next]_vars => [A]_vars
  <2> SUFFICES ASSUME IInv, Next, pc[Command] = "lookup", pc'[Command] = "act",
                      pc[Authorization] # "sweep"
               PROVE  cutoff[Command] - lastUse[request] < Lifetime + CleanupInterval
    OBVIOUS
  <2>1. request \in validSessions
    BY DEF IInv, TypeOK, Next, Tick, AuthorizationStep, CommandStep, CleanupStep,
           ReadClock, CompareCleanup, ClaimCleanup, Sweep, Return, SelectTimeout,
           ReceivePassword, OpenSession, ReceiveCommand, Lookup, Act, Goto, Threads,
           Authorization, Command
  <2>2. QED
    BY <2>1 DEF IInv, LookupFresh
<1>2. QED
  BY Invariance, <1>1, PTL DEF Spec, AcceptedInTime

\* The store implements the table: a sweep ends only sessions that are idle for
\* longer than their lifetime when it happens, the lookup is a use, and no other
\* step touches the sessions.
THEOREM Implementation == Spec => TableSpec
<1>1. Init => Table!Init
  BY DEF Init, Table!Init
<1>2. IInv /\ [Next]_vars => [Table!Next]_(Table!vars)
  <2> SUFFICES ASSUME IInv, [Next]_vars
               PROVE  [Table!Next]_(Table!vars)
    OBVIOUS
  <2> USE DEF table, Table!vars
  <2>1. CASE Tick
    BY <2>1 DEF Tick, Table!Tick, Table!Next
  <2>2. ASSUME NEW t \in Threads, CleanupStep(t)
        PROVE  [Table!Next]_(Table!vars)
    <3>1. CASE Sweep(t)
      <4>1. \A s \in Expired(t) : now - lastUse[s] > Lifetime
        BY TimesAssumption, <2>2 DEF IInv, TypeOK, Readings, Expired
      <4>2. Table!Expire(Expired(t))
        BY <3>1, <4>1 DEF Sweep, Table!Expire
      <4>3. Expired(t) \in SUBSET validSessions
        BY DEF Expired
      <4>4. QED
        BY <4>2, <4>3 DEF Table!Next
    <3>2. CASE ReadClock(t) \/ CompareCleanup(t) \/ ClaimCleanup(t)
      BY <3>2 DEF ReadClock, CompareCleanup, ClaimCleanup
    <3>3. QED
      BY <2>2, <3>1, <3>2 DEF CleanupStep
  <2>3. ASSUME NEW s \in Ids, OpenSession(s)
        PROVE  [Table!Next]_(Table!vars)
    BY <2>3 DEF OpenSession, Table!Open, Table!Next
  <2>4. CASE Lookup
    <3>1. CASE request \in validSessions
      <4>1. Table!Use(request) /\ request \in Ids
        BY <2>4, <3>1 DEF Lookup, Table!Use, IInv, TypeOK
      <4>2. QED
        BY <4>1 DEF Table!Next
    <3>2. CASE request \notin validSessions
      BY <2>4, <3>2 DEF Lookup
    <3>3. QED
      BY <3>1, <3>2
  <2>5. CASE SelectTimeout \/ ReceivePassword \/ Act \/ (\E s \in Ids : ReceiveCommand(s))
    BY <2>5 DEF SelectTimeout, ReceivePassword, Act, ReceiveCommand
  <2>6. CASE UNCHANGED vars
    BY <2>6 DEF vars
  <2>7. QED
    BY <2>1, <2>2, <2>3, <2>4, <2>5, <2>6 DEF Next, AuthorizationStep, CommandStep, Threads
<1>3. QED
  BY Invariance, <1>1, <1>2, PTL DEF Spec, TableSpec, Table!Spec
=============================================================================
