---------------------------- MODULE MonitorServer ----------------------------
(***************************************************************************)
(* The connections of the monitor server (server/server_monitor.hpp,       *)
(* server/main.cpp).  The monitor thread accepts devices, waits for them   *)
(* with select, reads their lines and removes those that left; monitor,    *)
(* console and command thread broadcast to them; the command thread also   *)
(* serves HTTP connections.  clientsMutex protects the list of clients,    *)
(* but not the numbers in it: a descriptor closed by one thread is the     *)
(* next one another thread is given.                                       *)
(***************************************************************************)
EXTENDS Integers, Sequences, FiniteSets, SequencesExt

CONSTANTS
  Devices,       \* connections of devices; one that reconnects is a new one
  Requests,      \* connections of HTTP clients
  Descriptors,   \* the numbers left for connections
  Environments,  \* what may happen, in each of the behaviours considered:
                 \*   "http"     HTTP clients connect
                 \*   "midline"  a device leaves in the middle of a line
                 \*   "reset"    a device that left answers a send by a reset
  None,
  MaxLines       \* bound: lines a device sends

ASSUME DescriptorsAssumption == Descriptors \subseteq Nat
ASSUME EnvironmentsAssumption ==
  Environments \subseteq SUBSET {"http", "midline", "reset"}
ASSUME ConnectionsAssumption ==
  /\ Devices \intersect Requests = {} /\ None \notin Devices \union Requests
  /\ None \notin Descriptors /\ MaxLines \in Nat

Monitor == "monitor"     \* serverLoop
Console == "console"     \* consoleLoop
Command == "command"     \* commandServerLoop
Threads == {Monitor, Console, Command}
Free    == "free"        \* clientsMutex is not held
Connections == Devices \union Requests
Pieces == {"line", "head", "tail"}   \* a line, or one sent in two pieces

VARIABLES
  env,       \* what may happen in this behaviour
  running,
  socket,    \* the connection behind each descriptor
  clients,   \* descriptors of devices, in the order they were accepted
  lock,      \* the holder of clientsMutex
  pc,        \* where each thread is
  pos,       \* the client at which the holder of the mutex is
  readSet,   \* the descriptors given to select, then those it returned
  accepted,  \* clientSocket in serverLoop, not yet among the clients
  stale,     \* staleClients
  partial,   \* partialLines: whose unfinished line is kept for a descriptor
  request,   \* the HTTP connection served: its descriptor and its client
  net,       \* each connection as its peer left it
  wire,      \* what a device sent and nobody read yet
  written,   \* how many halves of lines a device sent
  damaged,   \* history: <<d, c>> when a line of c was put together with what was
             \* kept of d (None: nothing) though c did not send it so
  cut,       \* history: the descriptors that broadcasts closed since serverLoop
             \* copied the list
  stray      \* history: removeClient closed a descriptor a second time, when it
             \* had gone to another connection

threads == <<running, lock, pc, pos>>
locals  == <<readSet, accepted, stale, partial>>
history == <<damaged, cut, stray>>
list    == <<socket, clients, net>>
sent    == <<wire, written>>
vars    == <<env, threads, locals, history, list, request, sent>>

TypeOK ==
  /\ env \in Environments /\ {running, stray} \subseteq BOOLEAN
  /\ socket \in [Descriptors -> Connections \union {None}]
  /\ {clients, stale} \subseteq Seq(Descriptors) /\ readSet \subseteq Descriptors
  /\ lock \in Threads \union {Free} /\ pos \in Nat \ {0}
  /\ pc \in [Threads -> {"top", "select", "accept", "push", "receive", "read",
                         "remove", "idle", "handle", "lock", "send",
                         "respond", "exited", "failed"}]
  /\ accepted \in Descriptors \union {None}
  /\ partial \in [Descriptors -> Devices \union {None}]
  /\ damaged \subseteq (Devices \union {None}) \X Devices /\ cut \subseteq Descriptors
  /\ request \in [descriptor : Descriptors, client : Requests] \union {None}
  /\ net \in [Connections -> {"new", "waiting", "open", "left", "reset", "closed"}]
  /\ wire \in [Devices -> Seq(Pieces)] /\ written \in [Devices -> 0..2 * MaxLines]

Init ==
  /\ env \in Environments /\ running = TRUE
  /\ socket = [f \in Descriptors |-> None] /\ clients = <<>>
  /\ lock = Free /\ pos = 1
  /\ pc = [t \in Threads |-> IF t = Monitor THEN "top" ELSE "idle"]
  /\ readSet = {} /\ accepted = None /\ stale = <<>> /\ request = None
  /\ partial = [f \in Descriptors |-> None]
  /\ damaged = {} /\ cut = {} /\ stray = FALSE
  /\ net = [c \in Connections |-> "new"]
  /\ wire = [c \in Devices |-> <<>>] /\ written = [c \in Devices |-> 0]

Goto(t, l) == pc' = [pc EXCEPT ![t] = l]

----------------------------------------------------------------------------
(* Descriptors.                                                            *)

\* The free descriptor the system gives out next, if there is one.
FreeDescriptors == {f \in Descriptors : socket[f] = None}
Lowest == CHOOSE f \in FreeDescriptors : \A g \in FreeDescriptors : f <= g

Open(c) ==
  /\ socket' = [socket EXCEPT ![Lowest] = c]
  /\ net' = [net EXCEPT ![c] = "open"]

\* close, whatever is behind the descriptor by now.
Close(f) ==
  /\ socket' = [socket EXCEPT ![f] = None]
  /\ net' = IF socket[f] = None THEN net ELSE [net EXCEPT ![socket[f]] = "closed"]

\* std::remove with erase: the elements of s other than x, in their order.  The
\* one at i moves to the place that is the number of those up to i.
Without(s, x) ==
  LET place(i) == Cardinality({j \in 1..i : s[j] # x})
  IN [k \in 1..place(Len(s)) |->
        s[CHOOSE i \in 1..Len(s) : s[i] # x /\ place(i) = k]]

----------------------------------------------------------------------------
(* The monitor thread: one turn of the loop in serverLoop.                 *)

\* The descriptors to wait for are copied under the mutex.
Snapshot ==
  /\ pc[Monitor] = "top" /\ cut' = {}
  /\ \/ running /\ lock = Free /\ readSet' = ToSet(clients) /\ Goto(Monitor, "select")
     \/ ~running /\ Goto(Monitor, "exited") /\ UNCHANGED readSet
  /\ UNCHANGED <<env, running, lock, pos, accepted, stale, partial, damaged, stray,
                 list, request, sent>>

\* recv on the connection c of a device does not block.
Readable(c) == c \in Devices /\ (wire[c] # <<>> \/ net[c] \in {"left", "reset"})

\* (Broken variant: clients are read whether or not select returned them.)
SelectAll ==
  /\ pc[Monitor] = "select" /\ \A f \in readSet : socket[f] # None
  /\ Goto(Monitor, IF \E c \in Devices : net[c] = "waiting" THEN "accept" ELSE "receive")
  /\ UNCHANGED <<env, running, lock, pos, locals, history, list, request, sent>>

\* (Broken variant: the listening socket is forgotten.)
SelectClients ==
  /\ pc[Monitor] = "select" /\ Goto(Monitor, "receive")
  /\ readSet' = {f \in readSet : Readable(socket[f])}
  /\ UNCHANGED <<env, running, lock, pos, accepted, stale, partial, history, list,
                 request, sent>>

\* select, with a timeout.  A descriptor closed since the copy (EBADF) ends the
\* loop; one that has gone to an HTTP client since is returned when the client's
\* bytes are there.  A device to accept is seen on the listening socket.
Select ==
  /\ pc[Monitor] = "select"
  /\ \/ /\ \E f \in readSet : socket[f] = None
        /\ Goto(Monitor, "failed") /\ UNCHANGED readSet
     \/ /\ \A f \in readSet : socket[f] # None
        /\ \E taken \in SUBSET {f \in readSet : socket[f] \in Requests} :
             readSet' = {f \in readSet : Readable(socket[f])} \union taken
        /\ Goto(Monitor, IF \E c \in Devices : net[c] = "waiting"
                         THEN "accept" ELSE "receive")
  /\ UNCHANGED <<env, running, lock, pos, accepted, stale, partial, history, list,
                 request, sent>>

\* (Broken variant: that accept failed is not noticed.)
AcceptUnchecked ==
  /\ pc[Monitor] = "accept" /\ Goto(Monitor, "push")
  /\ \/ /\ FreeDescriptors # {}
        /\ \E c \in Devices : net[c] = "waiting" /\ Open(c)
        /\ accepted' = Lowest
     \/ FreeDescriptors = {} /\ UNCHANGED <<socket, net, accepted>>
  /\ UNCHANGED <<env, running, lock, pos, clients, readSet, stale, partial, history,
                 request, sent>>

\* accept, which fails when no descriptor is left.
Accept ==
  /\ pc[Monitor] = "accept"
  /\ \/ /\ FreeDescriptors # {}
        /\ \E c \in Devices : net[c] = "waiting" /\ Open(c)
        /\ accepted' = Lowest /\ Goto(Monitor, "push")
     \/ /\ FreeDescriptors = {} /\ Goto(Monitor, "receive")
        /\ UNCHANGED <<socket, net, accepted>>
  /\ UNCHANGED <<env, running, lock, pos, clients, readSet, stale, partial, history,
                 request, sent>>

Push ==
  /\ pc[Monitor] = "push" /\ lock = Free /\ Goto(Monitor, "receive")
  /\ clients' = Append(clients, accepted) /\ accepted' = None
  /\ UNCHANGED <<env, running, lock, pos, socket, net, readSet, stale, partial,
                 history, request, sent>>

ReceiveBegin ==
  /\ pc[Monitor] = "receive" /\ Goto(Monitor, "read")
  /\ lock = Free /\ lock' = Monitor /\ pos' = 1 /\ stale' = <<>>
  /\ UNCHANGED <<env, running, readSet, accepted, partial, history, list, request,
                 sent>>

\* What was read from c through f completes a line, and what was kept for f is not
\* the beginning c sent of it.
Damages(f, c) ==
  /\ \E i \in DOMAIN wire[c] : wire[c][i] # "head"
  /\ partial[f] # IF wire[c][1] = "tail" THEN c ELSE None

NoteDamage(f, c) ==
  damaged' = damaged \union IF Damages(f, c) THEN {<<partial[f], c>>} ELSE {}

\* (Broken variant: the rest of what was read is dropped after the last line.)
CutWholeOnly(f, c) ==
  /\ NoteDamage(f, c)
  /\ partial' = [partial EXCEPT ![f] = None]

\* What was read is appended to what is kept for f, and cut into lines.
Cut(f, c) ==
  /\ NoteDamage(f, c)
  /\ partial' = [partial EXCEPT ![f] =
       IF Last(wire[c]) # "head" THEN None
       ELSE IF Len(wire[c]) = 1 /\ @ # None THEN @ ELSE c]

\* recv on the next of the clients that select returned; it fails on a closed
\* descriptor.  With nothing to read, no disjunct is enabled: it blocks, and the
\* mutex is held.  (So it does on the connection of an HTTP client, which is among
\* the clients only after a stray close.)
ReceiveFrom ==
  LET f == clients[pos]
      c == socket[f]
  IN /\ pc[Monitor] = "read" /\ pos <= Len(clients)
     /\ pos' = pos + 1
     /\ \/ f \notin readSet /\ UNCHANGED <<stale, partial, damaged, wire>>
        \/ /\ f \in readSet /\ Readable(c) /\ wire[c] # <<>>
           /\ Cut(f, c) /\ wire' = [wire EXCEPT ![c] = <<>>]
           /\ UNCHANGED stale
        \/ /\ f \in readSet /\ (c = None \/ (Readable(c) /\ wire[c] = <<>>))
           /\ stale' = Append(stale, f)
           /\ UNCHANGED <<partial, damaged, wire>>
     /\ UNCHANGED <<env, running, lock, pc, readSet, accepted, cut, stray, list,
                    request, written>>

ReceiveEnd ==
  /\ pc[Monitor] = "read" /\ pos > Len(clients)
  /\ lock' = Free /\ Goto(Monitor, "remove")
  /\ UNCHANGED <<env, running, pos, locals, history, list, request, sent>>

\* (Broken variant: the client stays in the list.)
RemoveClientOnlyClosed ==
  /\ pc[Monitor] = "remove" /\ stale # <<>> /\ lock = Free
  /\ Close(Head(stale)) /\ stale' = Tail(stale)
  /\ UNCHANGED <<env, threads, clients, readSet, accepted, partial, history, request,
                 sent>>

\* (Broken variant: the descriptor stays open.)
RemoveClientOnlyFromList ==
  /\ pc[Monitor] = "remove" /\ stale # <<>> /\ lock = Free
  /\ clients' = Without(clients, Head(stale)) /\ stale' = Tail(stale)
  /\ UNCHANGED <<env, threads, socket, net, readSet, accepted, partial, history,
                 request, sent>>

\* removeClient, which takes the mutex again for each, and closes the descriptor
\* even if a broadcast took it from the list meanwhile.
RemoveClient ==
  LET f == Head(stale)
  IN /\ pc[Monitor] = "remove" /\ stale # <<>> /\ lock = Free
     /\ clients' = Without(clients, f)
     /\ Close(f) /\ stale' = Tail(stale)
     /\ stray' = (stray \/ (f \notin ToSet(clients) /\ socket[f] # None))
     /\ UNCHANGED <<env, threads, readSet, accepted, partial, damaged, cut, request,
                    sent>>

\* A pass over the rules, or none, and what they send: nothing or a message.
Evaluate ==
  /\ pc[Monitor] = "remove" /\ stale = <<>>
  /\ \E l \in {"lock", "top"} : Goto(Monitor, l)
  /\ UNCHANGED <<env, running, lock, pos, locals, history, list, request, sent>>

----------------------------------------------------------------------------
(* broadcastToClients, on any of the three threads.                        *)

BroadcastBegin(t) ==
  /\ pc[t] = "lock" /\ Goto(t, "send")
  /\ lock = Free /\ lock' = t /\ pos' = 1
  /\ UNCHANGED <<env, running, locals, history, list, request, sent>>

\* A send to a device that left is accepted and may be answered by a reset.
\* After a reset, and on a closed descriptor, send fails: the client is closed
\* and erased, and the iterator is at the next one.
SendNext(t) ==
  LET f == clients[pos]
      fails == socket[f] \in {None} \union {c \in Connections : net[c] = "reset"}
  IN /\ pc[t] = "send" /\ pos <= Len(clients)
     /\ \/ /\ ~fails /\ pos' = pos + 1
           /\ \/ UNCHANGED net
              \/ /\ "reset" \in env /\ net[socket[f]] = "left"
                 /\ net' = [net EXCEPT ![socket[f]] = "reset"]
           /\ UNCHANGED <<socket, clients, cut>>
        \/ /\ fails /\ Close(f) /\ cut' = cut \union {f}
           /\ clients' = RemoveAt(clients, pos) /\ UNCHANGED pos
     /\ UNCHANGED <<env, running, lock, pc, locals, damaged, stray, request, sent>>

\* (Broken variant: the mutex is not given back.)
BroadcastEndHolding(t) ==
  /\ pc[t] = "send" /\ pos > Len(clients)
  /\ Goto(t, CASE t = Monitor -> "top" [] t = Console -> "idle" [] OTHER -> "respond")
  /\ UNCHANGED <<env, running, lock, pos, locals, history, list, request, sent>>

BroadcastEnd(t) ==
  /\ pc[t] = "send" /\ pos > Len(clients) /\ lock' = Free
  /\ Goto(t, CASE t = Monitor -> "top" [] t = Console -> "idle" [] OTHER -> "respond")
  /\ UNCHANGED <<env, running, pos, locals, history, list, request, sent>>

----------------------------------------------------------------------------
(* The console and the command thread, and the end of main.                *)

\* A line is broadcast; "quit" and the end of the input stop the server.
ReadConsole ==
  /\ pc[Console] = "idle"
  /\ \/ Goto(Console, "lock") /\ UNCHANGED running
     \/ Goto(Console, "exited") /\ running' = FALSE
  /\ UNCHANGED <<env, lock, pos, locals, history, list, request, sent>>

AcceptRequest ==
  /\ pc[Command] = "idle"
  /\ \/ /\ ~running /\ Goto(Command, "exited")
        /\ UNCHANGED <<socket, net, request>>
     \/ /\ running /\ "http" \in env /\ FreeDescriptors # {}
        /\ \E h \in Requests :
             /\ net[h] = "new" /\ Open(h)
             /\ request' = [descriptor |-> Lowest, client |-> h]
        /\ Goto(Command, "handle")
  /\ UNCHANGED <<env, running, lock, pos, locals, history, clients, sent>>

\* (Broken variant: handleCommandRequest closes the connection too.)
HandleRequestClosing ==
  /\ pc[Command] = "handle" /\ Goto(Command, "respond")
  /\ Close(request.descriptor)
  /\ UNCHANGED <<env, running, lock, pos, locals, history, clients, request, sent>>

\* handleCommandRequest, which may broadcast.
HandleRequest ==
  /\ pc[Command] = "handle"
  /\ \E l \in {"lock", "respond"} : Goto(Command, l)
  /\ UNCHANGED <<env, running, lock, pos, locals, history, list, request, sent>>

\* The answer is sent and the connection closed.
Respond ==
  /\ pc[Command] = "respond" /\ Goto(Command, "idle")
  /\ Close(request.descriptor) /\ request' = None
  /\ UNCHANGED <<env, running, lock, pos, locals, history, clients, sent>>

\* main, when the threads are joined.
Stop ==
  /\ \A t \in Threads : pc[t] \in {"exited", "failed"}
  /\ clients # <<>> /\ clients' = <<>>
  /\ socket' = [f \in Descriptors |-> IF Contains(clients, f) THEN None ELSE socket[f]]
  /\ net' = [c \in Connections |->
       IF \E f \in ToSet(clients) : socket[f] = c THEN "closed" ELSE net[c]]
  /\ UNCHANGED <<env, threads, locals, history, request, sent>>

----------------------------------------------------------------------------
(* Devices, over the network.                                              *)

Unfinished(c) == written[c] % 2 = 1

Connect(c) ==
  /\ net[c] = "new" /\ net' = [net EXCEPT ![c] = "waiting"]
  /\ UNCHANGED <<env, threads, locals, history, socket, clients, request, sent>>

Write(c) ==
  /\ net[c] = "open" /\ written[c] < 2 * MaxLines
  /\ \E p \in IF Unfinished(c) THEN {"tail"} ELSE {"line", "head"} :
       /\ wire' = [wire EXCEPT ![c] = Append(@, p)]
       /\ written' = [written EXCEPT ![c] = @ + IF p = "line" THEN 2 ELSE 1]
  /\ UNCHANGED <<env, threads, locals, history, list, request>>

Leave(c) ==
  /\ net[c] = "open" /\ (Unfinished(c) => "midline" \in env)
  /\ net' = [net EXCEPT ![c] = "left"]
  /\ UNCHANGED <<env, threads, locals, history, socket, clients, request, sent>>

----------------------------------------------------------------------------
Broadcast(t) == BroadcastBegin(t) \/ SendNext(t) \/ BroadcastEnd(t)
MonitorStep ==
  \/ Snapshot \/ Select \/ Accept \/ Push
  \/ ReceiveBegin \/ ReceiveFrom \/ ReceiveEnd \/ RemoveClient \/ Evaluate
  \/ Broadcast(Monitor)
CommandStep == AcceptRequest \/ HandleRequest \/ Respond \/ Broadcast(Command)

Next ==
  \/ MonitorStep \/ CommandStep \/ ReadConsole \/ Broadcast(Console) \/ Stop
  \/ \E c \in Devices : Connect(c) \/ Write(c) \/ Leave(c)

Spec == Init /\ [][Next]_vars

\* The threads and main run on; mutexes and the processor are shared fairly.
FairSpec ==
  /\ Spec
  /\ SF_vars(MonitorStep) /\ SF_vars(CommandStep) /\ SF_vars(Broadcast(Console))
  /\ WF_vars(Stop)

----------------------------------------------------------------------------
(* Safety.                                                                 *)

\* Until a stray close, the list of clients is exactly the open descriptors of
\* devices, each once (besides the one being accepted): no device is forgotten with
\* its descriptor open, and no descriptor is kept that is closed or has gone to an
\* HTTP client.  And a stray close takes both: a reset, so that a broadcast closes
\* the client first, and an HTTP client, the only one to get the number meanwhile.
ClientsMatch ==
  /\ stray => {"http", "reset"} \subseteq env
  /\ ~stray =>
       /\ {f \in Descriptors : socket[f] \in Devices} \ {accepted} = ToSet(clients)
       /\ Len(clients) = Cardinality(ToSet(clients))

\* The descriptor the command thread answers on is its client's from accept to
\* close, so that no answer goes to a device or to another client, though broadcasts
\* close clients and their numbers are given out again: only a stray close in
\* removeClient can take it away.
AnswersReachClient ==
  ~stray /\ request # None => socket[request.descriptor] = request.client

\* Of what d sent, something was cut off: half a line, or what nobody had read.
Interrupted(d) == net[d] = "closed" /\ (Unfinished(d) \/ wire[d] # <<>>)

\* Lines are reported as they were sent, but for one case.  partialLines outlives
\* its client: what is kept for a descriptor can come before the first line of the
\* next device that gets it.  It does so only when the device before was cut off;
\* no piece of the device's own is ever lost, and none is kept past a line's end.
LinesWhole ==
  ~stray => \A p \in damaged : p[1] \in Devices \ {p[2]} /\ Interrupted(p[1])

\* recv blocks with clientsMutex held, which stops every broadcast, only on a
\* descriptor that a broadcast closed after serverLoop copied the list and that
\* went to a new device before it was read; for every other client, what select
\* returned is still true when it is read, whatever the other threads did between.
RecvNeverBlocks ==
  ~stray /\ pc[Monitor] = "read" /\ pos <= Len(clients) /\ clients[pos] \in readSet =>
    Readable(socket[clients[pos]]) \/ clients[pos] \in cut

\* serverLoop stops at select only because a broadcast closed one of the copied
\* descriptors, which takes a reset, or after a stray close: no other order of the
\* threads' closes and accepts leaves a closed descriptor in the list.
MonitorGoesOn ==
  /\ cut # {} => "reset" \in env
  /\ pc[Monitor] = "failed" => stray \/ readSet \intersect cut # {}

----------------------------------------------------------------------------
(* Liveness.                                                               *)

\* A device that connects is accepted while the server runs and has descriptors.
\* (True without resets.)
ConnectionsAccepted ==
  \A c \in Devices :
    net[c] = "waiting" ~> net[c] # "waiting" \/ ~running \/ FreeDescriptors = {}

\* What a device sent is read, and one that left is closed, on every device and
\* whoever broadcasts.
DevicesServed ==
  \A c \in Devices :
    "reset" \notin env /\ (wire[c] # <<>> \/ net[c] = "left")
      ~> (wire[c] = <<>> /\ net[c] # "left") \/ ~running

\* After "quit" the threads end and every device's connection is closed.
Shutdown ==
  "reset" \notin env /\ ~running
    ~> \A t \in Threads : pc[t] = "exited" /\ clients = <<>>
=============================================================================
