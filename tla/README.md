# InverterMonitor: specifications and proofs

TLA+ modules for the monitor server (`server/`) and the device firmware
(`inverter/`, `temperature/`) of InverterMonitor, checked with TLC on small
instances. Of every module that models code the safety properties are also proved
with TLAPS, for every value of its constants. Source paths are relative to the
repository; line numbers are those of the commit beside which this directory is
kept.

## 1. The system

```
 dashboard (index.html) --HTTP--> authorization thread --.
        |                                                | sessions
        '----------HTTP--> command thread <--------------'
                              | rules, variables, clients (mutexes)
 console thread --> parseCommand      |
                              v
                 monitor thread (serverLoop): select, values, rules, plugs
                              | TCP lines
        .---------------------+-----------------.
   inverter.ino           temperature.ino    simulator_monitor
        | RS485/Modbus
   inverter  (or simulator_modbus)
```

| Component | State | Operations | What is hard | What makes it correct |
|---|---|---|---|---|
| Rules engine (`rules.hpp`, `variables.hpp`) | `rules`, `ruleLastState`, variables, `rules.json`, `rulesMutex` | load, save, evaluate, enable, disable, execute | two threads, file read outside the mutex, edge triggering with rules that switch rules, crash in a save | memory agrees with the file; one firing per edge; pairs hand over; the mutex is always given back |
| Monitor loop (`server_monitor.hpp`, `main.cpp`) | client descriptors, partial lines, last values, timers | accept, receive, remove, broadcast, evaluate, replay relays, save values | descriptors closed by one thread and used by another, blocking calls under a mutex, a select error that ends the loop | every connected device is heard; lines of two devices never mix; the loop goes on |
| HTTP command server (`server_command.hpp`) | none of its own | requests, fall-through broadcast, firmware upload | refused requests become broadcasts | only sessions change anything; every request is answered |
| Sessions (`server_authorization.hpp`, `utils.hpp`) | `validSessions`, time of last cleanup | authorise, look up and refresh, clean up | unsynchronised cleanup time, expiry by cleanup only | only an idle session ends, and every idle session does |
| Relay plugs (`plug_switch.py`, replay) | plugs outside the server | switch, replay every 5 minutes | replay of states older than the last command | device, plug and server come to agree |
| Inverter firmware (`inverter.ino`) | scan indexes and times, settings in RAM and EEPROM, WiFi mode, link, relays | `loop()`, command lines, reconnects | `millis()` wraps, two scans share one bus, settings change at any time, commit fails, reboot | both scans go on at their intervals and spacing; the device comes back on line |
| Temperature firmware (`temperature.ino`) | sensor list, settings, link | `loop()`, detect sensors, command lines | the bus is searched in any order, sensors come and go, `millis()` wraps, no return from the access point | a register keeps its sensor; reports go on |
| Dashboard (`index.html`) | admin session, timer | authorise, send, upload, expire | late answers of an old session | the page holds its session as long as the server does |
| Modbus simulator (`simulator_modbus`) | registers, receive buffer | read, write, resynchronise | noise and lost bytes, late answers | intact requests are answered; reports are true |
| Monitor simulator (`simulator_monitor`) | EEPROM file | as the devices | exit while a thread is in `recv` | development tool |
| Register store (`registers.hpp`) | `registers.json`, `.dat` files | append, save, read a range | none beyond file errors | output only |

`PROJECT.json` lists the hazards of the code line by line, with the properties
that watch each of them.

## 2. Modules

| Module | Models | Checked by |
|---|---|---|
| `RulesEngine` | rules engine, its two threads, the file | `RulesCommands` |
| `RulesPump` | the engine with the pair of rules of `rules.json.example`, and what clients do with it | `RulesPump`, `RulesReloadRace` |
| `RulesEngine_proofs` | theorems about `RulesEngine` and the pair | TLAPS |
| `MCRulesPump` | requests for `RulesPump` | |
| `MCRulesCommands` | instance: a file with every kind of input and command | |
| `InverterLoop` | `loop()` of the inverter, settings, WiFi, link, reboot | `Inverter`, `InverterStall` |
| `InverterLoop_proofs` | theorems about `InverterLoop` | TLAPS |
| `MCInverterLoop` | instances with small clocks | |
| `MonitorServer` | descriptors, lines and broadcasts of the monitor server's threads | `MonitorSafe`, `MonitorLive`, `MonitorHalted` |
| `MonitorServer_proofs` | theorems about `MonitorServer` | TLAPS |
| `MCMonitorServer` | instance: two devices, one HTTP client, two descriptors | |
| `SessionTable` | abstract: what the server promises about sessions | |
| `SessionStore` | the sessions and the two threads that use them; implements `SessionTable` | `Sessions` |
| `SessionStore_proofs` | theorems about `SessionStore`, the refinement among them | TLAPS |
| `MCSessionStore` | instance: two sessions | |
| `AdminPanel` | the dashboard's administration panel over `SessionTable` | `Panel` |
| `AdminPanel_proofs` | theorems about `AdminPanel` | TLAPS |
| `MCAdminPanel` | instance: two sessions, two requests at a time | |
| `ModbusBus` | inverter firmware and Modbus simulator on a faulty bus | `Modbus` |
| `ModbusBus_proofs` | theorems about `ModbusBus` | TLAPS |
| `MCModbusBus` | instance: two registers read, one written | |
| `TemperatureLoop` | `loop()` of the temperature firmware, its sensors, settings and link | `Temperature` |
| `TemperatureLoop_proofs` | theorems about `TemperatureLoop` | TLAPS |
| `MCTemperatureLoop` | instance: three sensors for two registers | |
| `NumberLemmas` | least and greatest numbers, and arithmetic of a clock that wraps; used by the proofs of the loops, the rules and the server | TLAPS |

`AdminPanel` extends the abstract `SessionTable`, not `SessionStore`: what it
needs of the server is only what the refinement gives it.

Definitions marked "Broken variant" are not part of the specifications. Each is
a plausible bug in the definition that follows it, kept to show which property
would notice that bug.

### RulesEngine

The monitor thread runs `loadRules` once and then passes (`evaluateRules`); the
command thread serves one request at a time. `lock` is `rulesMutex`. A pass is
many steps: one per rule, per condition input, per compare value, per command,
and two for a save (truncate, then write), since the server's variables and the
file are reached by the other thread without `rulesMutex`. `at`, `step`, `held`,
`modified` and `loaded` are the locals of a thread; `pc` says where it is.

* `LoadRead`/`LoadInstall` are `loadRules`: the file is read before the mutex is
  taken, a file that cannot be parsed leaves the rules alone, a missing one
  clears them.
* `EvaluateBegin`, `EvaluateRule`, `ReadInput`, `CompareInput`,
  `ExecuteRuleCommand`, `CommandsDone`, `EvaluateEnd` are `evaluateRules`;
  `Verdict` is lines 986-992, where the edge is detected.
* `HandleSetEnabled`, `HandleExecute`/`ExecuteDone`, `HandleGetRules`,
  `HandleSetVar` are the requests; `Forward` is the fall-through of a refused
  request to a broadcast.
* `SaveOpen`, `SaveWrite`, `SaveFails` are `saveRules`. A write error may or may
  not be noticed, because the stream's state is returned before it is flushed.
* `Crash` keeps the file. `spent` and `sent` are history.

Data: register values are integers in tenths, so the tolerance of 1e-6 in
`evaluateConditionValue` is equality; a time of day is any element of
`DayTimes`; the text of a command is its number. The relay replay and operators
also switch plugs and are not part of this module: `sent` is what the rules
sent.

### InverterLoop

One iteration is `CheckMonitorConnection` and `Scan`, with commands before each
(serial and log client first, the monitor server after). `now` is read once per
iteration, as in the code; `clock` is `millis()` itself, which `connectToWiFi`, an
attempt to reach the monitor server (`ConnectToMonitorServer`: the blocking
`monitorClient.connect` of the link check and of `HOST`) and a register read or
written by command move on before the scan's read of the same iteration. `Elapsed` is `timeHasElapsed`
with its signed difference. `Scan` restarts complete scans that are due and then
makes at most one read (`ReadMonitor`, `ReadControl` or `ReadNothing`).
`ReadControl` ends a control scan with the station retry. The status of the
station is that of the router while the device is in station mode (the WiFi
library reconnects by itself; this is external). An `Outage` ends the link at once;
on the device `connected()` may report a half-open link for a while, during which
the link check does nothing, as in an iteration in which it is not due; that this ends
is assumed. `since`,
`gap` and `late` are history: the time since the last read of a scan, the spacing
in force at that read, and how long it came after the top of its iteration.

`Commit` writes all that is dirty in the EEPROM buffer, so a setting whose own
commit failed is stored by the next one that succeeds.  `Starts` lists what is
combined in one behaviour: credentials or none, which commands clients send, and
how many commands, outages and reboots there may be (`kinds` and `left`).

Left out: commands that touch neither the scans nor the link (`SIM`, `RELAY`,
`SETIP`, `OTA_URL`; an update ends in a `Reboot` or changes nothing).

### MonitorServer

`socket` is the process's descriptor table: `Open` gives out the lowest free
number and `Close` closes whatever is behind a number now, as the system does.
`clients`, `stale`, `partial` and `readSet` are the code's `clients`,
`staleClients`, `partialLines` and `readSet`; `lock` is `clientsMutex`, and `pos`
is the position of the loop that holds it. A turn of `serverLoop` is `Snapshot`,
`Select`, `Accept` and `Push`, `ReceiveBegin`, one `ReceiveFrom` per client,
`ReceiveEnd`, one `RemoveClient` per stale client, and `Evaluate`; every gap
between two of them where the code holds no mutex is open to the other threads.
`BroadcastBegin`, `SendNext` and `BroadcastEnd` are `broadcastToClients` on the
monitor thread (a rule that sends), the console thread or the command thread.
`ReceiveFrom` has no enabled disjunct where `recv` would block.

A device's text is lines, or heads and tails of lines; what they say is left to
the rules engine. `env` is fixed in the initial state and says what the
environment may do: HTTP clients may connect, devices may leave inside a line, a
device that left may answer a send by a reset (after which the next send
fails).

The safety properties hold in all environments, because each names the exceptions
the code has, by three history variables. `cut` holds the descriptors that
broadcasts closed since `serverLoop` copied the list: only these can make `select`
fail (`MonitorGoesOn`) or `recv` block (`RecvNeverBlocks`). `damaged` holds the pairs
of devices of which a line was put together that nobody sent: the first of the
two must have been cut off (`LinesWhole`). `stray` is set when `removeClient` closes
a descriptor a second time after it went to an HTTP client: `ClientsMatch` says
that this takes resets and HTTP clients together, and the other properties hold
until it happens, since after it any descriptor may be anybody's. After a stray
close a device can get the descriptor of an HTTP connection that is still being
served, and the other way round; the model goes on there, with one simplification:
`recv` on an HTTP connection that is listed as a client blocks.

Left out: sends that block, the connections of the authorisation thread (they
only take descriptors, as HTTP connections do), a device that leaves or sends
before it is accepted, and more than one broadcast per pass or request.

### SessionTable and SessionStore

`SessionTable` says what clients rely on: an id begins one session, a use renews
it, and only a session idle for longer than the lifetime ends. `SessionStore` is
the code, and `Table == INSTANCE SessionTable WITH ...` in it is the refinement
mapping (the table's variables are the store's own). `removeExpiredSessions` is four steps, since the clock and the static
time of the last cleanup are read and written without a mutex: `ReadClock`,
`CompareCleanup`, `ClaimCleanup`, and `Sweep` under `sessionsMutex`. `cutoff` is the
local `now` of a thread. `SelectTimeout`, `ReceivePassword` and `OpenSession` are
`authorizationServerLoop` and `handleAuthorizeRequest`; `ReceiveCommand`, `Lookup`
and `Act` are `handleCommandRequest`, for commands and uploads. Times are in
units of the model; `lastCleanup` is read and written whole (no torn reads of
the 64-bit static). An id is 512 bits long, but `generateSessionId` (utils.hpp:69)
derives it from one 32-bit seed, so there are 2^32 ids at most: that none is given
out twice is an assumption of the model.

### AdminPanel

Every request is a record of `calls`: sent, answered, handled. Any number of
things may happen in between, so answers are handled in any order and in any
state of the page. `ExpireAdminSession` and `ResetAdminSessionTimer` are the
functions of that name; `timers` holds the due times of the timers that run
(the timeout and the countdown interval of one session count as one).
`unheard` is history: the sessions of which the server saw a use that did not
restart the page's timer. A request that broke on its way (`Break`) may still reach
the server (`ServeLost`): the use of a session then renews it, or a password opens a
session, and nobody is told. `lost` says which sessions such requests name; since
several requests may have broken, none is taken off. The page's clock and the server's are the same; the
lifetime and the page's timer are both five minutes in the code, one unit here.

### ModbusBus

The firmware has one request on its way (`task`) and takes the first answer with
its function (`Receive`), or none in time (`Timeout`); the ModbusMaster library
is external. The simulator's loop is `ReadAvailable`, then `SkipByte`,
`IgnoreRequest` or `Serve` while its buffer holds eight bytes. A byte is a
request and a place in it, or noise; a checksum never fits by accident. `Damage`
and `Disturb` lose, change and add bytes; a `Timeout` while something is under way
is a stall of the simulator, whose answer then comes too late. `hurt` and
`outcome` are history.

### TemperatureLoop

As `InverterLoop`, with one scan and without serial commands. `Detect` is
`detectTemperatureSensors`: the bus is searched in any order, the first
`deviceCount` sensors (counted by `sensors.begin` at the start only) are looked
at, those that answer are sorted and given registers. `UpTo(n, S)` are the sets
that a loop that stops at `n` can have taken of `S`, and `InOrder(S)` what sorting
makes of `S`, so that the order of the search is a choice of sets. `HandleWifi`, `HandleHost`
and `HandleDetect` are the commands, `Reboot` also loses power in the middle of a
commit. `seen` and `assigned` are history. The retry time of the access point is
left out: the code sets it and never reads it.

## 3. Runs

| Run | Shows | Bounds |
|---|---|---|
| `RulesPump` | `TypeOK`; the hysteresis pair of the example file is never both armed or both disarmed and the pump agrees with the armed rule; memory agrees with the file; a low battery gets the pump off for good; requests are answered; passes go on | 3 voltages (both thresholds and one between), 1 crash, 1 failed write; clients execute rules, or enable them without crashes |
| `RulesCommands` | the mutex protocol; no save leaves half a file; one firing per edge | 3 rules, 1 variable within -1..1 plus one step, 1 crash, 1 failed write, 1 edit, all six request kinds |
| `RulesReloadRace` | counterexample to `MemoryMatchesFile` | reloads only |
| `Inverter` | `TypeOK`; reads are scheduled no further ahead than a setting says; spacing between reads; both scans complete for ever; the device comes back on line | clock of 32, reads and commands of up to 2, attempts to reach the server of up to 1, spacing of 2 or 3, 2+2 registers, 1 command, with 1 reboot (settings) or 1 outage (`HOST`) |
| `InverterStall` | counterexample to `PollingOnSchedule` | one `WIFI` command |
| `MonitorSafe` | `TypeOK`; what a stray close takes and, until one happens: the client list is the devices' open descriptors; answers reach their client; lines are damaged only by the rest of a device that was cut off; `recv` blocks and `select` fails only on a descriptor that a broadcast closed | 2 devices with 1 line each, 1 HTTP client, 2 descriptors, 3 environments: HTTP clients; resets; both with devices that leave inside a line |
| `MonitorLive` | devices are accepted, heard and closed; shutdown ends | 1 device with 2 lines, 1 HTTP client, 2 descriptors, no resets |
| `MonitorHalted` | counterexample to `ConnectionsAccepted` | as `MonitorSafe`, resets only |
| `Sessions` | `TypeOK`; the table of sessions is implemented; nothing outlives a finished cleanup; how long an idle session is still accepted; idle sessions are removed | 2 sessions, lifetime 1, interval 2, times up to 6 |
| `Panel` | the page's timer outlasts every use it was told of; it gives up a session that is still good only for a cause | 2 sessions, 2 requests at a time and any number that broke, times up to 3 |
| `Modbus` | `TypeOK`; no register of the firmware is unknown to the simulator; intact requests are answered; reports are true; late answers do not stay ahead for ever | 2 registers read, 3 written, simulator with the right or a wrong id, 1 fault, 1 stall |
| `Temperature` | `TypeOK`; a register keeps its sensor; every sensor that answers is mapped; the scan keeps its interval; reports go on | clock of 12, 3 sensors, 2 registers, 2 commands, 1 outage, 2 sensors plugged in or out, 1 reboot |

Why the bounds are enough. The rules engine has two threads and one request at a
time; a race needs one pass and one request, and every run lets both repeat
without limit. One crash can hit any step; one failed write can hit any save. In
the loop only differences of times matter, apart from the value 0: a clock of 32
is more than twice every delay in the run, and it wraps without limit in every
run. Two registers per scan are the fewest that have a first, a next and a last.

The settings of `Inverter` keep the proportions of the defaults and leave room
for a control read between two monitor scans: the code does not ask for that,
and a `MON_SCAN_MS` no longer than `REG_SPACING_MS` starves the control scan.
Liveness also needs the control scan's period to be under half the clock's
range; on the device it is a minute against 24 days, here 8 of 16, and an outage
together with a `WIFI` command, which starts the scans again, would take longer
than that. This is why they are taken one at a time. `ReadsSpaced` excludes the
first read of a scan, which the code starts without regard to the other scan. It
measures the spacing from the top of the iteration of the earlier read, as the
code plans it (`now + registerReadSpacingMs`): what the link check
(inverter.ino:1132), `HOST`, `WIFI`, `READ` or a write took in that iteration before
the read (`late`) is missing from the spacing between the two reads, and a connect
that takes seconds leaves none of the 300 ms. The property says that nothing else
is missing; in the run a connect can take half of a spacing of 2, and a command all of it.
`ScansOnSchedule` excludes `WIFI` commands, with which
it does not hold (`InverterStall`).

In the monitor server two devices and two descriptors let a number pass from
one device to another or to an HTTP client, and let the numbers run out; the
console broadcasts without limit. That is enough for every exception the
properties name: in the third environment there are states with a stray close,
with an answer that would go to a device after one, with a line put together from
two devices, with a `recv` that blocks on a descriptor a broadcast closed, and with
a monitor thread that stopped at `select`. `MonitorLive` leaves resets out, since
`ConnectionsAccepted` fails with them (`MonitorHalted`).

A race of the two session threads needs one cleanup of each and one session
older and one younger than its lifetime; time up to 6 is enough for two cleanups
after a session expired. In the panel two requests are the fewest whose answers
can be handled in the other order. One fault and one stall on the bus leave the
rest of one frame in the buffer, or an answer that is one request late; `Request`
may then be repeated without limit. Three sensors for two registers are the
fewest that leave one out, and two changes take a sensor away and bring another.
A clock of 12 wraps without limit and its half is twice the scan interval.

## 4. Fairness

`RulesEngine!FairSpec` asks strong fairness of each thread. Both are operating
system threads in endless loops, and `rulesMutex` is free between passes (select
waits up to a second) and between requests, so a waiting thread gets it. It also
says that a blocking system call returns. Requests, values and failures are not
fair. `RulesPump!PumpSpec` has the same fairness and fixes, in the initial state,
what clients do besides reading (`clients`). `MonitorServer!FairSpec` asks strong fairness of the monitor thread,
the command thread and a broadcast of the console, for the same reason; nothing
makes the console read, HTTP clients connect or devices send.
`InverterLoop!FairSpec` and `TemperatureLoop!FairSpec` ask weak fairness of the
iteration: the Arduino core calls `loop()` for ever. `SessionStore!FairSpec` asks
weak fairness of both threads, which wait a second for a client at the most; it
leaves out a client that connects and sends nothing, on which the authorisation
thread would wait for ever (`recv` has no timeout). `ModbusBus!FairSpec` asks it
of the simulator's loop and of the firmware waiting for an answer; requests,
faults and time on the server are not fair.

## 5. Proofs

Every theorem is about `Spec` (`PanelSpec` in the panel, `PumpSpec` for the pair of
rules; fairness plays no part) and every value of the constants that meets the
named assumptions of the module; where one needs more, it says so
(`ASSUME ... PROVE`) and this section says why the code meets it. Each rests on an
inductive invariant, which TLC checked on the instance before it was proved.

| Theorem | States | Needs besides the constants' assumptions |
|---|---|---|
| `RulesEngine_proofs!TypeInvariant` | `TypeOK` | |
| `LockProtocolHolds` | `LockProtocol` | |
| `FiresOncePerEdgeHolds` | `FiresOncePerEdge` | rules of one file have different ids |
| `FileWholeHolds` | `FileWholeAfterSave` | |
| `MemoryMatchesFileHolds` | `MemoryMatchesFile` | nobody sends `RELOADRULES` |
| `PairHandsOverHolds` | `PairHandsOver` | files begin with the pair, one of it enabled (`PairFiles`), the pump's relay exists, nobody sends `RELOADRULES` or `DISABLERULE` (`NoSwitching`) |
| `SessionStore_proofs!SessionTypes` | `TypeOK` | |
| `NothingOverdue` | `Swept` | |
| `Acceptance` | `AcceptedInTime` | |
| `Implementation` | `TableSpec` (the refinement) | |
| `AdminPanel_proofs!PageOutlastsUseHolds` | `PageOutlastsUse` | |
| `ClosesForCauseHolds` | `ClosesForCause` | |
| `MonitorServer_proofs!ServerTypes` | `TypeOK` | |
| `ClientsMatchHolds`, `AnswersReachClientHolds`, `LinesWholeHolds`, `RecvNeverBlocksHolds`, `MonitorGoesOnHolds` | the property of that name | |
| `InverterLoop_proofs!LoopTypes` | `TypeOK` | |
| `ReadsSpacedHolds` | `ReadsSpaced` | no spacing over half the range of `millis()` |
| `ScansOnScheduleHolds` | `ScansOnSchedule` | iterations take `T` at most, `Room(T)` |
| `TemperatureLoop_proofs!LoopTypes` | `TypeOK` | |
| `MappingStableHolds`, `AllMappedHolds` | the property of that name | |
| `ScanOnScheduleHolds` | `ScanOnSchedule` | iterations take half the range at most |
| `ModbusBus_proofs!NoExceptionsHold` | `NoExceptions` | |
| `BusTypesHold` | `TypeOK` | |
| `IntactAnsweredHolds` | `IntactAnswered` | |
| `OutcomesTrueHolds` | `OutcomesTrue` | |

### Rules engine

`LockProtocol` (a thread is at a critical location exactly when it holds the
mutex) is not inductive by itself: an action's guard says where one thread is,
and the monitor's locations ("rule", "input", "compare") must be known to be out
of the command thread's reach. The inductive invariant is
`IInv == TypeOK /\ LockProtocol /\ Places`, where `Places` says which locations each
thread may be at and that an index in use is in range.

`FiresOncePerEdge` rests on `EdgeInv`: the rules in memory keep different ids, and a
rule in `spent` has a verdict TRUE that only the recorded events can clear.
Without different ids the statement is false, since rules with one id share one
verdict.

For the file the invariant is `FileInv`. `PartialIsBeingWritten`: only a thread at
its write leaves a partial file, until a write fails or the server crashes; that
gives `FileWholeAfterSave`. `LoadsFromFile`: while the monitor thread loads at the
start there are no rules in memory, so nothing the command thread could change or
save, and what is loaded stays what the file says. `SavedOrPending`: memory and
file differ only while the holder of the mutex has changed a rule and will save.
The theorem for `MemoryMatchesFile` assumes that no request is `RELOADRULES`. This is
what the code needs: with reloads the property fails (`RulesReloadRace`, section 6).
`RulesPump`, where TLC checks the property, meets the assumption; crashes, failed
writes and edits are in the theorem.

`PairHandsOver` says that one rule of the example's pair is armed, and the one that
would change the pump. `RulesPump` checks it for the file that is shipped; the theorem
holds for every file that is empty or begins with the two rules, one of them enabled
(`PairFiles`): their conditions may be any, and rules may follow that do not name the pair in an `enable` or `disable`,
nor the pump's relay in a `send`. Operators may put such files in place at any time,
and there may be any number of crashes and failed writes and any values. `ExampleFits`
says that the shipped file is one of them. The requests of the run meet `NoSwitching`,
and `PumpSpec` keeps `ENABLERULE` out where the property speaks; a request that arms
or disarms one rule breaks the pair by intention. The pair is not settled while
one of its rules runs, and what has been done by then depends on the command: in
`PairInv` a thread is `Midway` after it switched the pump and before it armed the other
rule, and `HandingOver` says what it has done. The last command settles the pair
whatever it was before, so `EXECUTERULE` of the rule that is not armed is covered
too. A pass and a request cannot both be midway, since both hold the mutex
(`IInv`); a crash midway leaves a file with one rule armed, since only a settled
pair is saved (`PairEverywhere`); and a new process sends nothing before it has
loaded its rules (`SilentWhileLoading`), so that at the first start whichever
rule the file arms agrees with a pump nobody has switched.

### Sessions and the panel

The inductive invariant of `SessionStore` is
`IInv == TypeOK /\ Readings /\ Swept /\ LookupFresh`: `Readings` says that no reading
of the clock is ahead of `now`, and `LookupFresh` what the command thread knows at
the lookup: no session is overdue by its `cutoff`, or the other thread has claimed
a cleanup and not yet swept. In the refinement initial states are equal on the
table, and every step is one of the table's or leaves it alone. The step that needs
the invariant is `Sweep`: a session it removes must have been idle for the lifetime
by the table's clock, which is so because `cutoff`, read before the mutex was
taken, is not ahead of `now`.

`PanelInv` relates the page, the requests on their way and the server: the page has
at most the one timer it set last (`OneTimer`); a refused session is gone for good
and a failed use is on record (`StatusesTold`); and the session an authorisation
is about to hand over is known to nobody else (`HandedOverOnce`), so that no late
answer of an earlier session can be about it. Answers are handled in any order and
there may be any number of requests.

### Monitor server

`ServerInv` has no hypothesis about the environment. In every state it has `Protocol`
(where each thread may be, and who holds `clientsMutex`), `Sockets` (a descriptor in
use has one connection), `Causes` (a broadcast closes a client only after a reset,
and a stray close needs an HTTP client too) and `Lines` (what is kept of a partial
line belongs to the device that has the descriptor, and then its rest is on the way,
or to one that was cut off). Until a stray close it has three parts more: `Listed`
(the list of clients is the devices' open descriptors, each once; the request being
served still has its descriptor), `Ready` (what `select` returned is still so when
`recv` is called, though the mutex was free in between, but for the descriptors in
`cut`) and `Leaving` (a client found stale is still listed, or in `cut`, so that a
second close outside `cut` cannot happen). They hold for any number of devices,
clients, descriptors and lines.

### Firmware loops

Times are numbers modulo `Wrap`, as `millis()` is; `NumberLemmas` has what the proofs
need of them (where a target is that was planned ahead or has passed, and what
becomes of it when the clock moves on).

`ReadsSpaced` rests on `LoopInv == LoopTypeOK /\ Spaced`: within a scan the read that
comes next is planned at least a spacing after the top of the last one's iteration
(`Waits`, over `since`, `gap` and `late`), and a control scan under way waits for the
monitor scan. It assumes that no spacing in use is over half the range of `millis()`
(24.8 days; the default is 300 ms): `timeHasElapsed` takes a read planned further
ahead for one that is overdue.

`ScansOnSchedule` is about times that have passed as well: a read that is overdue by
more than half the range looks like one far ahead. The invariant `OnTime(T)` gives
for both scans a bound on how long a read can have been due. A control read waits
while a monitor scan is under way, for `Latest(T, i)` at most when `i` reads of it
are done. The theorem assumes that an iteration with its commands takes `T` at most
(`Timely(T)`; nothing in the code bounds a blocking call, so this is a hypothesis
about the behaviour, `Spec /\ []Timely(T)`), and that half the range has room for
one monitor scan (`Room(T)`). With the defaults (60 s, 5 s, 300 ms), six monitor
registers and iterations of up to a minute, that is some six minutes of 24.8 days.
The instance meets both with `T = 4`: there `2 * Latest(4, 1) = 26 < 32`. The theorem
leaves out `WIFI` commands, with which the property is false (`InverterStall`).

In the temperature firmware a scan that is due is read in the same iteration, so
`ScanOnSchedule` needs only that an iteration stays within half the range. The
sensors' part, `SensorInv`, says that every set of sensors that was ever found has
been given its registers in the order of their addresses; a set has one order only
(`InOrder`), whatever the order of the search.

### Modbus bus

`NoExceptions` is a fact about the register tables of the two programs. The other
two rest on `BusInv == BusTypes /\ Intact /\ InTime`, over the bytes sent to the
simulator and not dealt with (`Pending`, the buffer and the line):

* `Intact`: a request that met no fault stands whole among them until it is
  answered, so the search for a frame, which drops one byte at a time, comes to it.
* `InTime`, without stalls: no eight of the bytes, however many are lost between
  them, are a request other than the one that waits, and behind that one there is
  only noise; the one answer on its way is damaged or true. The part about lost
  bytes is needed because `Damage` and `SkipByte` take bytes away: an invariant about
  the bytes that are next to each other is not inductive.

The theorems allow any number of faults and, for `IntactAnswered`, of stalls. That a
checksum never fits by accident is part of the model (section 2).

### Model-checked only

* Liveness: `RequestAnswered`, `PassCompletes`, `ScansComplete`, `Reconnects`,
  `ReportsGoOn`, `Resynchronises`, `IdleRemoved`, `ConnectionsAccepted`,
  `DevicesServed`, `Shutdown`, `PumpStopsWhenLow`. Fairness and ENABLED are out of
  the prover's reach.
* The counterexamples of section 6.

## 6. Findings

* `RulesReloadRace`: `RELOADRULES` can install rules the file no longer holds.
* `InverterStall`: `WIFI` after 24.8 days of uptime stops all polling until
  `millis()` wraps.
* `MonitorHalted`: a client closed by a broadcast just before `select` ends the
  monitor thread, and the server goes on without it.

Not counted as findings: a crash between a rule's commands and the save leaves
the pump in a state the restored rules do not match (`PairHandsOver`
excludes crashes); a crash in a save leaves a file that does not parse
(`FileWholeAfterSave` excludes crashes); the server then runs with no rules. A
rule that disabled itself keeps its verdict and misses its next trigger if
`EXECUTERULE` of another rule enables it before the next pass (rules.hpp:992;
`PumpStopsWhenLow` excludes `EXECUTERULE`). `MON_SCAN_MS` no longer than
`REG_SPACING_MS` stops control polling (inverter.ino:1162). An answer that comes
after the library's timeout is taken for the next read (`OutcomesTrue` excludes
stalls, `Resynchronises` says it ends). A late 401 for an earlier session closes
the panel of the next one (`ClosesForCause` names it). A client that leaves inside a
line spoils the first line of the next device with its descriptor (`LinesWhole`
names it), and one that is closed by a broadcast while the monitor thread is about
to read or remove it can make that thread block or close somebody else's connection
(`RecvNeverBlocks` and `ClientsMatch` name them). The temperature device
does not leave its access point by itself (temperature.ino:226). In its own
simulation mode the inverter firmware has a value for register 25210, while its
table has 25212, which therefore reads 0 (inverter.ino:515).

## 7. Not modelled

* Relays and plugs: `plug_switch.py` drives a plug through a library; the replay
  every five minutes may be stale, but the repository says nowhere which of the
  three copies of a relay's state should win.
* Blocking sends under `clientsMutex` and `rulesMutex`: with them no liveness
  property of the server holds, by the design of the code.
* `registers.hpp` and the charts: output, which nothing else depends on.
* The numbering of rules without an id, the parsing of lines, JSON and HTTP
  (a Content-Length that is not a number included): conversions of text.
* The monitor simulator: it repeats the firmware's handlers on a file.
* `SIM`, `SETIP`, `RELAY` and `OTA_URL` of the inverter; `addRule` and `deleteRule`,
  which nothing calls.
* The shutdown of the authorisation thread (that of the other three is in
  `MonitorServer`).

Every invariant, action property and refinement that a passing run checks is proved.
What remains is liveness, which only the runs of section 3 check.
