--------------------------- MODULE TemperatureLoop ---------------------------
(***************************************************************************)
(* The temperature firmware (temperature/temperature.ino): one loop that   *)
(* serves the commands of the log client and of the monitor server,        *)
(* watches the link to that server and reports every sensor's temperature  *)
(* at an interval.  Register 10000 + i is the sensor with the i-th lowest  *)
(* address among those found by the last detection.                        *)
(*                                                                         *)
(* Times are values of millis(), which wraps at Wrap (2^32 on the device). *)
(***************************************************************************)
EXTENDS Integers, Sequences, FiniteSets, SequencesExt

CONSTANTS
  Wrap,              \* millis() runs from 0 to Wrap - 1
  MaxTick,           \* the longest an iteration takes
  ConnectTime,       \* the longest connectToWiFi waits
  ScanInterval,      \* TEMPERATURE_SCAN_INTERVAL_MS
  ConnectionCheck,   \* MONITOR_CONNECTION_CHECK_INTERVAL_MS
  Sensors,           \* the addresses of the sensors there are
  MaxSensors,        \* MAX_TEMPERATURE_SENSORS
  Starts,            \* what is considered at the start: is the EEPROM blank, the
                     \* sensors on the bus and, as a bound, how many commands,
                     \* outages of the router or the server, sensors plugged in
                     \* or out, and reboots there may be
  MaxMissed          \* bound: sensors that do not answer a detection

Times == 0 .. Wrap - 1

ASSUME TimeAssumption ==
  /\ Wrap \in Nat /\ Wrap > 1 /\ Wrap % 2 = 0
  /\ {MaxTick, ConnectTime, ScanInterval, ConnectionCheck} \subseteq Times \ {0}
ASSUME SensorsAssumption ==
  /\ Sensors \subseteq Nat /\ IsFiniteSet(Sensors) /\ MaxSensors \in Nat
ASSUME BoundsAssumption ==
  /\ Starts \subseteq
       [blank : BOOLEAN, present : SUBSET Sensors,
        left : [commands : Nat, outages : Nat, plugs : Nat, reboots : Nat]]
  /\ MaxMissed \in Nat

VARIABLES
  clock,                \* millis()
  now,                  \* millis() as the current iteration read it at its top
  pc,                   \* "log": before the log client's commands; "orders":
                        \* before the monitor server's
  ssid, host,           \* are wifiSSID and monitorHost set?
  stored,               \* the same in the EEPROM
  mode,                 \* WiFi.getMode()
  linked,               \* monitorClient.connected()
  nextMonitorConnectionCheckTime, nextTemperatureScanTime,
  router, server,       \* are the router and the monitor server up?
  present,              \* the sensors on the bus
  deviceCount,          \* how many there were at the start (sensors.begin)
  connectedSensors,     \* connectedSensorAddresses
  seen,                 \* history: the sensors on the bus at the last detection,
                        \* and those of them that did not answer
  assigned,             \* history: each set of sensors detected so far, as the
                        \* registers were first assigned to it
  left                  \* how often each bounded event may still happen

config  == <<ssid, host, stored>>
wifi    == <<mode, linked>>
times   == <<nextMonitorConnectionCheckTime, nextTemperatureScanTime>>
peers   == <<router, server>>
found   == <<connectedSensors, seen, assigned>>
sensors == <<present, deviceCount, found>>
vars    == <<clock, now, pc, config, wifi, times, peers, sensors, left>>

Orders == {S \in SUBSET Sensors : Cardinality(S) <= MaxSensors}

TypeOK ==
  /\ {clock, now, nextMonitorConnectionCheckTime, nextTemperatureScanTime}
       \subseteq Times
  /\ pc \in {"log", "orders"}
  /\ {ssid, host, linked, router, server} \subseteq BOOLEAN
  /\ stored \in [ssid : BOOLEAN, host : BOOLEAN]
  /\ mode \in {"STA", "AP"} /\ (linked => mode = "STA" /\ router /\ server)
  /\ present \subseteq Sensors /\ deviceCount \in 0..Cardinality(Sensors)
  /\ Len(connectedSensors) <= MaxSensors
  /\ ToSet(connectedSensors) \in DOMAIN assigned /\ DOMAIN assigned \subseteq Orders
  /\ left \in [commands : Nat, outages : Nat, plugs : Nat, reboots : Nat]
  /\ seen \in [bus : SUBSET Sensors, missed : SUBSET Sensors]

Spend(event) == left[event] > 0 /\ left' = [left EXCEPT ![event] = @ - 1]

Missed == {S \in SUBSET present : Cardinality(S) <= MaxMissed}

----------------------------------------------------------------------------
(* Time, and the link to the monitor server.                               *)

\* (Broken variant: a counter that does not wrap.)
AfterUnwrapped(t, duration) == t + duration

After(t, duration) == (t + duration) % Wrap

\* (Broken variant: two readings of millis() compared as numbers.)
ElapsedAsNumbers(t, target) == t >= target

\* timeHasElapsed: the difference, taken as a signed number, is not negative.
Elapsed(t, target) == (t - target) % Wrap < Wrap \div 2

\* connectToMonitorServer
ConnectToMonitorServer(hasHost) ==
  linked' = (linked \/ (hasHost /\ mode = "STA" /\ router /\ server))

\* connectToWiFi drops the link.  The access point is left by a WIFI command or a
\* restart only: the time set for another attempt is never looked at.
ConnectToWiFi(hasSSID, hasHost) ==
  IF hasSSID /\ router
  THEN mode' = "STA" /\ linked' = (hasHost /\ server)
  ELSE mode' = "AP" /\ linked' = FALSE

----------------------------------------------------------------------------
(* The sensors.                                                            *)

\* (Broken variant: the registers follow the order of the search.)
InOrderFound(S) == SetToSeqs(S)

\* qsort with compareSensorAddresses: the sensors of S, from the lowest address on.
InOrder(S) == {s \in SetToSeqs(S) : \A i, j \in DOMAIN s : i < j => s[i] < s[j]}

\* What a loop that stops at n may have taken of S, whose order is not known.
UpTo(n, S) == kSubset(IF n < Cardinality(S) THEN n ELSE Cardinality(S), S)

\* detectTemperatureSensors with n devices counted: the first n that a search of
\* the bus comes to, in any order, are looked at; missed do not answer well and
\* are left out, and so is what is more than MaxSensors.
Detect(n, missed) ==
  \E looked \in UpTo(n, present) : \E S \in UpTo(MaxSensors, looked \ missed) :
    /\ connectedSensors' \in InOrder(S)
    /\ seen' = [bus |-> present, missed |-> missed]
    /\ assigned' = [T \in DOMAIN assigned \union {S} |->
                      IF T \in DOMAIN assigned THEN assigned[T] ELSE connectedSensors']

\* A sensor is plugged in or out; the loop does not notice.
Plug ==
  /\ Spend("plugs")
  /\ \E x \in Sensors :
       present' = IF x \in present THEN present \ {x} ELSE present \union {x}
  /\ UNCHANGED <<clock, now, pc, config, wifi, times, peers, deviceCount, found>>

----------------------------------------------------------------------------
(* The loop.                                                               *)

\* (Broken variant: the link is checked when no check was made yet.)
CheckMonitorConnectionOnce ==
  /\ pc = "log" /\ pc' = "orders"
  /\ IF mode = "STA" /\ router /\ nextMonitorConnectionCheckTime = 0
     THEN /\ nextMonitorConnectionCheckTime' = After(now, ConnectionCheck)
          /\ ConnectToMonitorServer(host)
     ELSE UNCHANGED <<linked, nextMonitorConnectionCheckTime>>
  /\ UNCHANGED <<clock, now, config, mode, nextTemperatureScanTime, peers, sensors,
                 left>>

CheckMonitorConnection ==
  /\ pc = "log" /\ pc' = "orders"
  /\ IF mode = "STA" /\ router /\ Elapsed(now, nextMonitorConnectionCheckTime)
     THEN /\ nextMonitorConnectionCheckTime' = After(now, ConnectionCheck)
          /\ ConnectToMonitorServer(host)
     ELSE UNCHANGED <<linked, nextMonitorConnectionCheckTime>>
  /\ UNCHANGED <<clock, now, config, mode, nextTemperatureScanTime, peers, sensors,
                 left>>

\* The end of an iteration and the top of the next, which reads millis().
NextIteration ==
  /\ pc = "orders" /\ pc' = "log"
  /\ \E d \in 1..MaxTick : clock' = After(clock, d) /\ now' = clock'
  /\ UNCHANGED <<config, wifi, nextMonitorConnectionCheckTime, peers, sensors, left>>

ScanDue == nextTemperatureScanTime = 0 \/ Elapsed(now, nextTemperatureScanTime)

\* The temperatures of the sensors are read and reported, if there are any and
\* the server is linked.
Scan ==
  /\ ScanDue /\ NextIteration
  /\ nextTemperatureScanTime' = After(now, ScanInterval)

NoScan == ~ScanDue /\ NextIteration /\ UNCHANGED nextTemperatureScanTime

----------------------------------------------------------------------------
(* Commands, from the log client before the link is checked, from the      *)
(* monitor server after it.                                                *)

Receive ==
  /\ Spend("commands")
  /\ pc = "orders" => linked
  /\ UNCHANGED <<now, pc, nextMonitorConnectionCheckTime, peers, present, deviceCount>>

\* EEPROM.commit writes everything that was changed since the last one that
\* succeeded.
Commit == stored' = [ssid |-> ssid', host |-> host']

\* WIFI: unless the commit fails, the station is tried and a scan forced.
HandleWifi ==
  /\ Receive /\ ssid' = TRUE /\ UNCHANGED host
  /\ \/ UNCHANGED <<clock, stored, wifi, nextTemperatureScanTime>>
     \/ /\ Commit /\ ConnectToWiFi(TRUE, host)
        /\ \E d \in 1..ConnectTime : clock' = After(clock, d)
        /\ nextTemperatureScanTime' = 0
  /\ UNCHANGED found

\* HOST: a link there is is kept.
HandleHost ==
  /\ Receive /\ host' = TRUE /\ UNCHANGED ssid
  /\ \/ UNCHANGED <<stored, linked>>
     \/ Commit /\ ConnectToMonitorServer(TRUE)
  /\ UNCHANGED <<clock, mode, nextTemperatureScanTime, found>>

\* (Broken variant: only as many devices are counted as were mapped before.)
HandleDetectKnown ==
  /\ Receive /\ \E missed \in Missed : Detect(Len(connectedSensors), missed)
  /\ UNCHANGED <<clock, config, wifi, nextTemperatureScanTime>>

\* DETECT: the devices are not counted again.
HandleDetect ==
  /\ Receive /\ \E missed \in Missed : Detect(deviceCount, missed)
  /\ UNCHANGED <<clock, config, wifi, nextTemperatureScanTime>>

----------------------------------------------------------------------------
(* The environment, and the start of the device.                           *)

\* The router or the server goes away or comes back: the link is lost.
Outage ==
  /\ \/ router' = ~router /\ UNCHANGED server
     \/ server' = ~server /\ UNCHANGED router
  /\ IF router' /\ server' THEN UNCHANGED left ELSE Spend("outages")
  /\ linked' = FALSE
  /\ UNCHANGED <<clock, now, pc, config, mode, times, sensors>>

\* setup(): RAM is cleared, the settings come from the EEPROM, and the devices on
\* the bus are counted.
Setup ==
  /\ \E d \in 1..ConnectTime : clock' = d % Wrap
  /\ now' = clock' /\ pc' = "log"
  /\ ssid' = stored'.ssid /\ host' = stored'.host
  /\ nextMonitorConnectionCheckTime' = 0 /\ nextTemperatureScanTime' = 0
  /\ ConnectToWiFi(ssid', host')
  /\ deviceCount' = Cardinality(present)
  /\ \E missed \in Missed : Detect(Cardinality(present), missed)
  /\ UNCHANGED <<peers, present>>

\* Power may be lost while a WIFI or HOST command erases and writes the EEPROM.
Reboot ==
  /\ \/ Spend("reboots") /\ UNCHANGED stored
     \/ /\ {left["commands"], left["reboots"]} \subseteq Nat \ {0}
        /\ pc = "orders" => linked
        /\ left' = [left EXCEPT !["commands"] = @ - 1, !["reboots"] = @ - 1]
        /\ stored' = [ssid |-> FALSE, host |-> FALSE]
  /\ Setup

Init ==
  /\ clock = 0 /\ now = 0 /\ pc = "log"
  /\ \E start \in Starts :
       /\ ssid = ~start.blank /\ host = ~start.blank
       /\ present = start.present /\ left = start.left
  /\ stored = [ssid |-> ssid, host |-> host]
  /\ mode = (IF ssid THEN "STA" ELSE "AP") /\ linked = (ssid /\ host)
  /\ nextMonitorConnectionCheckTime = 0 /\ nextTemperatureScanTime = 0
  /\ router = TRUE /\ server = TRUE
  /\ deviceCount = Cardinality(present)
  /\ seen = [bus |-> present, missed |-> {}]
  /\ \E S \in UpTo(MaxSensors, present) : connectedSensors \in InOrder(S)
  /\ assigned = [S \in {ToSet(connectedSensors)} |-> connectedSensors]

Iterate == CheckMonitorConnection \/ Scan \/ NoScan

Next ==
  \/ Iterate
  \/ HandleWifi \/ HandleHost \/ HandleDetect
  \/ Outage \/ Plug \/ Reboot

Spec == Init /\ [][Next]_vars

\* loop() is called for ever.
FairSpec == Spec /\ WF_vars(Iterate)

----------------------------------------------------------------------------
(* Properties.                                                             *)

\* A register keeps its sensor: detections that find the same sensors, after a
\* DETECT or a restart and whatever order the bus is searched in, give them the
\* same registers (qsort, temperature.ino:280).
MappingStable == connectedSensors = assigned[ToSet(connectedSensors)]

\* Every sensor that answered has a register, also after sensors were taken away
\* and put back, unless there are more than registers, or more than there were at
\* the start: those are not looked for before the next restart.
AllMapped ==
  Cardinality(seen.bus) <= deviceCount /\ Cardinality(seen.bus) <= MaxSensors
    => ToSet(connectedSensors) = seen.bus \ seen.missed

\* The next scan is due or at most an interval away, through every wrap of the
\* counter, WIFI commands and restarts included.
ScanOnSchedule ==
  ScanDue \/ (nextTemperatureScanTime - now) % Wrap <= ScanInterval

\* While the device is a station and router and server stay up, it goes on
\* reporting its sensors to the server: a lost link is made again.
ReportsGoOn ==
  <>[](mode = "STA" /\ router /\ server /\ host /\ connectedSensors # <<>>)
    => []<><<Scan /\ linked>>_vars
=============================================================================
