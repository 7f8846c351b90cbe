---------------------------- MODULE InverterLoop ----------------------------
(***************************************************************************)
(* The main loop of the inverter firmware (inverter/inverter.ino): one     *)
(* iteration reads at most one Modbus register, of the monitor scan or of  *)
(* the control scan, and between reads serves command lines, watches the   *)
(* link to the monitor server and, at the end of a control scan, reports   *)
(* the relays and retries the WiFi station.                                *)
(*                                                                         *)
(* Times are values of millis(), an unsigned counter that wraps at Wrap    *)
(* (2^32 on the device).  An iteration takes 1..MaxTick of it from its     *)
(* read on (a register that does not answer costs far more than one that   *)
(* does), besides what commands and an attempt to reach the monitor server *)
(* take before that.                                                       *)
(***************************************************************************)
EXTENDS Integers

CONSTANTS
  Wrap,              \* millis() runs from 0 to Wrap - 1
  MaxTick,           \* the longest a register write takes, and the part of an
                     \* iteration that begins with its read
  ConnectTime,       \* the longest connectToWiFi waits
  LinkTime,          \* the longest an attempt to reach the server takes
  MonitorCount,      \* monitorRegisterCount
  ControlCount,      \* controlRegisterCount
  Defaults,          \* the timing configuration of a blank EEPROM
  Choices,           \* for each timing setting, the values clients send
  StationRetry,      \* WIFI_STATION_RETRY_INTERVAL_MS
  ConnectionCheck,   \* MONITOR_CONNECTION_CHECK_INTERVAL_MS
  Starts             \* what is considered at the start: are WiFi credentials
                     \* stored, which commands will clients send and, as a
                     \* bound, how many commands, outages of the router or the
                     \* server, and reboots there may be

Settings == {"control", "monitor", "spacing"}
CommandNames == Settings \union {"WIFI", "HOST", "WRITE", "READ"}
Times == 0 .. Wrap - 1
Timing == [Settings -> Times \ {0}]

ASSUME WrapAssumption == Wrap \in Nat /\ Wrap > 1 /\ Wrap % 2 = 0
ASSUME ScanAssumption ==
  /\ MonitorCount \in Nat \ {0} /\ ControlCount \in Nat \ {0}
  /\ MaxTick \in Nat \ {0} /\ ConnectTime \in Nat \ {0} /\ LinkTime \in Nat
  /\ StationRetry \in Nat /\ ConnectionCheck \in Nat
ASSUME TimingAssumption ==
  /\ Defaults \in Timing
  /\ Choices \in [Settings -> SUBSET (Times \ {0})]
ASSUME StartsAssumption ==
  Starts \subseteq [ssid : BOOLEAN, kinds : SUBSET CommandNames,
                   left : [commands : Nat, outages : Nat, reboots : Nat]]

VARIABLES
  clock,                \* millis()
  now,                  \* millis() as the current iteration read it at its top
  pc,                   \* "serial": before the serial and log commands;
                        \* "orders": before the monitor server's commands
  timing,               \* the three settings in RAM
  stored,               \* EEPROM: the settings, and whether there is an SSID
  ssid,                 \* is wifiSSID not empty?
  nextMonitorScanTime, nextControlScanTime,
  monitorScanIndex, controlScanIndex,
  mode,                 \* WiFi.getMode()
  nextWifiStationRetryTime,
  linked,               \* monitorClient.connected()
  nextMonitorConnectionCheckTime,
  router, server,       \* are the router and the monitor server up?
  since,                \* history: time since the last read of a scan,
  gap,                  \* the spacing in force at that read, and how long it
  late,                 \* came after the top of its iteration
  kinds,                \* the commands clients send, in this behaviour
  left                  \* how often each bounded event may still happen

scan   == <<nextMonitorScanTime, nextControlScanTime, monitorScanIndex,
            controlScanIndex>>
config == <<timing, stored, ssid>>
wifi   == <<mode, nextWifiStationRetryTime>>
peers  == <<router, server>>
bus    == <<since, gap, late>>
bounds == <<kinds, left>>
vars == <<clock, now, pc, config, scan, wifi, linked,
          nextMonitorConnectionCheckTime, peers, bus, bounds>>

\* since is not counted beyond the longest spacing.
Longest(setting) ==
  CHOOSE n \in Choices[setting] \union {Defaults[setting]} :
    \A m \in Choices[setting] \union {Defaults[setting]} : m <= n
Capped(n) == IF n > Longest("spacing") THEN Longest("spacing") ELSE n

TypeOK ==
  /\ {clock, now, nextMonitorScanTime, nextControlScanTime,
      nextWifiStationRetryTime, nextMonitorConnectionCheckTime} \subseteq Times
  /\ pc \in {"serial", "orders"}
  /\ timing \in Timing
  /\ stored \in [timing : Timing, ssid : BOOLEAN]
  /\ ssid \in BOOLEAN
  /\ monitorScanIndex \in 0..MonitorCount
  /\ controlScanIndex \in 0..ControlCount
  /\ mode \in {"STA", "AP"}
  /\ {linked, router, server} \subseteq BOOLEAN
  /\ since \in 0..Longest("spacing") /\ {gap, late} \subseteq Times
  /\ kinds \subseteq CommandNames
  /\ left \in [commands : Nat, outages : Nat, reboots : Nat]

Spend(event) ==
  left[event] > 0 /\ left' = [left EXCEPT ![event] = @ - 1] /\ UNCHANGED kinds

----------------------------------------------------------------------------
(* Time.                                                                   *)

\* (Broken variant: a counter that does not wrap.)
AfterUnwrapped(t, duration) == t + duration

After(t, duration) == (t + duration) % Wrap

\* (Broken variant: two readings of millis() compared as numbers.)
ElapsedAsNumbers(t, target) == t >= target

\* timeHasElapsed: the difference, taken as a signed number, is not negative.
Elapsed(t, target) == (t - target) % Wrap < Wrap \div 2

\* Time passes on the bus, from the read of a scan on or without one.
Pass(d, read) ==
  IF read THEN /\ since' = Capped(d) /\ gap' = timing["spacing"]
               /\ late' = (clock - now) % Wrap
          ELSE since' = Capped(since + d) /\ UNCHANGED <<gap, late>>

----------------------------------------------------------------------------
(* WiFi and the link to the monitor server.                                *)

\* connectToWiFi, done at time t: the station if there is an SSID and the
\* router answers, with a first attempt to reach the server; otherwise the
\* access point, and a time for the next attempt.
ConnectToWiFi(t, hasSSID) ==
  IF hasSSID /\ router
  THEN mode' = "STA" /\ linked' = server /\ UNCHANGED nextWifiStationRetryTime
  ELSE /\ mode' = "AP" /\ linked' = FALSE
       /\ nextWifiStationRetryTime' = After(t, StationRetry)

\* connectToMonitorServer: monitorClient.connect blocks, until it has succeeded or
\* given up.  It is not tried without the network, nor where there is a link.
ConnectToMonitorServer ==
  IF ~linked /\ mode = "STA" /\ router
  THEN /\ \E d \in 0..LinkTime : clock' = After(clock, d) /\ Pass(d, FALSE)
       /\ linked' = server
  ELSE UNCHANGED <<clock, bus, linked>>

ConnectionCheckDue ==
  mode = "STA" /\ router /\ Elapsed(now, nextMonitorConnectionCheckTime)

\* (Broken variant: a lost link is noticed and not connected again.)
CheckMonitorConnectionOnly ==
  /\ pc = "serial" /\ pc' = "orders"
  /\ nextMonitorConnectionCheckTime' =
       IF ConnectionCheckDue THEN After(now, ConnectionCheck)
                             ELSE nextMonitorConnectionCheckTime
  /\ UNCHANGED <<clock, now, config, scan, wifi, linked, peers, bus, bounds>>

CheckMonitorConnection ==
  /\ pc = "serial" /\ pc' = "orders"
  /\ IF ConnectionCheckDue
     THEN /\ nextMonitorConnectionCheckTime' = After(now, ConnectionCheck)
          /\ ConnectToMonitorServer
     ELSE UNCHANGED <<clock, bus, linked, nextMonitorConnectionCheckTime>>
  /\ UNCHANGED <<now, config, scan, wifi, peers, bounds>>

----------------------------------------------------------------------------
(* The scans: the second half of loop().                                   *)

\* A complete scan starts again when its time has come.
RestartsMonitor ==
  /\ monitorScanIndex >= MonitorCount
  /\ nextMonitorScanTime = 0 \/ Elapsed(now, nextMonitorScanTime)
RestartsControl ==
  /\ controlScanIndex >= ControlCount
  /\ nextControlScanTime = 0 \/ Elapsed(now, nextControlScanTime)

MonitorIndex == IF RestartsMonitor THEN 0 ELSE monitorScanIndex
MonitorTime  == IF RestartsMonitor THEN now ELSE nextMonitorScanTime

\* (Broken variant: the index is not reset, as if the time alone restarted it.)
ControlIndexKept == controlScanIndex

ControlIndex == IF RestartsControl THEN 0 ELSE controlScanIndex

ControlTime  == IF RestartsControl THEN now ELSE nextControlScanTime

\* (Broken variant: a control scan goes on right after a monitor scan.)
ControlTimeNotSpaced == ControlTime

\* The end of a monitor scan moves a control scan that is under way.
ControlTimeAfterMonitor ==
  IF ControlIndex < ControlCount THEN After(now, timing["spacing"])
                                 ELSE ControlTime

ReadMonitor ==
  LET last == MonitorIndex + 1 = MonitorCount
  IN /\ MonitorIndex < MonitorCount /\ Elapsed(now, MonitorTime)
     /\ monitorScanIndex' = MonitorIndex + 1
     /\ nextMonitorScanTime' =
          After(now, timing[IF last THEN "monitor" ELSE "spacing"])
     /\ controlScanIndex' = ControlIndex
     /\ nextControlScanTime' = IF last THEN ControlTimeAfterMonitor ELSE ControlTime
     /\ UNCHANGED <<wifi, linked>>

\* The relays are reported at the end of a control scan, and a device that fell
\* back to its access point tries the station again.
ReadControl(t) ==
  LET last == ControlIndex + 1 = ControlCount
  IN /\ MonitorIndex >= MonitorCount
     /\ ControlIndex < ControlCount /\ Elapsed(now, ControlTime)
     /\ controlScanIndex' = ControlIndex + 1
     /\ nextControlScanTime' =
          After(now, timing[IF last THEN "control" ELSE "spacing"])
     /\ monitorScanIndex' = MonitorIndex
     /\ nextMonitorScanTime' = MonitorTime
     /\ IF last /\ mode = "AP" /\ ssid /\ Elapsed(now, nextWifiStationRetryTime)
        THEN ConnectToWiFi(t, ssid)
        ELSE UNCHANGED <<wifi, linked>>

ReadNothing ==
  /\ \/ MonitorIndex < MonitorCount /\ ~Elapsed(now, MonitorTime)
     \/ /\ MonitorIndex >= MonitorCount
        /\ \/ ControlIndex >= ControlCount
           \/ ~Elapsed(now, ControlTime)
  /\ monitorScanIndex' = MonitorIndex /\ nextMonitorScanTime' = MonitorTime
  /\ controlScanIndex' = ControlIndex /\ nextControlScanTime' = ControlTime
  /\ UNCHANGED <<wifi, linked>>

\* The end of an iteration and the top of the next, which reads millis().
Scan ==
  /\ pc = "orders" /\ pc' = "serial"
  /\ \E d \in 1..MaxTick :
       /\ clock' = After(clock, d) /\ now' = clock'
       /\ \/ ReadMonitor /\ Pass(d, TRUE)
          \/ ReadControl(clock') /\ Pass(d, TRUE)
          \/ ReadNothing /\ Pass(d, FALSE)
  /\ UNCHANGED <<config, nextMonitorConnectionCheckTime, peers, bounds>>

----------------------------------------------------------------------------
(* Commands, from the serial line and the log client before the link is    *)
(* checked, from the monitor server after it.                              *)

Receive(name) ==
  /\ name \in kinds /\ Spend("commands")
  /\ pc = "orders" => linked
  /\ UNCHANGED <<now, pc, peers>>

\* EEPROM.commit writes all that was changed since the last one that succeeded.
Commit == stored' = [timing |-> timing', ssid |-> ssid']

\* CTRL_SCAN_MS, MON_SCAN_MS and REG_SPACING_MS take any value but 0.  The RAM
\* copy has changed when the commit fails.
HandleTiming(setting) ==
  /\ Receive(setting)
  /\ \E n \in Choices[setting] : timing' = [timing EXCEPT ![setting] = n]
  /\ UNCHANGED ssid
  /\ Commit \/ UNCHANGED stored
  /\ UNCHANGED <<clock, scan, wifi, linked, nextMonitorConnectionCheckTime,
                 bus>>

\* WIFI: connectToWiFi, then resetScanTime, unless the commit fails.
HandleWifi ==
  /\ Receive("WIFI")
  /\ ssid' = TRUE /\ UNCHANGED timing
  /\ \/ UNCHANGED <<clock, stored, scan, wifi, linked, bus>>
     \/ /\ Commit
        /\ \E d \in 1..ConnectTime : clock' = After(clock, d) /\ Pass(d, FALSE)
        /\ ConnectToWiFi(clock', TRUE)
        /\ nextMonitorScanTime' = 0 /\ nextControlScanTime' = 0
        /\ monitorScanIndex' = 0 /\ controlScanIndex' = 0
  /\ UNCHANGED nextMonitorConnectionCheckTime

\* HOST: an existing link is kept, and nothing done unless the commit succeeds.
HandleHost ==
  /\ Receive("HOST")
  /\ UNCHANGED <<timing, ssid, scan, wifi, nextMonitorConnectionCheckTime>>
  /\ \/ Commit /\ ConnectToMonitorServer
     \/ UNCHANGED <<stored, clock, bus, linked>>

\* "[address] [value]": a register that was written starts the control scan
\* again, at the time the write ended.
HandleWrite ==
  /\ Receive("WRITE")
  /\ \E d \in 1..MaxTick : clock' = After(clock, d) /\ Pass(d, FALSE)
  /\ \/ controlScanIndex' = 0 /\ nextControlScanTime' = clock'
     \/ UNCHANGED <<controlScanIndex, nextControlScanTime>>
  /\ UNCHANGED <<config, monitorScanIndex, nextMonitorScanTime, wifi, linked,
                 nextMonitorConnectionCheckTime>>

\* READ: a register is read between those of the scans.
HandleRead ==
  /\ Receive("READ")
  /\ \E d \in 1..MaxTick : clock' = After(clock, d) /\ Pass(d, FALSE)
  /\ UNCHANGED <<config, scan, wifi, linked, nextMonitorConnectionCheckTime>>

----------------------------------------------------------------------------
(* The environment, and the start of the device.                           *)

\* The router or the server goes away, or comes back: the link is lost.  (It is
\* taken to be noticed at once; connected() may report a dead link for a while.)
Outage ==
  /\ \/ router' = ~router /\ UNCHANGED server
     \/ server' = ~server /\ UNCHANGED router
  /\ IF router' /\ server'
     THEN UNCHANGED bounds
     ELSE Spend("outages")
  /\ linked' = FALSE
  /\ UNCHANGED <<clock, now, pc, config, scan, wifi,
                 nextMonitorConnectionCheckTime, bus>>

Init ==
  /\ clock = 0 /\ now = 0 /\ pc = "serial"
  /\ timing = Defaults
  /\ \E start \in Starts :
       ssid = start.ssid /\ kinds = start.kinds /\ left = start.left
  /\ stored = [timing |-> Defaults, ssid |-> ssid]
  /\ nextMonitorScanTime = 0 /\ nextControlScanTime = 0
  /\ monitorScanIndex = 0 /\ controlScanIndex = 0
  /\ router = TRUE /\ server = TRUE
  /\ mode = IF ssid THEN "STA" ELSE "AP"
  /\ nextWifiStationRetryTime = IF ssid THEN 0 ELSE StationRetry % Wrap
  /\ linked = ssid
  /\ nextMonitorConnectionCheckTime = 0
  /\ since = Longest("spacing") /\ gap = 0 /\ late = 0

\* setup(): RAM is cleared, the settings come from EEPROM.
Reboot ==
  /\ Spend("reboots")
  /\ \E d \in 1..ConnectTime : clock' = d % Wrap
  /\ now' = clock' /\ pc' = "serial"
  /\ timing' = stored.timing /\ ssid' = stored.ssid /\ UNCHANGED stored
  /\ nextMonitorScanTime' = 0 /\ nextControlScanTime' = 0
  /\ monitorScanIndex' = 0 /\ controlScanIndex' = 0
  /\ IF stored.ssid /\ router
     THEN mode' = "STA" /\ linked' = server /\ nextWifiStationRetryTime' = 0
     ELSE /\ mode' = "AP" /\ linked' = FALSE
          /\ nextWifiStationRetryTime' = After(clock', StationRetry)
  /\ nextMonitorConnectionCheckTime' = 0
  /\ since' = Longest("spacing") /\ gap' = 0 /\ late' = 0
  /\ UNCHANGED peers

Iterate == CheckMonitorConnection \/ Scan

Next ==
  \/ Iterate
  \/ \E setting \in Settings : HandleTiming(setting)
  \/ HandleWifi \/ HandleHost \/ HandleWrite \/ HandleRead
  \/ Outage \/ Reboot

Spec == Init /\ [][Next]_vars

\* loop() is called for ever.
FairSpec == Spec /\ WF_vars(Iterate)

----------------------------------------------------------------------------
(* Properties.                                                             *)

\* A pending read is due, or becomes due within the interval a setting may delay
\* it by (loop(): nextMonitorScanTime and nextControlScanTime; MON_SCAN_MS "Set
\* the monitor register scan interval", CTRL_SCAN_MS the control one).
OnSchedule(target, setting) ==
  \/ Elapsed(now, target)
  \/ (target - now) % Wrap <= Longest(setting)
  \/ (target - now) % Wrap <= Longest("spacing")
ScansOnSchedule ==
  "WIFI" \notin kinds => /\ OnSchedule(nextMonitorScanTime, "monitor")
                        /\ OnSchedule(nextControlScanTime, "control")

\* The same with WIFI commands: resetScanTime sets the times and the indices of
\* the scans to 0, "at once", which 0 means only in the lower half of millis().
PollingOnSchedule == OnSchedule(nextMonitorScanTime, "monitor")

\* A read that is not the first of its scan comes no sooner after the last read, of
\* either scan, than the spacing that was in force then (REG_SPACING_MS).  The
\* spacing counts from the top of the iteration (loop(): now + registerReadSpacingMs),
\* so that what a command or an attempt to reach the server took before that read is
\* missing; nothing else is, whatever a command, a connect, a changed setting, an
\* outage or the wrap comes between the two.
FarFromLastRead == since + late >= gap
ReadsSpaced ==
  [][pc = "orders" /\ (\/ ReadMonitor /\ MonitorIndex > 0
                       \/ ReadControl(clock') /\ ControlIndex > 0)
     => FarFromLastRead]_vars

\* Both scans go round for ever ("Polls inverter control and monitor
\* registers"), and with the control scan the relays are reported.
ScansComplete ==
  /\ []<>(monitorScanIndex = MonitorCount) /\ []<>(monitorScanIndex < MonitorCount)
  /\ []<>(controlScanIndex = ControlCount) /\ []<>(controlScanIndex < ControlCount)

\* Once router and server stay up, a device with credentials finds its way back
\* from the access point to the station and to the server, and stays there.
Reconnects == <>[](router /\ server /\ ssid) => <>[](mode = "STA" /\ linked)
=============================================================================
