-------------------------- MODULE InverterLoop_proofs --------------------------
(***************************************************************************)
(* Proofs about the main loop of the inverter firmware, for any range of   *)
(* millis(), any scan lengths and any settings clients choose.             *)
(***************************************************************************)
EXTENDS InverterLoop, NumberLemmas, TLAPS

\* The settings in force and the stored ones are the default or were sent.
Chosen(t) ==
  \A setting \in Settings : t[setting] \in Choices[setting] \union {Defaults[setting]}

LoopTypeOK == TypeOK /\ Chosen(timing) /\ Chosen(stored.timing)

\* The read planned at target comes at least a spacing g after the last one, which was s
\* ago, but for the l that passed before that one in its iteration; or that much of
\* the spacing is still ahead.  The iteration that began at t has taken e until c.
Apart(target, t, c, s, l, g) ==
  \/ s + l >= g
  \/ \E e \in 0..s : c = After(t, e) /\ target = After(t, e + (g - (s + l)))
Waits(target) == Apart(target, now, clock, since, late, gap)

\* Within a scan the next read waits for the spacing; a control scan under way waits
\* for a monitor scan to end first.
Spaced ==
  /\ gap <= Longest("spacing")
  /\ monitorScanIndex \in 1..MonitorCount - 1 => Waits(nextMonitorScanTime)
  /\ monitorScanIndex = MonitorCount /\ controlScanIndex \in 1..ControlCount - 1
       => Waits(nextControlScanTime)

LoopInv == LoopTypeOK /\ Spaced

\* An iteration takes T at most, with the commands served in it.
Timely(T) == ((clock - now) % Wrap) + MaxTick <= T

\* The time k after now, which is before now if k is negative.
At(target, k) == target = (now + k) % Wrap

\* How long ago a control read may have become due when i reads of a monitor scan are
\* done: it waits for them.
Latest(T, i) == ConnectTime + T + i * (Longest("spacing") + T)

\* The next monitor read is planned at m from now, the next control read at k.  When
\* the monitor read is still ahead (m > 0), so is a part of the waiting.
Planned(T, m, k) ==
  /\ m <= Longest("monitor") \/ m <= Longest("spacing")
  /\ k <= Longest("control") \/ k <= Longest("spacing")
  /\ -m <= ConnectTime + T
  /\ monitorScanIndex = MonitorCount => -k <= T
  /\ monitorScanIndex < MonitorCount =>
       /\ m <= Longest("spacing") /\ -k <= Latest(T, monitorScanIndex)
       /\ m > 0 => monitorScanIndex > 0 /\ m + T - k <= Latest(T, monitorScanIndex)

OnTime(T) ==
  \E m, k \in Int :
    At(nextMonitorScanTime, m) /\ At(nextControlScanTime, k) /\ Planned(T, m, k)

----------------------------------------------------------------------------
(* Times.                                                                  *)

\* The longest value of a setting is one that is sent or the default.
LEMMA LongestSetting ==
  ASSUME NEW setting \in Settings
  PROVE  /\ Longest(setting) \in Times \ {0}
         /\ \A n \in Choices[setting] \union {Defaults[setting]} : n <= Longest(setting)
<1> DEFINE T == Choices[setting] \union {Defaults[setting]}
<1>1. T \subseteq Times \ {0} /\ T # {} /\ Wrap - 1 \in Nat
  BY TimingAssumption, WrapAssumption DEF Timing
<1>2. \E k \in T : \A j \in T : j <= k
  <2> HIDE DEF T
  <2>1. T \subseteq 0..Wrap - 1
    BY <1>1 DEF Times
  <2>2. QED
    BY <1>1, <2>1, GreatestNumber
<1>3. Longest(setting) \in T /\ \A j \in T : j <= Longest(setting)
  BY <1>2 DEF Longest
<1>4. QED
  BY <1>1, <1>3

\* A sum of times is a time.
LEMMA AfterIsTime ==
  ASSUME NEW t \in Int, NEW d \in Int
  PROVE  After(t, d) \in Times
<1>1. (t + d) % Wrap \in 0..Wrap - 1
  BY WrapAssumption
<1>2. QED
  BY <1>1 DEF After, Times

\* Times are natural numbers, and 0 is one.
LEMMA TimesAreNumbers == Times \subseteq Nat /\ Times \subseteq Int /\ 0 \in Times
BY WrapAssumption DEF Times

\* What Pass does to the history of the bus.
LEMMA PassTypes ==
  ASSUME LoopTypeOK, NEW d \in Nat, NEW read \in BOOLEAN, Pass(d, read)
  PROVE  since' \in 0..Longest("spacing") /\ gap' \in Times /\ late' \in Times
<1>1. Longest("spacing") \in Times \ {0}
  BY LongestSetting DEF Settings
<1>2. d \in Nat /\ since + d \in Nat /\ since \in 0..Longest("spacing")
      /\ gap \in Times /\ late \in Times
  BY <1>1 DEF LoopTypeOK, TypeOK, Times
<1>3. \A n \in Nat : Capped(n) \in 0..Longest("spacing")
  BY <1>1 DEF Capped, Times
<1>4. timing["spacing"] \in Times
  BY DEF LoopTypeOK, TypeOK, Timing, Settings
<1>5. (clock - now) % Wrap \in Times
  <2>1. clock \in 0..Wrap - 1 /\ now \in 0..Wrap - 1
    BY DEF LoopTypeOK, TypeOK, Times
  <2>2. (clock - now) % Wrap \in 0..Wrap - 1
    BY <2>1, WrapAssumption
  <2>3. QED
    BY <2>2 DEF Times
<1>6. QED
  BY <1>2, <1>3, <1>4, <1>5 DEF Pass

----------------------------------------------------------------------------
(* Types.                                                                  *)

\* The settings and everything else that is not a number.
Modes == {"STA", "AP"}
ConfigTypes ==
  /\ pc \in {"serial", "orders"} /\ timing \in Timing
  /\ stored \in [timing : Timing, ssid : BOOLEAN] /\ ssid \in BOOLEAN
  /\ mode \in Modes /\ {linked, router, server} \subseteq BOOLEAN
  /\ kinds \subseteq CommandNames /\ left \in [commands : Nat, outages : Nat, reboots : Nat]
  /\ Chosen(timing) /\ Chosen(stored.timing)

\* The times and the indices.
ScanTypes ==
  /\ clock \in Times /\ now \in Times
  /\ nextMonitorScanTime \in Times /\ nextControlScanTime \in Times
  /\ nextWifiStationRetryTime \in Times /\ nextMonitorConnectionCheckTime \in Times
  /\ monitorScanIndex \in 0..MonitorCount /\ controlScanIndex \in 0..ControlCount
  /\ since \in 0..Longest("spacing") /\ gap \in Times /\ late \in Times

\* The type invariant in two parts.
LEMMA LoopTypeParts == LoopTypeOK <=> ConfigTypes /\ ScanTypes
BY DEF LoopTypeOK, TypeOK, ConfigTypes, ScanTypes, Modes

\* The same after a step.
LEMMA NextTypeParts == ConfigTypes' /\ ScanTypes' => LoopTypeOK'
BY DEF LoopTypeOK, TypeOK, ConfigTypes, ScanTypes, Modes

\* An event is counted.
LEMMA SpendTypes ==
  ASSUME ConfigTypes, NEW event \in {"commands", "outages", "reboots"}, Spend(event)
  PROVE  kinds' = kinds /\ left' \in [commands : Nat, outages : Nat, reboots : Nat]
<1>1. left[event] \in Nat
  BY DEF ConfigTypes
<1>2. left[event] - 1 \in Nat
  BY <1>1 DEF Spend
<1>3. QED
  BY <1>2 DEF Spend, ConfigTypes

\* connectToWiFi.
LEMMA ConnectTypes ==
  ASSUME ConfigTypes, ScanTypes, NEW t \in Times, NEW has, ConnectToWiFi(t, has)
  PROVE  mode' \in Modes /\ linked' \in BOOLEAN /\ nextWifiStationRetryTime' \in Times
<1>1. After(t, StationRetry) \in Times
  <2>1. t \in Int /\ StationRetry \in Int
    BY ScanAssumption, TimesAreNumbers
  <2>2. QED
    BY <2>1, AfterIsTime
<1>2. QED
  BY <1>1 DEF ConnectToWiFi, ConfigTypes, ScanTypes, Modes

\* The interval after which a setting plans the next read.
LEMMA PlannedTypes ==
  ASSUME ConfigTypes, ScanTypes, NEW setting \in Settings
  PROVE  After(now, timing[setting]) \in Times
<1>1. timing[setting] \in Int /\ now \in Int
  BY TimesAreNumbers DEF ConfigTypes, ScanTypes, Timing
<1>2. QED
  BY <1>1, AfterIsTime

\* The indices and times the scans go on with.
LEMMA RestartTypes ==
  ASSUME ScanTypes
  PROVE  /\ MonitorIndex \in 0..MonitorCount /\ MonitorTime \in Times
         /\ ControlIndex \in 0..ControlCount /\ ControlTime \in Times
<1>1. 0 \in 0..MonitorCount /\ 0 \in 0..ControlCount
  BY ScanAssumption
<1>2. QED
  BY <1>1 DEF ScanTypes, MonitorIndex, MonitorTime, ControlIndex, ControlTime

\* One iteration of the second half of loop() keeps the types.
LEMMA ScanKeepsTypes ==
  ASSUME LoopTypeOK, Scan
  PROVE  LoopTypeOK'
<1>0. ConfigTypes /\ ScanTypes
  BY LoopTypeParts
<1>1. PICK d \in 1..MaxTick :
        /\ clock' = After(clock, d) /\ now' = clock'
        /\ \/ ReadMonitor /\ Pass(d, TRUE)
           \/ ReadControl(clock') /\ Pass(d, TRUE)
           \/ ReadNothing /\ Pass(d, FALSE)
  BY DEF Scan
<1>2. pc' = "serial" /\ UNCHANGED <<config, nextMonitorConnectionCheckTime, peers, bounds>>
  BY DEF Scan
<1>3. d \in Nat /\ clock' \in Times /\ now' \in Times
  <2>1. d \in Nat /\ d \in Int /\ clock \in Int
    BY <1>0, ScanAssumption, TimesAreNumbers DEF ScanTypes
  <2>2. QED
    BY <1>1, <2>1, AfterIsTime
<1>4. since' \in 0..Longest("spacing") /\ gap' \in Times /\ late' \in Times
  BY <1>1, <1>3, PassTypes
<1>5. \A setting \in Settings : After(now, timing[setting]) \in Times
  BY <1>0, PlannedTypes
<1>6. {"monitor", "control", "spacing"} \subseteq Settings
  BY DEF Settings
<1>7. /\ monitorScanIndex' \in 0..MonitorCount /\ nextMonitorScanTime' \in Times
      /\ controlScanIndex' \in 0..ControlCount /\ nextControlScanTime' \in Times
      /\ mode' \in Modes /\ linked' \in BOOLEAN /\ nextWifiStationRetryTime' \in Times
  <2>1. CASE ReadMonitor
    <3>1. MonitorIndex + 1 \in 0..MonitorCount
      BY <1>0, <2>1, RestartTypes, ScanAssumption DEF ReadMonitor
    <3>2. UNCHANGED <<wifi, linked>>
      BY <2>1 DEF ReadMonitor
    <3>3. nextMonitorScanTime' \in Times /\ nextControlScanTime' \in Times
      BY <1>0, <1>5, <1>6, <2>1, RestartTypes DEF ReadMonitor, ControlTimeAfterMonitor
    <3>4. QED
      BY <1>0, <2>1, <3>1, <3>2, <3>3, RestartTypes
         DEF ReadMonitor, ConfigTypes, ScanTypes, wifi, Modes
  <2>2. CASE ReadControl(clock')
    <3>1. ControlIndex + 1 \in 0..ControlCount
      BY <1>0, <2>2, RestartTypes, ScanAssumption DEF ReadControl
    <3>2. nextMonitorScanTime' \in Times /\ nextControlScanTime' \in Times
      BY <1>0, <1>5, <1>6, <2>2, RestartTypes DEF ReadControl
    <3>3. CASE UNCHANGED <<wifi, linked>>
      BY <1>0, <2>2, <3>1, <3>2, <3>3, RestartTypes
         DEF ReadControl, ConfigTypes, ScanTypes, wifi, Modes
    <3>4. CASE ConnectToWiFi(clock', ssid)
      BY <1>0, <1>3, <2>2, <3>1, <3>2, <3>4, RestartTypes, ConnectTypes DEF ReadControl
    <3>5. QED
      BY <2>2, <3>3, <3>4 DEF ReadControl
  <2>3. CASE ReadNothing
    <3>1. UNCHANGED <<wifi, linked>>
      BY <2>3 DEF ReadNothing
    <3>2. QED
      BY <1>0, <2>3, <3>1, RestartTypes DEF ReadNothing, ConfigTypes, ScanTypes, wifi, Modes
  <2>4. QED
    BY <1>1, <2>1, <2>2, <2>3
<1>8. ConfigTypes'
  BY <1>0, <1>2, <1>7 DEF ConfigTypes, config, peers, bounds, Chosen, Modes
<1>9. ScanTypes'
  BY <1>0, <1>2, <1>3, <1>4, <1>7 DEF ScanTypes
<1>10. QED
  BY <1>8, <1>9, NextTypeParts

\* An attempt to reach the server takes time or does nothing.
LEMMA LinkTakesTime ==
  ASSUME LoopTypeOK, ConnectToMonitorServer
  PROVE  /\ linked' \in BOOLEAN
         /\ \/ UNCHANGED <<clock, bus>>
            \/ \E d \in Nat : clock' = After(clock, d) /\ Pass(d, FALSE)
<1>1. linked \in BOOLEAN /\ server \in BOOLEAN
  BY LoopTypeParts DEF ConfigTypes
<1>2. CASE ~linked /\ mode = "STA" /\ router
  <2>1. PICK d \in 0..LinkTime : clock' = After(clock, d) /\ Pass(d, FALSE)
    BY <1>2 DEF ConnectToMonitorServer
  <2>2. d \in Nat
    BY ScanAssumption
  <2>3. QED
    BY <1>1, <1>2, <2>1, <2>2 DEF ConnectToMonitorServer
<1>3. CASE ~(~linked /\ mode = "STA" /\ router)
  BY <1>1, <1>3 DEF ConnectToMonitorServer
<1>4. QED
  BY <1>2, <1>3

\* Time that passes keeps the types of the clock and the bus.
LEMMA PassKeepsTypes ==
  ASSUME LoopTypeOK,
         \/ UNCHANGED <<clock, bus>>
         \/ \E d \in Nat : clock' = After(clock, d) /\ Pass(d, FALSE)
  PROVE  clock' \in Times /\ since' \in 0..Longest("spacing") /\ gap' \in Times
         /\ late' \in Times
<1>1. ScanTypes
  BY LoopTypeParts
<1>2. CASE UNCHANGED <<clock, bus>>
  BY <1>1, <1>2 DEF ScanTypes, bus
<1>3. CASE \E d \in Nat : clock' = After(clock, d) /\ Pass(d, FALSE)
  <2>1. PICK d \in Nat : clock' = After(clock, d) /\ Pass(d, FALSE)
    BY <1>3
  <2>2. clock \in Int /\ d \in Int
    BY <1>1, TimesAreNumbers DEF ScanTypes
  <2>3. QED
    BY <2>1, <2>2, AfterIsTime, PassTypes
<1>4. QED
  BY <1>2, <1>3

\* So does the check of the link.
LEMMA CheckTakesTime ==
  ASSUME LoopTypeOK, CheckMonitorConnection
  PROVE  /\ linked' \in BOOLEAN /\ UNCHANGED <<now, config, scan, wifi, peers, bounds>>
         /\ \/ UNCHANGED <<clock, bus>>
            \/ \E d \in Nat : clock' = After(clock, d) /\ Pass(d, FALSE)
<1>1. linked \in BOOLEAN
  BY LoopTypeParts DEF ConfigTypes
<1>2. CASE ConnectionCheckDue
  BY <1>2, LinkTakesTime DEF CheckMonitorConnection
<1>3. CASE ~ConnectionCheckDue
  BY <1>1, <1>3 DEF CheckMonitorConnection
<1>4. QED
  BY <1>2, <1>3 DEF CheckMonitorConnection

LEMMA CheckKeepsTypes ==
  ASSUME LoopTypeOK, CheckMonitorConnection
  PROVE  LoopTypeOK'
<1>0. ConfigTypes /\ ScanTypes
  BY LoopTypeParts
<1>1. After(now, ConnectionCheck) \in Times
  <2>1. now \in Int /\ ConnectionCheck \in Int
    BY <1>0, ScanAssumption, TimesAreNumbers DEF ScanTypes
  <2>2. QED
    BY <2>1, AfterIsTime
<1>2. /\ linked' \in BOOLEAN /\ UNCHANGED <<now, config, scan, wifi, peers, bounds>>
      /\ \/ UNCHANGED <<clock, bus>>
         \/ \E d \in Nat : clock' = After(clock, d) /\ Pass(d, FALSE)
  BY CheckTakesTime
<1>3. /\ clock' \in Times /\ since' \in 0..Longest("spacing") /\ gap' \in Times
      /\ late' \in Times
  BY <1>2, PassKeepsTypes
<1>4. pc' = "orders" /\ nextMonitorConnectionCheckTime' \in Times
  BY <1>0, <1>1 DEF CheckMonitorConnection, ScanTypes
<1>5. ConfigTypes'
  BY <1>0, <1>2, <1>4 DEF ConfigTypes, config, wifi, peers, bounds, Chosen, Modes
<1>6. ScanTypes'
  BY <1>0, <1>2, <1>3, <1>4 DEF ScanTypes, scan, wifi
<1>7. QED
  BY <1>5, <1>6, NextTypeParts

\* And the commands.
LEMMA CommandsKeepTypes ==
  ASSUME LoopTypeOK,
         \/ \E setting \in Settings : HandleTiming(setting)
         \/ HandleWifi \/ HandleHost \/ HandleWrite \/ HandleRead
  PROVE  LoopTypeOK'
<1>0. ConfigTypes /\ ScanTypes
  BY LoopTypeParts
<1>1. ASSUME NEW name, Receive(name)
      PROVE  /\ kinds' = kinds /\ left' \in [commands : Nat, outages : Nat, reboots : Nat]
             /\ UNCHANGED <<now, pc, peers>>
  BY <1>0, <1>1, SpendTypes DEF Receive
<1>2. ASSUME NEW most \in Nat, NEW d \in 1..most, clock' = After(clock, d)
      PROVE  clock' \in Times /\ d \in Nat
  <2>1. d \in Nat /\ d \in Int /\ clock \in Int
    BY <1>0, TimesAreNumbers DEF ScanTypes
  <2>2. QED
    BY <1>2, <2>1, AfterIsTime
<1>3. ASSUME NEW setting \in Settings, HandleTiming(setting) PROVE LoopTypeOK'
  <2>1. PICK n \in Choices[setting] : timing' = [timing EXCEPT ![setting] = n]
    BY <1>3 DEF HandleTiming
  <2>2. n \in Times \ {0}
    BY TimingAssumption
  <2>3. timing' \in Timing /\ Chosen(timing')
    BY <1>0, <2>1, <2>2 DEF ConfigTypes, Timing, Chosen
  <2>4. stored' = stored \/ stored' = [timing |-> timing', ssid |-> ssid']
    BY <1>3 DEF HandleTiming, Commit
  <2>5. ssid' = ssid
    BY <1>3 DEF HandleTiming
  <2>6. stored' \in [timing : Timing, ssid : BOOLEAN] /\ Chosen(stored'.timing)
    BY <1>0, <2>3, <2>4, <2>5 DEF ConfigTypes
  <2>7. UNCHANGED <<clock, scan, wifi, linked, nextMonitorConnectionCheckTime, bus>>
    BY <1>3 DEF HandleTiming
  <2>8. ConfigTypes'
    BY <1>0, <1>1, <1>3, <2>3, <2>5, <2>6, <2>7
       DEF HandleTiming, ConfigTypes, wifi, peers, Chosen, Modes
  <2>9. ScanTypes'
    BY <1>0, <1>1, <1>3, <2>7 DEF HandleTiming, ScanTypes, scan, wifi, bus
  <2>10. QED
    BY <2>8, <2>9, NextTypeParts
<1>4. ASSUME HandleWifi PROVE LoopTypeOK'
  <2>1. /\ Receive("WIFI") /\ ssid' = TRUE /\ UNCHANGED timing
        /\ UNCHANGED nextMonitorConnectionCheckTime
    BY <1>4 DEF HandleWifi
  <2>2. CASE UNCHANGED <<clock, stored, scan, wifi, linked, bus>>
    <3>1. ConfigTypes'
      BY <1>0, <1>1, <2>1, <2>2 DEF ConfigTypes, wifi, peers, Chosen, Modes
    <3>2. ScanTypes'
      BY <1>0, <1>1, <2>1, <2>2 DEF ScanTypes, scan, wifi, bus
    <3>3. QED
      BY <3>1, <3>2, NextTypeParts
  <2>3. CASE /\ Commit
             /\ \E d \in 1..ConnectTime : clock' = After(clock, d) /\ Pass(d, FALSE)
             /\ ConnectToWiFi(clock', TRUE)
             /\ nextMonitorScanTime' = 0 /\ nextControlScanTime' = 0
             /\ monitorScanIndex' = 0 /\ controlScanIndex' = 0
    <3>1. PICK d \in 1..ConnectTime : clock' = After(clock, d) /\ Pass(d, FALSE)
      BY <2>3
    <3>2. /\ clock' \in Times /\ since' \in 0..Longest("spacing")
          /\ gap' \in Times /\ late' \in Times
      BY <1>2, <3>1, ScanAssumption, PassTypes
    <3>3. mode' \in Modes /\ linked' \in BOOLEAN /\ nextWifiStationRetryTime' \in Times
      BY <1>0, <2>3, <3>2, ConnectTypes
    <3>4. stored' = [timing |-> timing, ssid |-> TRUE]
      BY <2>1, <2>3 DEF Commit
    <3>5. stored' \in [timing : Timing, ssid : BOOLEAN] /\ Chosen(stored'.timing)
      BY <1>0, <3>4 DEF ConfigTypes
    <3>6. ConfigTypes'
      BY <1>0, <1>1, <2>1, <3>3, <3>5 DEF ConfigTypes, peers, Chosen, Modes
    <3>7. 0 \in 0..MonitorCount /\ 0 \in 0..ControlCount
      BY ScanAssumption
    <3>8. ScanTypes'
      BY <1>0, <1>1, <2>1, <2>3, <3>2, <3>3, <3>7, TimesAreNumbers DEF ScanTypes
    <3>9. QED
      BY <3>6, <3>8, NextTypeParts
  <2>4. QED
    BY <1>4, <2>2, <2>3 DEF HandleWifi
<1>5. ASSUME HandleHost PROVE LoopTypeOK'
  <2>1. /\ Receive("HOST")
        /\ UNCHANGED <<timing, ssid, scan, wifi, nextMonitorConnectionCheckTime>>
    BY <1>5 DEF HandleHost
  <2>2. /\ linked' \in BOOLEAN
        /\ \/ UNCHANGED <<clock, bus>>
           \/ \E d \in Nat : clock' = After(clock, d) /\ Pass(d, FALSE)
    BY <1>0, <1>5, LinkTakesTime DEF HandleHost, ConfigTypes
  <2>3. /\ clock' \in Times /\ since' \in 0..Longest("spacing") /\ gap' \in Times
        /\ late' \in Times
    BY <2>2, PassKeepsTypes
  <2>4. stored' = stored \/ stored' = [timing |-> timing, ssid |-> ssid]
    BY <1>5, <2>1 DEF HandleHost, Commit
  <2>5. stored' \in [timing : Timing, ssid : BOOLEAN] /\ Chosen(stored'.timing)
    BY <1>0, <2>4 DEF ConfigTypes
  <2>6. ConfigTypes'
    BY <1>0, <1>1, <2>1, <2>2, <2>5 DEF ConfigTypes, wifi, peers, Chosen, Modes
  <2>7. ScanTypes'
    BY <1>0, <1>1, <2>1, <2>3 DEF ScanTypes, scan, wifi
  <2>8. QED
    BY <2>6, <2>7, NextTypeParts
<1>6. ASSUME HandleWrite \/ HandleRead PROVE LoopTypeOK'
  <2>1. PICK d \in 1..MaxTick : clock' = After(clock, d) /\ Pass(d, FALSE)
    BY <1>6 DEF HandleWrite, HandleRead
  <2>2. /\ clock' \in Times /\ since' \in 0..Longest("spacing")
        /\ gap' \in Times /\ late' \in Times
    BY <1>2, <2>1, ScanAssumption, PassTypes
  <2>3. /\ controlScanIndex' = controlScanIndex \/ controlScanIndex' = 0
        /\ nextControlScanTime' = nextControlScanTime \/ nextControlScanTime' = clock'
        /\ UNCHANGED <<config, monitorScanIndex, nextMonitorScanTime, wifi, linked,
                       nextMonitorConnectionCheckTime>>
    BY <1>6 DEF HandleWrite, HandleRead, scan
  <2>4. \E name : Receive(name)
    BY <1>6 DEF HandleWrite, HandleRead
  <2>5. ConfigTypes'
    BY <1>0, <1>1, <2>3, <2>4 DEF ConfigTypes, config, wifi, peers, Chosen, Modes
  <2>6. 0 \in 0..ControlCount
    BY ScanAssumption
  <2>7. ScanTypes'
    BY <1>0, <1>1, <2>2, <2>3, <2>4, <2>6 DEF ScanTypes, wifi
  <2>8. QED
    BY <2>5, <2>7, NextTypeParts
<1>7. QED
  BY <1>3, <1>4, <1>5, <1>6

\* And the environment.
LEMMA EnvironmentKeepsTypes ==
  ASSUME LoopTypeOK, Outage \/ Reboot
  PROVE  LoopTypeOK'
<1>0. ConfigTypes /\ ScanTypes
  BY LoopTypeParts
<1>1. ASSUME Outage PROVE LoopTypeOK'
  <2>1. kinds' = kinds /\ left' \in [commands : Nat, outages : Nat, reboots : Nat]
    BY <1>0, <1>1, SpendTypes DEF Outage, bounds, ConfigTypes
  <2>2. {linked', router', server'} \subseteq BOOLEAN
    BY <1>0, <1>1 DEF Outage, ConfigTypes
  <2>3. ConfigTypes'
    BY <1>0, <1>1, <2>1, <2>2 DEF Outage, ConfigTypes, config, wifi, Chosen, Modes
  <2>4. ScanTypes'
    BY <1>0, <1>1 DEF Outage, ScanTypes, scan, wifi, bus
  <2>5. QED
    BY <2>3, <2>4, NextTypeParts
<1>2. ASSUME Reboot PROVE LoopTypeOK'
  <2>1. PICK d \in 1..ConnectTime : clock' = d % Wrap
    BY <1>2 DEF Reboot
  <2>2. clock' \in Times
    <3>1. d \in Int
      BY ScanAssumption
    <3>2. d % Wrap \in 0..Wrap - 1
      BY <3>1, WrapAssumption
    <3>3. QED
      BY <2>1, <3>2 DEF Times
  <2>3. After(clock', StationRetry) \in Times
    <3>1. clock' \in Int /\ StationRetry \in Int
      BY <2>2, ScanAssumption, TimesAreNumbers
    <3>2. QED
      BY <3>1, AfterIsTime
  <2>4. mode' \in Modes /\ linked' \in BOOLEAN /\ nextWifiStationRetryTime' \in Times
    BY <1>0, <1>2, <2>3, TimesAreNumbers DEF Reboot, ConfigTypes, Modes
  <2>5. kinds' = kinds /\ left' \in [commands : Nat, outages : Nat, reboots : Nat]
    BY <1>0, <1>2, SpendTypes DEF Reboot
  <2>6. /\ timing' = stored.timing /\ ssid' = stored.ssid
        /\ stored' = stored /\ pc' = "serial" /\ UNCHANGED peers
    BY <1>2 DEF Reboot
  <2>7. ConfigTypes'
    BY <1>0, <2>4, <2>5, <2>6 DEF ConfigTypes, peers
  <2>8. 0 \in 0..MonitorCount /\ 0 \in 0..ControlCount
    BY ScanAssumption
  <2>9. since' \in 0..Longest("spacing") /\ gap' \in Times /\ late' \in Times
    <3>1. Longest("spacing") \in Times
      BY LongestSetting DEF Settings
    <3>2. Longest("spacing") \in 0..Longest("spacing")
      <4>1. \A n \in Nat : n \in 0..n
        OBVIOUS
      <4>2. QED
        BY <3>1, <4>1, TimesAreNumbers
    <3>3. QED
      BY <1>2, <3>2, TimesAreNumbers DEF Reboot
  <2>10. ScanTypes'
    BY <1>2, <2>2, <2>4, <2>8, <2>9, TimesAreNumbers DEF Reboot, ScanTypes
  <2>11. QED
    BY <2>7, <2>10, NextTypeParts
<1>3. QED
  BY <1>1, <1>2

\* Initially.
LEMMA InitTypes ==
  ASSUME Init
  PROVE  LoopTypeOK
<1>1. PICK start \in Starts : ssid = start.ssid /\ kinds = start.kinds /\ left = start.left
  BY DEF Init
<1>2. /\ ssid \in BOOLEAN /\ kinds \subseteq CommandNames
      /\ left \in [commands : Nat, outages : Nat, reboots : Nat]
  BY <1>1, StartsAssumption
<1>3. Chosen(Defaults) /\ Defaults \in Timing
  BY TimingAssumption DEF Chosen
<1>4. stored = [timing |-> Defaults, ssid |-> ssid] /\ timing = Defaults
  BY DEF Init
<1>5. StationRetry % Wrap \in Times
  <2>1. StationRetry % Wrap \in 0..Wrap - 1
    BY ScanAssumption, WrapAssumption
  <2>2. QED
    BY <2>1 DEF Times
<1>6. ConfigTypes
  BY <1>2, <1>3, <1>4 DEF Init, ConfigTypes, Modes
<1>7. 0 \in 0..MonitorCount /\ 0 \in 0..ControlCount
  BY ScanAssumption
<1>8. Longest("spacing") \in 0..Longest("spacing")
  <2>1. Longest("spacing") \in Times
    BY LongestSetting DEF Settings
  <2>2. \A n \in Nat : n \in 0..n
    OBVIOUS
  <2>3. QED
    BY <2>1, <2>2, TimesAreNumbers
<1>9. ScanTypes
  BY <1>5, <1>7, <1>8, TimesAreNumbers DEF Init, ScanTypes
<1>10. QED
  BY <1>6, <1>9, LoopTypeParts

\* Every step keeps the types.
LEMMA NextKeepsTypes ==
  ASSUME LoopTypeOK, [Next]_vars
  PROVE  LoopTypeOK'
<1>1. CASE UNCHANGED vars
  <2>1. ConfigTypes /\ ScanTypes
    BY LoopTypeParts
  <2>2. ConfigTypes'
    BY <1>1, <2>1 DEF vars, ConfigTypes, config, wifi, peers, bounds, Chosen
  <2>3. ScanTypes'
    BY <1>1, <2>1 DEF vars, ScanTypes, scan, wifi, bus
  <2>4. QED
    BY <2>2, <2>3, NextTypeParts
<1>2. CASE Scan
  BY <1>2, ScanKeepsTypes
<1>3. CASE CheckMonitorConnection
  BY <1>3, CheckKeepsTypes
<1>4. CASE \/ \E setting \in Settings : HandleTiming(setting)
           \/ HandleWifi \/ HandleHost \/ HandleWrite \/ HandleRead
  BY <1>4, CommandsKeepTypes
<1>5. CASE Outage \/ Reboot
  BY <1>5, EnvironmentKeepsTypes
<1>6. QED
  BY <1>1, <1>2, <1>3, <1>4, <1>5 DEF Next, Iterate

\* Every state of the loop has its types; this is the invariant TypeOK of the runs.
THEOREM LoopTypes == Spec => []TypeOK
<1>1. Init => LoopTypeOK
  BY InitTypes
<1>2. LoopTypeOK /\ [Next]_vars => LoopTypeOK'
  BY NextKeepsTypes
<1>3. LoopTypeOK => TypeOK
  BY DEF LoopTypeOK
<1>4. QED
  BY <1>1, <1>2, <1>3, PTL DEF Spec

----------------------------------------------------------------------------
(* Reads are spaced.                                                       *)

\* When d passes and nothing is read, a planned read comes nearer.  The iteration goes on
\* (n is its top), or the next one begins.
LEMMA ApartLater ==
  ASSUME LoopTypeOK, gap <= Longest("spacing"), NEW target \in Times, Waits(target),
         NEW d \in Nat, NEW n \in {now, After(clock, d)}
  PROVE  Apart(target, n, After(clock, d), Capped(since + d), late, gap)
<1>1. /\ Wrap \in Nat \ {0} /\ now \in 0..Wrap - 1 /\ clock \in 0..Wrap - 1
      /\ Longest("spacing") \in Nat /\ Longest("spacing") < Wrap
      /\ gap \in Nat /\ late \in Nat /\ since \in Nat
  BY LongestSetting, TimesAreNumbers, WrapAssumption, LoopTypeParts
     DEF Settings, Times, ScanTypes
<1>2. CASE since + d + late >= gap
  <2>1. Capped(since + d) + late >= gap
    BY <1>1, <1>2 DEF Capped
  <2>2. QED
    BY <2>1 DEF Apart
<1>3. CASE since + d + late < gap
  <2>1. PICK e \in 0..since :
          clock = After(now, e) /\ target = After(now, e + (gap - (since + late)))
    BY <1>1, <1>3 DEF Waits, Apart
  <2> DEFINE rest == gap - (since + d + late)
  <2>2. /\ e \in Nat /\ e + d \in Nat /\ rest \in Nat /\ e + (gap - (since + late)) = (e + d) + rest
        /\ e + d < Wrap /\ (e + d) + rest < Wrap
    BY <1>1, <1>3, <2>1
  <2>3. Capped(since + d) = since + d /\ (since + d) + late = since + d + late
    BY <1>1, <1>3 DEF Capped
  <2>4. After(clock, d) = After(now, e + d)
    BY <1>1, <2>1, <2>2, DurationsAdd, ZenonT(30) DEF After
  <2>5. CASE n = now
    <3>1. e + d \in 0..since + d
      BY <1>1, <2>1
    <3>2. QED
      BY <2>1, <2>2, <2>3, <2>4, <2>5, <3>1 DEF Apart
  <2>6. CASE n = After(clock, d)
    <3>1. target = After(After(now, e + d), rest)
      <4>1. (((now + (e + d)) % Wrap) + rest) % Wrap = (now + ((e + d) + rest)) % Wrap
        BY <1>1, <2>2, DurationsAdd, ZenonT(30)
      <4>2. QED
        BY <2>1, <2>2, <4>1 DEF After
    <3>2. n \in 0..Wrap - 1 /\ n = After(now, e + d)
      BY <1>1, <2>4, <2>6 DEF After
    <3>3. n = After(n, 0) /\ target = After(n, 0 + rest)
      <4>1. 0 + rest = rest /\ n + 0 = n /\ n % Wrap = n
        BY <1>1, <2>2, <3>2
      <4>2. QED
        BY <3>1, <3>2, <4>1 DEF After
    <3>4. 0 \in 0..since + d
      BY <1>1
    <3>5. QED
      BY <2>3, <2>6, <3>3, <3>4 DEF Apart
  <2>7. QED
    BY <2>5, <2>6
<1>4. QED
  BY <1>1, <1>2, <1>3

\* A read in this iteration, d before its end, plans another one n after its top.
LEMMA ApartAfterRead ==
  ASSUME LoopTypeOK, NEW n \in Times, n <= Longest("spacing"), NEW d \in Nat
  PROVE  Apart(After(now, n), After(clock, d), After(clock, d), Capped(d),
               (clock - now) % Wrap, n)
<1> DEFINE l == (clock - now) % Wrap
           c == After(clock, d)
<1>1. /\ Wrap \in Nat \ {0} /\ now \in 0..Wrap - 1 /\ clock \in 0..Wrap - 1
      /\ Longest("spacing") \in Nat /\ Longest("spacing") < Wrap
      /\ n \in Nat /\ n < Wrap
  BY LongestSetting, TimesAreNumbers, WrapAssumption, LoopTypeParts
     DEF Settings, Times, ScanTypes
<1>2. l \in Nat
  BY <1>1
<1>3. CASE d + l >= n
  <2>1. Capped(d) + l >= n
    BY <1>1, <1>2, <1>3 DEF Capped
  <2>2. QED
    BY <2>1 DEF Apart
<1>4. CASE d + l < n
  <2> DEFINE rest == n - (d + l)
  <2>1. rest \in Nat /\ l + d \in Nat /\ l + d < Wrap /\ n = (l + d) + rest
    <3> HIDE DEF l
    <3>1. QED
      BY <1>1, <1>2, <1>4
  <2>2. c = After(now, l + d)
    BY <1>1, <2>1, TimeAdds DEF After
  <2>3. After(now, n) = After(After(now, l + d), rest)
    <3> HIDE DEF l, rest
    <3>1. (l + d) + rest < Wrap
      BY <1>1, <2>1
    <3>2. (((now + (l + d)) % Wrap) + rest) % Wrap = (now + ((l + d) + rest)) % Wrap
      BY <1>1, <2>1, <3>1, DurationsAdd
    <3>3. QED
      BY <2>1, <3>2 DEF After
  <2>4. c \in 0..Wrap - 1
    BY <1>1 DEF After
  <2>5. c = After(c, 0) /\ After(now, n) = After(c, 0 + rest)
    <3> HIDE DEF l, rest, c
    <3>1. 0 + rest = rest /\ c + 0 = c /\ c % Wrap = c
      BY <1>1, <2>1, <2>4
    <3>2. QED
      BY <2>2, <2>3, <3>1 DEF After
  <2>6. Capped(d) = d /\ 0 \in 0..d
    BY <1>1, <1>2, <1>4 DEF Capped
  <2>7. QED
    BY <2>5, <2>6 DEF Apart
<1>5. QED
  BY <1>1, <1>2, <1>3, <1>4

\* A read plans the next one of its scan, or the one of the waiting control scan.
LEMMA ReadSpaces ==
  ASSUME LoopTypeOK, NEW d \in Nat, Pass(d, TRUE),
         clock' = After(clock, d), now' = clock',
         ReadMonitor \/ ReadControl(clock')
  PROVE  Spaced'
<1> DEFINE n == timing["spacing"]
           next == After(now, n)
<1>1. n \in Times /\ n <= Longest("spacing")
  BY LongestSetting DEF LoopTypeOK, TypeOK, Timing, Chosen, Settings
<1>2. since' = Capped(d) /\ gap' = n /\ late' = (clock - now) % Wrap
  BY DEF Pass
<1>3. Apart(next, now', clock', since', late', gap')
  BY <1>1, <1>2, ApartAfterRead
<1>4. MonitorCount \in Nat /\ ControlCount \in Nat /\ MonitorIndex \in Nat
      /\ ControlIndex \in Nat /\ MonitorIndex <= MonitorCount
  BY ScanAssumption, RestartTypes, LoopTypeParts
<1>5. CASE ReadMonitor
  <2>1. monitorScanIndex' = MonitorIndex + 1 /\ controlScanIndex' = ControlIndex
    BY <1>5 DEF ReadMonitor
  <2>2. MonitorIndex + 1 # MonitorCount => nextMonitorScanTime' = next
    BY <1>5 DEF ReadMonitor
  <2>3. MonitorIndex + 1 = MonitorCount /\ ControlIndex < ControlCount
          => nextControlScanTime' = next
    BY <1>5 DEF ReadMonitor, ControlTimeAfterMonitor
  <2>4. monitorScanIndex' \in 1..MonitorCount - 1 => Waits(nextMonitorScanTime)'
    BY <1>3, <1>4, <2>1, <2>2 DEF Waits
  <2>5. monitorScanIndex' = MonitorCount /\ controlScanIndex' \in 1..ControlCount - 1
          => Waits(nextControlScanTime)'
    BY <1>3, <1>4, <2>1, <2>3 DEF Waits
  <2>6. QED
    BY <1>1, <1>2, <2>4, <2>5 DEF Spaced
<1>6. CASE ReadControl(clock')
  <2>1. /\ controlScanIndex' = ControlIndex + 1 /\ monitorScanIndex' = MonitorCount
        /\ ControlIndex + 1 # ControlCount => nextControlScanTime' = next
    BY <1>4, <1>6 DEF ReadControl
  <2>2. monitorScanIndex' \notin 1..MonitorCount - 1
    BY <1>4, <2>1
  <2>3. controlScanIndex' \in 1..ControlCount - 1 => Waits(nextControlScanTime)'
    BY <1>3, <1>4, <2>1 DEF Waits
  <2>4. QED
    BY <1>1, <1>2, <2>2, <2>3 DEF Spaced
<1>7. QED
  BY <1>5, <1>6

\* When nothing is read, a planned read comes nearer.
LEMMA NothingSpaces ==
  ASSUME LoopTypeOK, Spaced, NEW d \in Nat, Pass(d, FALSE),
         clock' = After(clock, d), now' = clock', ReadNothing
  PROVE  Spaced'
<1>1. since' = Capped(since + d) /\ gap' = gap /\ late' = late
  BY DEF Pass
<1>2. /\ nextMonitorScanTime \in Times /\ nextControlScanTime \in Times
      /\ monitorScanIndex \in 0..MonitorCount /\ controlScanIndex \in 0..ControlCount
  BY LoopTypeParts DEF ScanTypes
<1>3. ASSUME NEW target \in Times, Waits(target)
      PROVE  Apart(target, now', clock', since', late', gap')
  BY <1>1, <1>3, ApartLater DEF Spaced
<1>4. MonitorCount \in Nat \ {0} /\ ControlCount \in Nat \ {0}
  BY ScanAssumption
<1>5. monitorScanIndex' = MonitorIndex /\ controlScanIndex' = ControlIndex
      /\ nextMonitorScanTime' = MonitorTime /\ nextControlScanTime' = ControlTime
  BY DEF ReadNothing
<1>6. monitorScanIndex' \in 1..MonitorCount - 1 => Waits(nextMonitorScanTime)'
  <2>1. SUFFICES ASSUME monitorScanIndex' \in 1..MonitorCount - 1
                 PROVE  Waits(nextMonitorScanTime)'
    OBVIOUS
  <2>2. ~RestartsMonitor /\ monitorScanIndex \in 1..MonitorCount - 1
    BY <1>5, <2>1 DEF MonitorIndex
  <2>3. nextMonitorScanTime' = nextMonitorScanTime /\ Waits(nextMonitorScanTime)
    BY <1>5, <2>2 DEF MonitorTime, Spaced
  <2>4. QED
    BY <1>2, <1>3, <2>3 DEF Waits
<1>7. monitorScanIndex' = MonitorCount /\ controlScanIndex' \in 1..ControlCount - 1
        => Waits(nextControlScanTime)'
  <2>1. SUFFICES ASSUME monitorScanIndex' = MonitorCount,
                        controlScanIndex' \in 1..ControlCount - 1
                 PROVE  Waits(nextControlScanTime)'
    OBVIOUS
  <2>2. /\ ~RestartsMonitor /\ monitorScanIndex = MonitorCount
        /\ ~RestartsControl /\ controlScanIndex \in 1..ControlCount - 1
    <3>1. MonitorIndex = MonitorCount /\ ControlIndex \in 1..ControlCount - 1
      BY <1>5, <2>1
    <3>2. MonitorIndex # 0 /\ ControlIndex # 0
      BY <1>4, <3>1
    <3>3. QED
      BY <3>1, <3>2 DEF MonitorIndex, ControlIndex
  <2>3. nextControlScanTime' = nextControlScanTime /\ Waits(nextControlScanTime)
    BY <1>5, <2>2 DEF ControlTime, Spaced
  <2>4. QED
    BY <1>2, <1>3, <2>3 DEF Waits
<1>8. QED
  BY <1>1, <1>6, <1>7 DEF Spaced

\* So it does within an iteration, whatever takes the time there.
LEMMA PassSpaces ==
  ASSUME LoopTypeOK, Spaced, now' = now,
         UNCHANGED <<monitorScanIndex, nextMonitorScanTime>>,
         UNCHANGED <<controlScanIndex, nextControlScanTime>> \/ controlScanIndex' = 0,
         \/ UNCHANGED <<clock, bus>>
         \/ \E d \in Nat : clock' = After(clock, d) /\ Pass(d, FALSE)
  PROVE  Spaced'
<1>1. nextMonitorScanTime \in Times /\ nextControlScanTime \in Times
  BY LoopTypeParts DEF ScanTypes
<1>2. /\ gap' = gap
      /\ \A target \in Times :
           Waits(target) => Apart(target, now', clock', since', late', gap')
  <2>1. CASE UNCHANGED <<clock, bus>>
    BY <2>1 DEF Waits, bus
  <2>2. CASE \E d \in Nat : clock' = After(clock, d) /\ Pass(d, FALSE)
    <3>1. PICK d \in Nat : clock' = After(clock, d) /\ Pass(d, FALSE)
      BY <2>2
    <3>2. since' = Capped(since + d) /\ gap' = gap /\ late' = late
      BY <3>1 DEF Pass
    <3>3. QED
      BY <3>1, <3>2, ApartLater DEF Spaced
  <2>3. QED
    BY <2>1, <2>2
<1>3. monitorScanIndex' \in 1..MonitorCount - 1 => Waits(nextMonitorScanTime)'
  BY <1>1, <1>2 DEF Spaced, Waits
<1>4. monitorScanIndex' = MonitorCount /\ controlScanIndex' \in 1..ControlCount - 1
        => Waits(nextControlScanTime)'
  <2>1. 0 \notin 1..ControlCount - 1
    BY ScanAssumption
  <2>2. QED
    BY <1>1, <1>2, <2>1 DEF Spaced, Waits
<1>5. QED
  BY <1>2, <1>3, <1>4 DEF Spaced

\* And where both scans start again.
LEMMA RestartSpaces ==
  ASSUME gap' <= Longest("spacing"), monitorScanIndex' = 0
  PROVE  Spaced'
<1>1. MonitorCount # 0 /\ 0 \notin 1..MonitorCount - 1
  BY ScanAssumption
<1>2. QED
  BY <1>1 DEF Spaced

\* The commands a behaviour has do not change.
LEMMA KindsConstant ==
  ASSUME [Next]_vars
  PROVE  kinds' = kinds
BY DEF vars, bounds, Next, Iterate, CheckMonitorConnection, Scan, HandleTiming, HandleWifi,
       HandleHost, HandleWrite, HandleRead, Receive, Spend, Outage, Reboot

\* Every step keeps the reads apart.
LEMMA NextSpaces ==
  ASSUME LoopTypeOK, Spaced, [Next]_vars
  PROVE  Spaced'
<1>1. CASE Scan
  <2>1. PICK d \in 1..MaxTick :
          /\ clock' = After(clock, d) /\ now' = clock'
          /\ \/ ReadMonitor /\ Pass(d, TRUE)
             \/ ReadControl(clock') /\ Pass(d, TRUE)
             \/ ReadNothing /\ Pass(d, FALSE)
    BY <1>1 DEF Scan
  <2>2. d \in Nat
    BY ScanAssumption
  <2>3. QED
    BY <2>1, <2>2, ReadSpaces, NothingSpaces
<1>2. CASE CheckMonitorConnection
  <2>1. /\ UNCHANGED <<now, scan>>
        /\ \/ UNCHANGED <<clock, bus>>
           \/ \E d \in Nat : clock' = After(clock, d) /\ Pass(d, FALSE)
    BY <1>2, CheckTakesTime
  <2>2. QED
    BY <2>1, PassSpaces DEF scan
<1>3. CASE HandleHost
  <2>1. UNCHANGED <<now, scan>>
    BY <1>3 DEF HandleHost, Receive
  <2>2. \/ UNCHANGED <<clock, bus>>
        \/ \E d \in Nat : clock' = After(clock, d) /\ Pass(d, FALSE)
    BY <1>3, LinkTakesTime DEF HandleHost
  <2>3. QED
    BY <2>1, <2>2, PassSpaces DEF scan
<1>4. CASE HandleWrite \/ HandleRead
  <2>1. PICK d \in 1..MaxTick : clock' = After(clock, d) /\ Pass(d, FALSE)
    BY <1>4 DEF HandleWrite, HandleRead
  <2>2. d \in Nat
    BY ScanAssumption
  <2>3. /\ UNCHANGED <<now, monitorScanIndex, nextMonitorScanTime>>
        /\ UNCHANGED <<controlScanIndex, nextControlScanTime>> \/ controlScanIndex' = 0
    BY <1>4 DEF HandleWrite, HandleRead, Receive, scan
  <2>4. QED
    BY <2>1, <2>2, <2>3, PassSpaces
<1>5. CASE Reboot
  <2>1. gap' = 0 /\ monitorScanIndex' = 0
    BY <1>5 DEF Reboot
  <2>2. 0 <= Longest("spacing")
    <3>1. Longest("spacing") \in Nat
      BY LongestSetting, TimesAreNumbers DEF Settings
    <3>2. QED
      BY <3>1
  <2>3. QED
    BY <2>1, <2>2, RestartSpaces
<1>6. CASE UNCHANGED <<clock, now, scan, bus>>
  BY <1>6, PassSpaces DEF scan
<1>7. CASE HandleWifi
  <2>1. now' = now
    BY <1>7 DEF HandleWifi, Receive
  <2>2. CASE UNCHANGED <<clock, stored, scan, wifi, linked, bus>>
    BY <1>6, <2>1, <2>2
  <2>3. CASE ~UNCHANGED <<clock, stored, scan, wifi, linked, bus>>
    <3>1. PICK d \in 1..ConnectTime : Pass(d, FALSE)
      BY <1>7, <2>3 DEF HandleWifi
    <3>2. monitorScanIndex' = 0
      BY <1>7, <2>3 DEF HandleWifi
    <3>3. gap' = gap
      BY <3>1 DEF Pass
    <3>4. QED
      BY <3>2, <3>3, RestartSpaces DEF Spaced
  <2>4. QED
    BY <2>2, <2>3
<1>8. CASE Outage \/ \E setting \in Settings : HandleTiming(setting)
  <2>1. UNCHANGED <<clock, now, scan, bus>>
    BY <1>8 DEF Outage, HandleTiming, Receive
  <2>2. QED
    BY <1>6, <2>1
<1>9. CASE UNCHANGED vars
  BY <1>6, <1>9 DEF vars
<1>10. QED
  BY <1>1, <1>2, <1>3, <1>4, <1>5, <1>7, <1>8, <1>9 DEF Next, Iterate

\* The invariant holds.
LEMMA LoopInvariance == Spec => []LoopInv
<1>1. Init => LoopInv
  <2>1. SUFFICES ASSUME Init PROVE LoopInv
    OBVIOUS
  <2>2. 0 <= Longest("spacing")
    <3>1. Longest("spacing") \in Nat
      BY LongestSetting, TimesAreNumbers DEF Settings
    <3>2. QED
      BY <3>1
  <2>3. MonitorCount # 0 /\ 0 \notin 1..MonitorCount - 1
    BY ScanAssumption
  <2>4. Spaced
    BY <2>1, <2>2, <2>3 DEF Init, Spaced
  <2>5. QED
    BY <2>1, <2>4, InitTypes DEF LoopInv
<1>2. LoopInv /\ [Next]_vars => LoopInv'
  BY NextKeepsTypes, NextSpaces DEF LoopInv
<1>3. QED
  BY <1>1, <1>2, PTL DEF Spec

\* A read that its time allows comes after the spacing.
LEMMA ElapsedMeansSpaced ==
  ASSUME LoopTypeOK, gap <= Longest("spacing"), Longest("spacing") <= Wrap \div 2,
         NEW target \in Times, Waits(target), Elapsed(now, target)
  PROVE  FarFromLastRead
<1>1. /\ Wrap \in Nat \ {0} /\ now \in 0..Wrap - 1 /\ target \in 0..Wrap - 1
      /\ gap \in Nat /\ since \in Nat /\ late \in Nat /\ Longest("spacing") \in Nat
      /\ Wrap \div 2 < Wrap /\ Wrap \div 2 \in Nat /\ 2 * (Wrap \div 2) = Wrap
  BY LoopTypeParts, LongestSetting, TimesAreNumbers, WrapAssumption
     DEF ScanTypes, Settings, Times
<1>2. SUFFICES ASSUME since + late < gap PROVE FALSE
  BY <1>1 DEF FarFromLastRead
<1>3. PICK e \in 0..since : target = After(now, e + (gap - (since + late)))
  <2>1. ~(since + late >= gap)
    BY <1>1, <1>2
  <2>2. QED
    BY <2>1, Zenon DEF Waits, Apart
<1>4. PICK n \in Nat : n = e + (gap - (since + late)) /\ n # 0 /\ n <= Wrap \div 2
  BY <1>1, <1>2, <1>3
<1>5. (target - now) % Wrap = n
  <2>1. n \in 0..Wrap - 1
    BY <1>1, <1>4
  <2>2. QED
    BY <1>1, <1>3, <1>4, <2>1, PlannedAhead DEF After
<1>6. (now - target) % Wrap = Wrap - n
  BY <1>1, <1>4, <1>5, WayBack
<1>7. Wrap - n < Wrap \div 2
  BY <1>6 DEF Elapsed
<1>8. QED
  BY <1>1, <1>4, <1>7

\* Reads of the scans are the spacing apart, counted from the top of the iteration of
\* the first, whatever takes time in the iterations of either; this is ReadsSpaced of
\* the runs.  No spacing in use may exceed half the range of millis(): where
\* REG_SPACING_MS is set to more, timeHasElapsed takes the planned time for a past one.
THEOREM ReadsSpacedHolds ==
  ASSUME Longest("spacing") <= Wrap \div 2
  PROVE  Spec => ReadsSpaced
<1> DEFINE Step ==
      pc = "orders" /\ (\/ ReadMonitor /\ MonitorIndex > 0
                        \/ ReadControl(clock') /\ ControlIndex > 0)
      => FarFromLastRead
<1>1. LoopInv /\ [Next]_vars => [Step]_vars
  <2>1. SUFFICES ASSUME LoopInv
                 PROVE  /\ ReadMonitor /\ MonitorIndex > 0 => FarFromLastRead
                        /\ ReadControl(clock') /\ ControlIndex > 0 => FarFromLastRead
    OBVIOUS
  <2>2. LoopTypeOK /\ Spaced /\ ScanTypes
    BY <2>1, LoopTypeParts DEF LoopInv
  <2>3. MonitorCount \in Nat \ {0} /\ ControlCount \in Nat \ {0}
    BY ScanAssumption
  <2>4. ASSUME ReadMonitor, MonitorIndex > 0 PROVE FarFromLastRead
    <3>1. ~RestartsMonitor /\ monitorScanIndex \in 1..MonitorCount - 1
      BY <2>2, <2>3, <2>4 DEF MonitorIndex, ReadMonitor, ScanTypes
    <3>2. Elapsed(now, nextMonitorScanTime)
      BY <2>4, <3>1 DEF ReadMonitor, MonitorTime
    <3>3. Waits(nextMonitorScanTime) /\ nextMonitorScanTime \in Times
      BY <2>2, <3>1 DEF Spaced, ScanTypes
    <3>4. QED
      BY <2>2, <3>2, <3>3, ElapsedMeansSpaced DEF Spaced
  <2>5. ASSUME ReadControl(clock'), ControlIndex > 0 PROVE FarFromLastRead
    <3>1. /\ ~RestartsControl /\ controlScanIndex \in 1..ControlCount - 1
          /\ monitorScanIndex = MonitorCount
      BY <2>2, <2>3, <2>5 DEF ControlIndex, MonitorIndex, ReadControl, ScanTypes
    <3>2. Elapsed(now, nextControlScanTime)
      BY <2>5, <3>1 DEF ReadControl, ControlTime
    <3>3. Waits(nextControlScanTime) /\ nextControlScanTime \in Times
      BY <2>2, <3>1 DEF Spaced, ScanTypes
    <3>4. QED
      BY <2>2, <3>2, <3>3, ElapsedMeansSpaced DEF Spaced
  <2>6. QED
    BY <2>4, <2>5
<1>2. QED
  BY <1>1, LoopInvariance, PTL DEF Spec, ReadsSpaced

----------------------------------------------------------------------------
(* The scans are on schedule.                                              *)

\* What the theorem below asks of the longest iteration T: half the range of millis()
\* has room for a monitor scan, and a write does not take longer than a control
\* interval.
Room(T) ==
  /\ T <= Longest("control")
  /\ 2 * Latest(T, MonitorCount - 1) < Wrap

\* How the wait of a control read grows with the reads of a monitor scan.
LEMMA LatestGrows ==
  ASSUME NEW T \in Nat, NEW i \in Nat
  PROVE  /\ Latest(T, i) \in Nat /\ Latest(T, i) >= ConnectTime + T
         /\ Latest(T, i + 1) = Latest(T, i) + Longest("spacing") + T
         /\ i > 0 => Latest(T, i) >= ConnectTime + T + Longest("spacing") + T
         /\ \A j \in Nat : j >= i => Latest(T, j) >= Latest(T, i)
<1> DEFINE K == Longest("spacing") + T
<1>1. Longest("spacing") \in Nat /\ ConnectTime \in Nat
  BY LongestSetting, TimesAreNumbers, ScanAssumption DEF Settings
<1>2. K \in Nat /\ ConnectTime + T \in Nat
  BY <1>1
<1>3. \A n \in Nat : Latest(T, n) = ConnectTime + T + n * K
  BY DEF Latest
<1>4. K = Longest("spacing") + T
  OBVIOUS
<1> HIDE DEF K
<1>5. \A n \in Nat : n * K \in Nat
  BY <1>2
<1>6. (i + 1) * K = i * K + K
  BY <1>2
<1>7. i > 0 => i * K >= K
  <2>1. SUFFICES ASSUME i > 0 PROVE i * K >= K
    OBVIOUS
  <2>2. i - 1 \in Nat /\ i * K = (i - 1) * K + K
    BY <1>2, <2>1
  <2>3. (i - 1) * K \in Nat /\ i * K \in Nat
    BY <1>5, <2>2
  <2>4. QED
    BY <1>2, <2>2, <2>3
<1>8. \A j \in Nat : j >= i => j * K >= i * K
  <2>1. SUFFICES ASSUME NEW j \in Nat, j >= i PROVE j * K >= i * K
    OBVIOUS
  <2>2. j - i \in Nat /\ j * K = (j - i) * K + i * K
    BY <1>2, <2>1
  <2>3. (j - i) * K \in Nat /\ i * K \in Nat /\ j * K \in Nat
    BY <1>5, <2>2
  <2>4. QED
    BY <2>2, <2>3
<1>9. Latest(T, i) \in Nat /\ Latest(T, i) >= ConnectTime + T
  BY <1>1, <1>3, <1>5
<1>10. Latest(T, i + 1) = Latest(T, i) + Longest("spacing") + T
  <2>1. Latest(T, i + 1) = ConnectTime + T + (i * K + K)
    BY <1>3, <1>6
  <2>2. Latest(T, i) = ConnectTime + T + i * K /\ i * K \in Nat
    BY <1>3, <1>5
  <2>3. QED
    BY <1>1, <1>2, <1>4, <2>1, <2>2
<1>11. i > 0 => Latest(T, i) >= ConnectTime + T + Longest("spacing") + T
  BY <1>1, <1>3, <1>4, <1>5, <1>7
<1>12. \A j \in Nat : j >= i => Latest(T, j) >= Latest(T, i)
  <2>1. SUFFICES ASSUME NEW j \in Nat, j >= i PROVE Latest(T, j) >= Latest(T, i)
    OBVIOUS
  <2>2. j * K >= i * K /\ j * K \in Nat /\ i * K \in Nat
    BY <1>5, <1>8, <2>1
  <2>3. Latest(T, j) = ConnectTime + T + j * K /\ Latest(T, i) = ConnectTime + T + i * K
    BY <1>3
  <2>4. QED
    BY <1>1, <2>2, <2>3
<1>13. QED
  BY <1>9, <1>10, <1>11, <1>12

\* Numbers that the steps below need.
LEMMA RoomFacts ==
  ASSUME NEW T \in Nat, Room(T)
  PROVE  /\ {Longest(setting) : setting \in Settings} \subseteq 1..Wrap - 1
         /\ Wrap \in Nat \ {0} /\ {ConnectTime, MonitorCount, ControlCount} \subseteq Nat \ {0}
         /\ 2 * (ConnectTime + T) < Wrap
         /\ \A i \in 0..MonitorCount - 1 : 2 * Latest(T, i) < Wrap /\ Latest(T, i) \in Nat
<1>1. /\ Wrap \in Nat \ {0} /\ MonitorCount - 1 \in Nat
      /\ {ConnectTime, MonitorCount, ControlCount} \subseteq Nat \ {0}
  BY WrapAssumption, ScanAssumption
<1>2. {Longest(setting) : setting \in Settings} \subseteq 1..Wrap - 1
  <2>1. \A setting \in Settings : Longest(setting) \in Times \ {0}
    BY LongestSetting
  <2>2. Times \ {0} \subseteq 1..Wrap - 1
    BY <1>1 DEF Times
  <2>3. QED
    BY <2>1, <2>2
<1>3. ASSUME NEW i \in 0..MonitorCount - 1
      PROVE  /\ 2 * Latest(T, i) < Wrap /\ Latest(T, i) \in Nat
             /\ Latest(T, i) >= ConnectTime + T
  <2>1. i \in Nat /\ MonitorCount - 1 >= i
    BY <1>1
  <2>2. /\ Latest(T, i) \in Nat /\ Latest(T, i) >= ConnectTime + T
        /\ Latest(T, MonitorCount - 1) >= Latest(T, i)
        /\ Latest(T, MonitorCount - 1) \in Nat
    BY <1>1, <2>1, LatestGrows
  <2>3. QED
    BY <1>1, <2>2 DEF Room
<1>4. 2 * (ConnectTime + T) < Wrap
  <2>1. 0 \in 0..MonitorCount - 1
    BY <1>1
  <2>2. QED
    BY <1>1, <1>3, <2>1
<1>5. QED
  BY <1>1, <1>2, <1>3, <1>4

\* What a time that is k away means to timeHasElapsed, now and when d has passed.
LEMMA OffsetFacts ==
  ASSUME NEW t \in Times, NEW k \in Int, -Wrap < 2 * k, k < Wrap
  PROVE  /\ k <= 0 => Elapsed(t, (t + k) % Wrap)
         /\ k >= 0 => (((t + k) % Wrap) - t) % Wrap = k
         /\ \A d \in Nat : 2 * d <= Wrap => (After(t, d) + (k - d)) % Wrap = (t + k) % Wrap
<1>1. Wrap \in Nat \ {0} /\ t \in 0..Wrap - 1
  BY WrapAssumption DEF Times
<1>2. ASSUME k <= 0 PROVE Elapsed(t, (t + k) % Wrap)
  <2>1. -k \in Nat /\ -k < Wrap /\ 2 * (-k) < Wrap
    BY <1>1, <1>2
  <2>2. (t - ((t - (-k)) % Wrap)) % Wrap = -k
    BY <1>1, <2>1, OffsetPast
  <2>3. t - (-k) = t + k
    BY <1>1
  <2>4. -k < Wrap \div 2
    BY <1>1, <2>1, WrapAssumption
  <2>5. QED
    BY <2>2, <2>3, <2>4 DEF Elapsed
<1>3. ASSUME k >= 0 PROVE (((t + k) % Wrap) - t) % Wrap = k
  <2>1. k \in 0..Wrap - 1
    BY <1>1, <1>3
  <2>2. QED
    BY <1>1, <2>1, PlannedAhead
<1>4. ASSUME NEW d \in Nat, 2 * d <= Wrap
      PROVE  (After(t, d) + (k - d)) % Wrap = (t + k) % Wrap
  BY <1>1, <1>4, OffsetMoves DEF After
<1>5. QED
  BY <1>2, <1>3, <1>4

\* The two offsets are within the range that timeHasElapsed can tell.
LEMMA OffsetsInRange ==
  ASSUME NEW T \in Nat, Room(T), monitorScanIndex \in 0..MonitorCount,
         NEW m \in Int, NEW k \in Int, Planned(T, m, k)
  PROVE  -Wrap < 2 * m /\ m < Wrap /\ -Wrap < 2 * k /\ k < Wrap
<1>1. /\ {Longest("monitor"), Longest("control"), Longest("spacing")} \subseteq 1..Wrap - 1
      /\ Wrap \in Nat \ {0} /\ ConnectTime \in Nat /\ MonitorCount \in Nat
      /\ 2 * (ConnectTime + T) < Wrap
  BY RoomFacts DEF Settings
<1>2. -Wrap < 2 * m /\ m < Wrap
  BY <1>1 DEF Planned
<1>3. k < Wrap
  BY <1>1 DEF Planned
<1>4. CASE monitorScanIndex = MonitorCount
  BY <1>1, <1>2, <1>3, <1>4 DEF Planned
<1>5. CASE monitorScanIndex # MonitorCount
  <2>1. monitorScanIndex \in 0..MonitorCount - 1 /\ monitorScanIndex < MonitorCount
    BY <1>1, <1>5
  <2>2. PICK n \in Nat : n = Latest(T, monitorScanIndex) /\ 2 * n < Wrap
    BY <2>1, RoomFacts
  <2>3. -k <= n
    BY <2>1, <2>2 DEF Planned
  <2>4. -Wrap < 2 * k
    BY <1>1, <2>2, <2>3
  <2>5. QED
    BY <1>2, <1>3, <2>4
<1>6. QED
  BY <1>4, <1>5

\* The invariant implies the property.
LEMMA OnTimeMeansOnSchedule ==
  ASSUME NEW T \in Nat, Room(T), LoopTypeOK, OnTime(T)
  PROVE  /\ OnSchedule(nextMonitorScanTime, "monitor")
         /\ OnSchedule(nextControlScanTime, "control")
<1>1. PICK m \in Int, k \in Int :
        At(nextMonitorScanTime, m) /\ At(nextControlScanTime, k) /\ Planned(T, m, k)
  BY DEF OnTime
<1>2. now \in Times /\ monitorScanIndex \in 0..MonitorCount
  BY LoopTypeParts DEF ScanTypes
<1>3. -Wrap < 2 * m /\ m < Wrap /\ -Wrap < 2 * k /\ k < Wrap
  BY <1>1, <1>2, OffsetsInRange
<1>4. ASSUME NEW target, NEW j \in Int, At(target, j), -Wrap < 2 * j, j < Wrap,
             NEW setting \in {"monitor", "control"},
             j <= Longest(setting) \/ j <= Longest("spacing")
      PROVE  OnSchedule(target, setting)
  <2>1. CASE j <= 0
    BY <1>2, <1>4, <2>1, OffsetFacts DEF OnSchedule, At
  <2>2. CASE j >= 0
    <3>1. (target - now) % Wrap = j
      BY <1>2, <1>4, <2>2, OffsetFacts DEF At
    <3>2. QED
      BY <1>4, <3>1 DEF OnSchedule
  <2>3. QED
    BY <2>1, <2>2
<1>5. /\ m <= Longest("monitor") \/ m <= Longest("spacing")
      /\ k <= Longest("control") \/ k <= Longest("spacing")
  BY <1>1 DEF Planned
<1>6. OnSchedule(nextMonitorScanTime, "monitor")
  BY <1>1, <1>3, <1>4, <1>5
<1>7. OnSchedule(nextControlScanTime, "control")
  BY <1>1, <1>3, <1>4, <1>5
<1>8. QED
  BY <1>6, <1>7

\* The control scan goes on from its time, or starts again now; if it is not to be
\* read, its time is ahead.
LEMMA ControlGoesOn ==
  ASSUME LoopTypeOK, NEW k \in Int, At(nextControlScanTime, k), -Wrap < 2 * k, k < Wrap
  PROVE  \E n \in {0, k} :
           /\ ControlTime = (now + n) % Wrap
           /\ ControlIndex >= ControlCount \/ ~Elapsed(now, ControlTime) => n > 0
<1>1. /\ Wrap \in Nat \ {0} /\ now \in Times /\ now \in 0..Wrap - 1
      /\ controlScanIndex \in 0..ControlCount /\ ControlCount \in Nat \ {0}
  BY LoopTypeParts, WrapAssumption, ScanAssumption DEF ScanTypes, Times
<1>2. now = (now + 0) % Wrap /\ -Wrap < 2 * 0 /\ 0 < Wrap
  BY <1>1
<1>3. Elapsed(now, now)
  <2>1. 0 <= 0 => Elapsed(now, (now + 0) % Wrap)
    BY <1>1, <1>2, OffsetFacts
  <2>2. QED
    BY <1>2, <2>1
<1>4. CASE RestartsControl
  <2>1. ControlTime = now /\ ControlIndex = 0
    BY <1>4 DEF ControlTime, ControlIndex
  <2>2. ~(ControlIndex >= ControlCount) /\ Elapsed(now, ControlTime)
    BY <1>1, <1>3, <2>1
  <2>3. QED
    BY <1>2, <2>1, <2>2
<1>5. CASE ~RestartsControl
  <2>1. ControlTime = nextControlScanTime /\ ControlIndex = controlScanIndex
    BY <1>5 DEF ControlTime, ControlIndex
  <2>2. ControlIndex >= ControlCount => ~Elapsed(now, ControlTime)
    BY <1>5, <2>1 DEF RestartsControl
  <2>3. ~Elapsed(now, ControlTime) => k > 0
    <3>1. k <= 0 => Elapsed(now, (now + k) % Wrap)
      BY <1>1, OffsetFacts
    <3>2. QED
      BY <2>1, <3>1 DEF At
  <2>4. QED
    BY <2>1, <2>2, <2>3 DEF At
<1>6. QED
  BY <1>4, <1>5

\* The monitor scan goes on from its time, or starts again now and is read; if it is
\* not to be read, its time is ahead.
LEMMA MonitorGoesOnOrRestarts ==
  ASSUME LoopTypeOK, NEW m \in Int, At(nextMonitorScanTime, m), -Wrap < 2 * m, m < Wrap
  PROVE  /\ RestartsMonitor => /\ monitorScanIndex = MonitorCount /\ MonitorIndex = 0
                               /\ MonitorCount > 0 /\ Elapsed(now, MonitorTime)
         /\ ~RestartsMonitor => MonitorIndex = monitorScanIndex /\ At(MonitorTime, m)
         /\ MonitorIndex >= MonitorCount \/ ~Elapsed(now, MonitorTime)
              => ~RestartsMonitor /\ m > 0
<1>1. /\ Wrap \in Nat \ {0} /\ now \in Times /\ now \in 0..Wrap - 1
      /\ monitorScanIndex \in 0..MonitorCount /\ MonitorCount \in Nat \ {0}
  BY LoopTypeParts, WrapAssumption, ScanAssumption DEF ScanTypes, Times
<1>2. Elapsed(now, now)
  <2>1. now = (now + 0) % Wrap /\ -Wrap < 2 * 0 /\ 0 < Wrap
    BY <1>1
  <2>2. 0 <= 0 => Elapsed(now, (now + 0) % Wrap)
    BY <1>1, <2>1, OffsetFacts
  <2>3. QED
    BY <2>1, <2>2
<1>3. CASE RestartsMonitor
  <2>1. MonitorTime = now /\ MonitorIndex = 0 /\ monitorScanIndex = MonitorCount
    BY <1>1, <1>3 DEF RestartsMonitor, MonitorTime, MonitorIndex
  <2>2. QED
    BY <1>1, <1>2, <1>3, <2>1
<1>4. CASE ~RestartsMonitor
  <2>1. MonitorTime = nextMonitorScanTime /\ MonitorIndex = monitorScanIndex
    BY <1>4 DEF MonitorTime, MonitorIndex
  <2>2. MonitorIndex >= MonitorCount => ~Elapsed(now, MonitorTime)
    BY <1>4, <2>1 DEF RestartsMonitor
  <2>3. m <= 0 => Elapsed(now, (now + m) % Wrap)
    BY <1>1, OffsetFacts
  <2>4. ~Elapsed(now, MonitorTime) => m > 0
    BY <2>1, <2>3 DEF At
  <2>5. QED
    BY <1>4, <2>1, <2>2, <2>4
<1>5. QED
  BY <1>3, <1>4

\* The second half of loop() keeps the scans on time.
LEMMA ScanKeepsOnTime ==
  ASSUME NEW T \in Nat, Room(T), LoopTypeOK, Timely(T), OnTime(T), Scan
  PROVE  OnTime(T)'
<1>1. PICK m \in Int, k \in Int :
        At(nextMonitorScanTime, m) /\ At(nextControlScanTime, k) /\ Planned(T, m, k)
  BY DEF OnTime
<1>2. /\ now \in Times /\ now \in 0..Wrap - 1 /\ clock \in 0..Wrap - 1
      /\ monitorScanIndex \in 0..MonitorCount
  BY LoopTypeParts DEF ScanTypes, Times
<1>3. -Wrap < 2 * m /\ m < Wrap /\ -Wrap < 2 * k /\ k < Wrap
  BY <1>1, <1>2, OffsetsInRange
<1>4. /\ {Longest("monitor"), Longest("control"), Longest("spacing")} \subseteq 1..Wrap - 1
      /\ Wrap \in Nat \ {0} /\ ConnectTime \in Nat /\ MonitorCount \in Nat \ {0}
      /\ ControlCount \in Nat \ {0} /\ 2 * (ConnectTime + T) < Wrap
  BY RoomFacts DEF Settings
<1>5. PICK d \in Nat :
        /\ d <= T /\ 2 * d <= Wrap /\ now' = After(now, d)
        /\ ReadMonitor \/ ReadControl(clock') \/ ReadNothing
  <2>1. PICK e \in 1..MaxTick :
          /\ clock' = After(clock, e) /\ now' = clock'
          /\ ReadMonitor \/ ReadControl(clock') \/ ReadNothing
    BY DEF Scan
  <2>2. e \in Nat /\ e <= MaxTick /\ MaxTick \in Nat /\ (clock - now) % Wrap \in Nat
    BY <1>2, <1>4, ScanAssumption
  <2>3. ((clock - now) % Wrap) + e <= T
    BY <2>2 DEF Timely
  <2>4. ((clock - now) % Wrap) + e < Wrap /\ 2 * (((clock - now) % Wrap) + e) <= Wrap
    BY <1>4, <2>2, <2>3
  <2>5. (clock + e) % Wrap = (now + (((clock - now) % Wrap) + e)) % Wrap
    BY <1>2, <1>4, <2>2, <2>4, TimeAdds
  <2>6. ((clock - now) % Wrap) + e \in Nat
    BY <2>2
  <2>7. QED
    BY <2>1, <2>3, <2>4, <2>5, <2>6 DEF After
<1>6. ASSUME NEW m1 \in Int, -Wrap < 2 * m1, m1 < Wrap,
             NEW k1 \in Int, -Wrap < 2 * k1, k1 < Wrap,
             nextMonitorScanTime' = (now + m1) % Wrap,
             nextControlScanTime' = (now + k1) % Wrap,
             Planned(T, m1 - d, k1 - d)'
      PROVE  OnTime(T)'
  <2>1. /\ (now' + (m1 - d)) % Wrap = (now + m1) % Wrap
        /\ (now' + (k1 - d)) % Wrap = (now + k1) % Wrap
    BY <1>2, <1>5, <1>6, OffsetFacts
  <2>2. m1 - d \in Int /\ k1 - d \in Int
    BY <1>5
  <2>3. At(nextMonitorScanTime, m1 - d)' /\ At(nextControlScanTime, k1 - d)'
    BY <1>6, <2>1 DEF At
  <2>4. QED
    BY <1>6, <2>2, <2>3 DEF OnTime
<1>7. ASSUME NEW setting \in Settings
      PROVE  /\ timing[setting] \in 1..Wrap - 1 /\ timing[setting] <= Longest(setting)
             /\ After(now, timing[setting]) = (now + timing[setting]) % Wrap
             /\ -Wrap < 2 * timing[setting]
  <2>1. timing[setting] \in Times \ {0} /\ timing[setting] <= Longest(setting)
    BY LongestSetting, LoopTypeParts DEF ConfigTypes, Timing, Chosen
  <2>2. timing[setting] \in 1..Wrap - 1
    BY <1>4, <2>1 DEF Times
  <2>3. QED
    BY <1>4, <2>1, <2>2 DEF After
<1>8. {"monitor", "control", "spacing"} \subseteq Settings
  BY DEF Settings
<1>9. PICK c \in {0, k} :
        /\ ControlTime = (now + c) % Wrap
        /\ ControlIndex >= ControlCount \/ ~Elapsed(now, ControlTime) => c > 0
  BY <1>1, <1>3, ControlGoesOn
<1>10. /\ c \in Int /\ -Wrap < 2 * c /\ c < Wrap
       /\ c <= Longest("control") \/ c <= Longest("spacing")
  <2>1. k <= Longest("control") \/ k <= Longest("spacing")
    BY <1>1 DEF Planned
  <2>2. QED
    BY <1>3, <1>4, <2>1
<1>11. /\ RestartsMonitor => /\ monitorScanIndex = MonitorCount /\ MonitorIndex = 0
                             /\ MonitorCount > 0 /\ Elapsed(now, MonitorTime)
       /\ ~RestartsMonitor => MonitorIndex = monitorScanIndex /\ At(MonitorTime, m)
       /\ MonitorIndex >= MonitorCount \/ ~Elapsed(now, MonitorTime)
            => ~RestartsMonitor /\ m > 0
  BY <1>1, <1>3, MonitorGoesOnOrRestarts
<1>12. CASE ReadMonitor
  <2>1. /\ MonitorIndex < MonitorCount /\ monitorScanIndex' = MonitorIndex + 1
        /\ MonitorIndex \in 0..MonitorCount - 1
    BY <1>2, <1>4, <1>11, <1>12 DEF ReadMonitor
  <2>2. PICK n \in Nat : n = Latest(T, MonitorIndex)
    BY <2>1, RoomFacts
  <2>3. /\ n >= ConnectTime + T
        /\ Latest(T, MonitorIndex + 1) = n + Longest("spacing") + T
    BY <2>1, <2>2, LatestGrows
  <2>4. -c <= n
    <3>1. CASE RestartsMonitor
      BY <1>1, <1>4, <1>11, <2>3, <3>1 DEF Planned
    <3>2. CASE ~RestartsMonitor
      BY <1>1, <1>11, <2>1, <2>2, <3>2 DEF Planned
    <3>3. QED
      BY <3>1, <3>2
  <2>5. CASE MonitorIndex + 1 # MonitorCount
    <3>1. PICK m1 \in 1..Wrap - 1 :
            m1 = timing["spacing"] /\ m1 <= Longest("spacing")
            /\ After(now, timing["spacing"]) = (now + m1) % Wrap
      BY <1>7, <1>8
    <3>2. nextMonitorScanTime' = (now + m1) % Wrap /\ nextControlScanTime' = (now + c) % Wrap
      BY <1>9, <1>12, <2>5, <3>1 DEF ReadMonitor
    <3>3. Planned(T, m1 - d, c - d)'
      <4>1. m1 - d <= Longest("spacing")
        BY <1>4, <1>5, <3>1
      <4>2. c - d <= Longest("control") \/ c - d <= Longest("spacing")
        BY <1>4, <1>5, <1>10
      <4>3. -(m1 - d) <= ConnectTime + T
        BY <1>4, <1>5, <3>1
      <4>4. -(c - d) <= n + Longest("spacing") + T
        BY <1>4, <1>5, <2>4
      <4>5. m1 - d + T - (c - d) <= n + Longest("spacing") + T
        BY <1>4, <1>5, <2>4, <3>1
      <4>6. monitorScanIndex' # MonitorCount /\ monitorScanIndex' > 0
        BY <2>1, <2>5
      <4>7. Latest(T, monitorScanIndex') = n + Longest("spacing") + T
        BY <2>1, <2>3
      <4>8. QED
        BY <4>1, <4>2, <4>3, <4>4, <4>5, <4>6, <4>7 DEF Planned
    <3>4. QED
      BY <1>4, <1>6, <1>10, <3>1, <3>2, <3>3
  <2>6. CASE MonitorIndex + 1 = MonitorCount
    <3>1. PICK m1 \in 1..Wrap - 1 :
            m1 = timing["monitor"] /\ m1 <= Longest("monitor")
            /\ After(now, timing["monitor"]) = (now + m1) % Wrap
      BY <1>7, <1>8
    <3>2. PICK k1 \in 1..Wrap - 1 :
            /\ k1 <= Longest("control") \/ k1 <= Longest("spacing")
            /\ ControlTimeAfterMonitor = (now + k1) % Wrap
      <4>1. CASE ControlIndex < ControlCount
        BY <1>7, <1>8, <4>1 DEF ControlTimeAfterMonitor
      <4>2. CASE ~(ControlIndex < ControlCount)
        <5>1. ControlIndex >= ControlCount
          BY <1>4, <4>2, RestartTypes, LoopTypeParts
        <5>2. c \in 1..Wrap - 1
          <6>1. c > 0
            BY <1>9, <5>1
          <6>2. QED
            BY <1>4, <1>10, <6>1
        <5>3. QED
          BY <1>9, <1>10, <4>2, <5>2 DEF ControlTimeAfterMonitor
      <4>3. QED
        BY <4>1, <4>2
    <3>3. nextMonitorScanTime' = (now + m1) % Wrap /\ nextControlScanTime' = (now + k1) % Wrap
      BY <1>12, <2>6, <3>1, <3>2 DEF ReadMonitor
    <3>4. Planned(T, m1 - d, k1 - d)'
      <4>1. m1 - d <= Longest("monitor")
        BY <1>4, <1>5, <3>1
      <4>2. k1 - d <= Longest("control") \/ k1 - d <= Longest("spacing")
        BY <1>4, <1>5, <3>2
      <4>3. -(m1 - d) <= ConnectTime + T /\ -(k1 - d) <= T
        BY <1>4, <1>5, <3>1, <3>2
      <4>4. ~(monitorScanIndex' < MonitorCount)
        BY <1>4, <2>1, <2>6
      <4>5. QED
        BY <4>1, <4>2, <4>3, <4>4 DEF Planned
    <3>5. QED
      BY <1>4, <1>6, <3>1, <3>2, <3>3, <3>4
  <2>7. QED
    BY <2>5, <2>6
<1>13. CASE ReadControl(clock')
  <2>1. /\ ~RestartsMonitor /\ m > 0 /\ MonitorTime = (now + m) % Wrap
        /\ monitorScanIndex' = MonitorCount /\ monitorScanIndex = MonitorCount
    BY <1>2, <1>4, <1>11, <1>13 DEF ReadControl, At
  <2>2. PICK setting \in {"control", "spacing"} :
          nextControlScanTime' = After(now, timing[setting])
    BY <1>13 DEF ReadControl
  <2>3. PICK k1 \in 1..Wrap - 1 :
          /\ k1 <= Longest("control") \/ k1 <= Longest("spacing")
          /\ nextControlScanTime' = (now + k1) % Wrap
    BY <1>7, <1>8, <2>2
  <2>4. nextMonitorScanTime' = (now + m) % Wrap
    BY <1>13, <2>1 DEF ReadControl
  <2>5. Planned(T, m - d, k1 - d)'
    <3>1. m - d <= Longest("monitor") \/ m - d <= Longest("spacing")
      BY <1>1, <1>4, <1>5 DEF Planned
    <3>2. k1 - d <= Longest("control") \/ k1 - d <= Longest("spacing")
      BY <1>4, <1>5, <2>3
    <3>3. -(m - d) <= ConnectTime + T /\ -(k1 - d) <= T
      BY <1>4, <1>5, <2>1, <2>3
    <3>4. QED
      BY <1>4, <2>1, <3>1, <3>2, <3>3 DEF Planned
  <2>6. QED
    BY <1>3, <1>4, <1>6, <2>3, <2>4, <2>5
<1>14. CASE ReadNothing
  <2>1. \/ MonitorIndex < MonitorCount /\ ~Elapsed(now, MonitorTime)
        \/ /\ MonitorIndex >= MonitorCount
           /\ ControlIndex >= ControlCount \/ ~Elapsed(now, ControlTime)
    BY <1>14 DEF ReadNothing
  <2>2. /\ ~RestartsMonitor /\ m > 0 /\ MonitorIndex = monitorScanIndex
        /\ nextMonitorScanTime' = (now + m) % Wrap /\ monitorScanIndex' = monitorScanIndex
        /\ nextControlScanTime' = (now + c) % Wrap
    BY <1>9, <1>11, <1>14, <2>1 DEF ReadNothing, At
  <2>3. /\ m - d <= Longest("monitor") \/ m - d <= Longest("spacing")
        /\ c - d <= Longest("control") \/ c - d <= Longest("spacing")
        /\ -(m - d) <= ConnectTime + T
    BY <1>1, <1>4, <1>5, <1>10, <2>2 DEF Planned
  <2>4. CASE monitorScanIndex = MonitorCount
    <3>1. c > 0
      BY <1>4, <1>9, <2>1, <2>2, <2>4
    <3>2. -(c - d) <= T
      BY <1>5, <1>10, <3>1
    <3>3. Planned(T, m - d, c - d)'
      BY <1>4, <2>2, <2>3, <2>4, <3>2 DEF Planned
    <3>4. QED
      BY <1>3, <1>6, <1>10, <2>2, <3>3
  <2>5. CASE monitorScanIndex # MonitorCount
    <3>1. monitorScanIndex < MonitorCount /\ monitorScanIndex \in 0..MonitorCount - 1
      BY <1>2, <1>4, <2>5
    <3>2. PICK n \in Nat : n = Latest(T, monitorScanIndex)
      BY <3>1, RoomFacts
    <3>3. /\ m <= Longest("spacing") /\ -k <= n /\ monitorScanIndex > 0 /\ m + T - k <= n
      BY <1>1, <2>2, <3>1, <3>2 DEF Planned
    <3>4. n >= ConnectTime + T + Longest("spacing") + T
      BY <3>1, <3>2, <3>3, LatestGrows
    <3>5. m + T - c <= n
      BY <1>4, <1>9, <3>3, <3>4
    <3>6. /\ m - d <= Longest("spacing") /\ -(c - d) <= n /\ m - d + T - (c - d) <= n
      BY <1>4, <1>5, <1>10, <2>2, <3>3, <3>5
    <3>7. Planned(T, m - d, c - d)'
      BY <2>2, <2>3, <2>5, <3>2, <3>3, <3>6 DEF Planned
    <3>8. QED
      BY <1>3, <1>6, <1>10, <2>2, <3>7
  <2>6. QED
    BY <2>4, <2>5
<1>15. QED
  BY <1>5, <1>12, <1>13, <1>14

\* A register that a client wrote is due when the write has ended.
LEMMA WriteKeepsOnTime ==
  ASSUME NEW T \in Nat, Room(T), LoopTypeOK, LoopTypeOK', Timely(T)', OnTime(T), HandleWrite
  PROVE  OnTime(T)'
<1>1. PICK m \in Int, k \in Int :
        At(nextMonitorScanTime, m) /\ At(nextControlScanTime, k) /\ Planned(T, m, k)
  BY DEF OnTime
<1>2. UNCHANGED <<now, monitorScanIndex, nextMonitorScanTime>>
  BY DEF HandleWrite, Receive
<1>3. CASE UNCHANGED nextControlScanTime
  <2>1. At(nextMonitorScanTime, m)' /\ At(nextControlScanTime, k)' /\ Planned(T, m, k)'
    BY <1>1, <1>2, <1>3 DEF At, Planned
  <2>2. QED
    BY <2>1 DEF OnTime
<1>4. CASE nextControlScanTime' = clock'
  <2>1. /\ now \in 0..Wrap - 1 /\ monitorScanIndex \in 0..MonitorCount
        /\ clock' \in 0..Wrap - 1
    BY LoopTypeParts DEF ScanTypes, Times, LoopTypeOK, TypeOK
  <2>2. /\ Longest("control") \in 1..Wrap - 1 /\ Longest("spacing") \in 1..Wrap - 1
        /\ Wrap \in Nat \ {0} /\ MonitorCount \in Nat /\ ConnectTime \in Nat
    BY RoomFacts DEF Settings
  <2>3. PICK u \in 0..Wrap - 1 : u = clock'
    BY <2>1
  <2> DEFINE gone == (u - now) % Wrap
  <2>4. gone \in 0..Wrap - 1
    BY <2>1, <2>2
  <2>5. PICK j \in 0..Wrap - 1 : j = gone
    BY <2>4
  <2>6. j <= T /\ j <= Longest("control")
    <3>1. j + MaxTick <= T /\ MaxTick \in Nat
      BY <1>2, <2>3, <2>5, ScanAssumption DEF Timely
    <3>2. QED
      BY <2>2, <3>1 DEF Room
  <2>7. (u + 0) % Wrap = (now + (((u - now) % Wrap) + 0)) % Wrap
    <3>1. ((u - now) % Wrap) + 0 < Wrap
      BY <2>2, <2>4
    <3>2. QED
      BY <2>1, <2>2, <3>1, TimeAdds, SMTT(20)
  <2>8. clock' = (now + j) % Wrap
    <3>1. (u + 0) % Wrap = u /\ j + 0 = j
      BY <2>2
    <3>2. QED
      BY <2>3, <2>5, <2>7, <3>1
  <2>9. Planned(T, m, j)
    <3>1. /\ m <= Longest("monitor") \/ m <= Longest("spacing")
          /\ -m <= ConnectTime + T /\ -j <= T
      BY <1>1, <2>2, <2>5 DEF Planned
    <3>2. ASSUME monitorScanIndex < MonitorCount
          PROVE  /\ m <= Longest("spacing") /\ -j <= Latest(T, monitorScanIndex)
                 /\ m > 0 => monitorScanIndex > 0 /\ m + T - j <= Latest(T, monitorScanIndex)
      <4>1. monitorScanIndex \in Nat /\ monitorScanIndex \in 0..MonitorCount - 1
        BY <2>1, <2>2, <3>2
      <4>2. PICK n \in Nat : n = Latest(T, monitorScanIndex)
        BY <4>1, RoomFacts
      <4>3. m <= Longest("spacing") /\ (m > 0 => monitorScanIndex > 0)
        BY <1>1, <3>2 DEF Planned
      <4>4. monitorScanIndex > 0 => n >= ConnectTime + T + Longest("spacing") + T
        BY <4>1, <4>2, LatestGrows
      <4>5. monitorScanIndex > 0 => m + T - j <= n
        BY <2>2, <4>3, <4>4
      <4>6. QED
        BY <4>2, <4>3, <4>5
    <3>3. QED
      BY <2>6, <3>1, <3>2 DEF Planned
  <2>10. At(nextMonitorScanTime, m)' /\ At(nextControlScanTime, j)' /\ Planned(T, m, j)'
    BY <1>1, <1>2, <1>4, <2>8, <2>9 DEF At, Planned
  <2>11. QED
    BY <2>10 DEF OnTime
<1>5. QED
  BY <1>3, <1>4 DEF HandleWrite

\* A start sets both times to 0, which is less than half a turn ago.
LEMMA RebootKeepsOnTime ==
  ASSUME NEW T \in Nat, Room(T), Reboot
  PROVE  OnTime(T)'
<1>1. PICK d \in 1..ConnectTime : clock' = d % Wrap
  BY DEF Reboot
<1>2. /\ now' = clock' /\ nextMonitorScanTime' = 0 /\ nextControlScanTime' = 0
      /\ monitorScanIndex' = 0
  BY DEF Reboot
<1>3. /\ {Longest("monitor"), Longest("control"), Longest("spacing")} \subseteq 1..Wrap - 1
      /\ Wrap \in Nat \ {0} /\ ConnectTime \in Nat /\ MonitorCount \in Nat \ {0}
      /\ 2 * (ConnectTime + T) < Wrap
  BY RoomFacts DEF Settings
<1>4. d \in Nat /\ d <= ConnectTime /\ d < Wrap
  BY <1>3
<1>5. now' = d
  BY <1>1, <1>2, <1>3, <1>4
<1>6. (d + (-d)) % Wrap = 0 /\ -d \in Int
  <2>1. d + (-d) = 0 /\ 0 % Wrap = 0
    BY <1>3, <1>4
  <2>2. QED
    BY <1>4, <2>1
<1>7. PICK n \in Nat : n = Latest(T, 0) /\ n >= ConnectTime + T
  BY LatestGrows
<1>8. Planned(T, -d, -d)'
  <2>1. -d <= Longest("monitor") /\ -d <= Longest("control") /\ -d <= Longest("spacing")
    BY <1>3, <1>4
  <2>2. -(-d) <= ConnectTime + T /\ -(-d) <= n /\ ~(-d > 0)
    BY <1>3, <1>4, <1>7
  <2>3. monitorScanIndex' # MonitorCount /\ Latest(T, monitorScanIndex') = n
    BY <1>2, <1>3, <1>7
  <2>4. QED
    BY <2>1, <2>2, <2>3 DEF Planned
<1>9. At(nextMonitorScanTime, -d)' /\ At(nextControlScanTime, -d)'
  BY <1>2, <1>5, <1>6 DEF At
<1>10. QED
  BY <1>6, <1>8, <1>9 DEF OnTime

\* Every step that is in time keeps the scans on time, unless it is a WIFI command.
LEMMA NextKeepsOnTime ==
  ASSUME NEW T \in Nat, Room(T), LoopTypeOK, LoopTypeOK', Timely(T), Timely(T)', OnTime(T),
         "WIFI" \notin kinds, [Next]_vars
  PROVE  OnTime(T)'
<1>1. CASE Scan
  BY <1>1, ScanKeepsOnTime
<1>2. CASE HandleWrite
  BY <1>2, WriteKeepsOnTime
<1>3. CASE Reboot
  BY <1>3, RebootKeepsOnTime
<1>4. ~HandleWifi
  BY DEF HandleWifi, Receive
<1>5. CASE \/ CheckMonitorConnection \/ Outage \/ HandleHost \/ HandleRead
           \/ \E setting \in Settings : HandleTiming(setting)
           \/ UNCHANGED vars
  <2>1. UNCHANGED <<now, scan>>
    BY <1>5 DEF CheckMonitorConnection, Outage, HandleHost, HandleRead, HandleTiming, Receive,
                vars
  <2>2. UNCHANGED <<now, monitorScanIndex, nextMonitorScanTime, nextControlScanTime>>
    BY <2>1 DEF scan
  <2>3. PICK m \in Int, k \in Int :
          At(nextMonitorScanTime, m) /\ At(nextControlScanTime, k) /\ Planned(T, m, k)
    BY DEF OnTime
  <2>4. At(nextMonitorScanTime, m)' /\ At(nextControlScanTime, k)' /\ Planned(T, m, k)'
    BY <2>2, <2>3 DEF At, Planned
  <2>5. QED
    BY <2>4 DEF OnTime
<1>6. QED
  BY <1>1, <1>2, <1>3, <1>4, <1>5 DEF Next, Iterate

\* The next read of either scan is due, or becomes due within the interval that a
\* setting may delay it by: no wrap of millis(), change of the settings, write or
\* restart makes timeHasElapsed take a time of the past for one of the future.  This
\* is ScansOnSchedule of the runs, if iterations take T at most and half the range of
\* millis() has room for a monitor scan with them.
THEOREM ScansOnScheduleHolds ==
  ASSUME NEW T \in Nat, Room(T)
  PROVE  Spec /\ []Timely(T) => []ScansOnSchedule
<1> DEFINE Inv == "WIFI" \notin kinds => OnTime(T)
<1>1. Init => Inv
  <2>1. SUFFICES ASSUME Init PROVE OnTime(T)
    OBVIOUS
  <2>2. /\ {Longest("monitor"), Longest("control"), Longest("spacing")} \subseteq 1..Wrap - 1
        /\ Wrap \in Nat \ {0} /\ ConnectTime \in Nat /\ MonitorCount \in Nat \ {0}
    BY RoomFacts DEF Settings
  <2>3. PICK n \in Nat : n = Latest(T, 0) /\ n >= ConnectTime + T
    BY LatestGrows
  <2>4. /\ now = 0 /\ nextMonitorScanTime = 0 /\ nextControlScanTime = 0
        /\ monitorScanIndex = 0
    BY <2>1 DEF Init
  <2>5. At(nextMonitorScanTime, 0) /\ At(nextControlScanTime, 0)
    BY <2>2, <2>4 DEF At
  <2>6. Planned(T, 0, 0)
    <3>1. 0 <= Longest("monitor") /\ 0 <= Longest("control") /\ 0 <= Longest("spacing")
      BY <2>2
    <3>2. -0 <= ConnectTime + T /\ -0 <= n /\ ~(0 > 0)
      BY <2>2
    <3>3. monitorScanIndex # MonitorCount /\ Latest(T, monitorScanIndex) = n
      BY <2>2, <2>3, <2>4
    <3>4. QED
      BY <3>1, <3>2, <3>3 DEF Planned
  <2>7. QED
    BY <2>5, <2>6 DEF OnTime
<1>2. LoopInv /\ LoopInv' /\ Timely(T) /\ Timely(T)' /\ Inv /\ [Next]_vars => Inv'
  <2>1. SUFFICES ASSUME LoopTypeOK, LoopTypeOK', Timely(T), Timely(T)', Inv, [Next]_vars,
                        "WIFI" \notin kinds'
                 PROVE  OnTime(T)'
    BY DEF LoopInv
  <2>2. "WIFI" \notin kinds /\ OnTime(T)
    BY <2>1, KindsConstant
  <2>3. QED
    BY <2>1, <2>2, NextKeepsOnTime
<1>3. LoopInv /\ Inv => ScansOnSchedule
  BY OnTimeMeansOnSchedule DEF LoopInv, ScansOnSchedule
<1> HIDE DEF Inv
<1>4. QED
  BY <1>1, <1>2, <1>3, LoopInvariance, PTL DEF Spec
=============================================================================
