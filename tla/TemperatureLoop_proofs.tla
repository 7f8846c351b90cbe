------------------------- MODULE TemperatureLoop_proofs -------------------------
(***************************************************************************)
(* Proofs about the temperature firmware, for any sensors, any number of   *)
(* registers and any range of millis().                                    *)
(***************************************************************************)
EXTENDS TemperatureLoop, NumberLemmas, FiniteSetTheorems, FunctionTheorems, TLAPS

\* The history of the detections: every set of sensors was assigned its registers in
\* the order of the addresses, and so is the set that has them now.
Assigned ==
  /\ \A T \in DOMAIN assigned : T \in Orders /\ assigned[T] \in InOrder(T)
  /\ ToSet(connectedSensors) \in DOMAIN assigned
  /\ connectedSensors \in InOrder(ToSet(connectedSensors))

SensorTypes ==
  /\ present \subseteq Sensors /\ deviceCount \in 0..Cardinality(Sensors)
  /\ seen \in [bus : SUBSET Sensors, missed : SUBSET Sensors]

\* What the sensors are about.
SensorInv == SensorTypes /\ Assigned /\ AllMapped

\* The rest of the state.
Modes == {"STA", "AP"}
LinkTypes ==
  /\ ssid \in BOOLEAN /\ host \in BOOLEAN /\ stored \in [ssid : BOOLEAN, host : BOOLEAN]
  /\ mode \in Modes /\ {linked, router, server} \subseteq BOOLEAN
  /\ linked => mode = "STA" /\ router /\ server

TimeTypes ==
  /\ clock \in Times /\ now \in Times
  /\ nextMonitorConnectionCheckTime \in Times /\ nextTemperatureScanTime \in Times

ControlTypes ==
  /\ pc \in {"log", "orders"}
  /\ left \in [commands : Nat, outages : Nat, plugs : Nat, reboots : Nat]

LoopInv == SensorInv /\ LinkTypes /\ TimeTypes /\ ControlTypes

----------------------------------------------------------------------------
(* Sets of sensors and their order.                                        *)

\* What InOrder says of a sequence.
LEMMA InOrderFacts ==
  ASSUME NEW S, IsFiniteSet(S), NEW s \in InOrder(S)
  PROVE  /\ s \in [1..Cardinality(S) -> S] /\ s \in Seq(S)
         /\ Cardinality(S) \in Nat /\ Len(s) = Cardinality(S)
         /\ ToSet(s) = S
         /\ \A i, j \in 1..Cardinality(S) : i < j => s[i] < s[j]
<1> DEFINE n == Cardinality(S)
<1>1. n \in Nat
  BY FS_CardinalityType
<1>2. s \in [1..n -> S] /\ \A i, j \in 1..n : i # j => s[i] # s[j]
  BY DEF InOrder, SetToSeqs
<1>3. \A i, j \in 1..n : i < j => s[i] < s[j]
  BY <1>2 DEF InOrder
<1>4. s \in Seq(S) /\ Len(s) = n
  BY <1>1, <1>2
<1>5. IsFiniteSet(1..n) /\ Cardinality(1..n) = n
  BY <1>1, FS_Interval
<1>6. s \in Injection(1..n, S)
  BY <1>2 DEF Injection, IsInjective
<1>7. s \in Surjection(1..n, S)
  BY <1>5, <1>6, FS_Injection
<1>8. ToSet(s) = S
  BY <1>2, <1>7 DEF Surjection, ToSet
<1>9. QED
  BY <1>1, <1>2, <1>3, <1>4, <1>8

\* There is one way to order the sensors by their addresses.
LEMMA InOrderUnique ==
  ASSUME NEW S, IsFiniteSet(S), S \subseteq Nat, NEW s \in InOrder(S), NEW t \in InOrder(S)
  PROVE  s = t
<1> DEFINE n == Cardinality(S)
           Differ == {i \in 1..n : s[i] # t[i]}
<1>1. /\ n \in Nat /\ s \in [1..n -> S] /\ t \in [1..n -> S]
      /\ \A i, j \in 1..n : i < j => s[i] < s[j] /\ t[i] < t[j]
      /\ ToSet(s) = S /\ ToSet(t) = S
  BY InOrderFacts
<1>2. ASSUME NEW a \in InOrder(S), NEW b \in InOrder(S), NEW k \in 1..n,
             a[k] < b[k], \A i \in 1..n : i < k => a[i] = b[i]
      PROVE  FALSE
  <2>1. /\ a \in [1..n -> S] /\ b \in [1..n -> S] /\ ToSet(b) = S
        /\ \A i, j \in 1..n : i < j => a[i] < a[j] /\ b[i] < b[j]
    BY InOrderFacts
  <2>2. PICK j \in 1..n : b[j] = a[k]
    BY <2>1 DEF ToSet
  <2>3. a[k] \in Nat /\ b[k] \in Nat
    BY <2>1
  <2>4. CASE j < k
    <3>1. a[j] = a[k] /\ a[j] < a[k]
      BY <1>2, <2>1, <2>2, <2>4
    <3>2. QED
      BY <2>3, <3>1
  <2>5. CASE j > k
    <3>1. b[k] < a[k]
      BY <2>1, <2>2, <2>5
    <3>2. QED
      BY <1>2, <2>3, <3>1
  <2>6. CASE j = k
    BY <1>2, <2>2, <2>3, <2>6
  <2>7. QED
    BY <2>4, <2>5, <2>6
<1>3. SUFFICES ASSUME s # t PROVE FALSE
  OBVIOUS
<1>4. Differ \subseteq Nat /\ Differ # {}
  BY <1>1, <1>3
<1>5. PICK k \in Differ : \A j \in Differ : k <= j
  <2> HIDE DEF Differ
  <2>1. QED
    BY <1>4, LeastNumber
<1>6. k \in 1..n /\ s[k] \in Nat /\ t[k] \in Nat /\ s[k] # t[k]
  BY <1>1
<1>7. \A i \in 1..n : i < k => s[i] = t[i]
  <2>1. SUFFICES ASSUME NEW i \in 1..n, i < k, s[i] # t[i] PROVE FALSE
    OBVIOUS
  <2>2. k <= i
    BY <1>5, <2>1
  <2>3. QED
    BY <1>6, <2>1, <2>2
<1>8. CASE s[k] < t[k]
  BY <1>2, <1>6, <1>7, <1>8
<1>9. CASE t[k] < s[k]
  <2>1. \A i \in 1..n : i < k => t[i] = s[i]
    BY <1>7
  <2>2. QED
    BY <1>2, <1>6, <1>9, <2>1
<1>10. QED
  BY <1>6, <1>8, <1>9

\* A loop that stops at n takes at most n, and all where there are no more.
LEMMA UpToFacts ==
  ASSUME NEW S, IsFiniteSet(S), NEW n \in Nat, NEW T \in UpTo(n, S)
  PROVE  /\ T \subseteq S /\ IsFiniteSet(T) /\ Cardinality(T) <= n
         /\ Cardinality(S) <= n => T = S
<1>1. T \subseteq S
  BY DEF UpTo, kSubset
<1>2. Cardinality(T) = IF n < Cardinality(S) THEN n ELSE Cardinality(S)
  BY DEF UpTo, kSubset
<1>3. Cardinality(S) \in Nat
  BY FS_CardinalityType
<1>4. IsFiniteSet(T)
  BY <1>1, FS_Subset
<1>5. Cardinality(T) <= n /\ (Cardinality(S) <= n => Cardinality(T) = Cardinality(S))
  BY <1>2, <1>3
<1>6. QED
  BY <1>1, <1>4, <1>5, FS_Subset

----------------------------------------------------------------------------
(* Detections.                                                             *)

\* Sensors are numbers, and finitely many.
LEMMA SensorSets ==
  ASSUME NEW S, S \subseteq Sensors
  PROVE  /\ IsFiniteSet(S) /\ S \subseteq Nat
         /\ Cardinality(S) \in Nat /\ Cardinality(S) <= Cardinality(Sensors)
         /\ Cardinality(Sensors) \in Nat
BY SensorsAssumption, FS_Subset, FS_CardinalityType

\* The invariant of the sensors implies what TypeOK and MappingStable say of them.
LEMMA SensorFacts ==
  ASSUME SensorInv
  PROVE  /\ Len(connectedSensors) <= MaxSensors /\ DOMAIN assigned \subseteq Orders
         /\ MappingStable
<1> DEFINE S == ToSet(connectedSensors)
<1>1. S \in Orders /\ S \subseteq Sensors /\ Cardinality(S) <= MaxSensors
  BY DEF SensorInv, Assigned, Orders
<1>2. connectedSensors \in InOrder(S) /\ assigned[S] \in InOrder(S)
  BY DEF SensorInv, Assigned
<1>3. IsFiniteSet(S) /\ S \subseteq Nat
  BY <1>1, SensorSets
<1>4. connectedSensors = assigned[S]
  <2> HIDE DEF S
  <2>1. QED
    BY <1>2, <1>3, InOrderUnique
<1>5. Len(connectedSensors) = Cardinality(S)
  <2> HIDE DEF S
  <2>1. QED
    BY <1>2, <1>3, InOrderFacts
<1>6. QED
  BY <1>1, <1>4, <1>5 DEF MappingStable, SensorInv, Assigned

\* A detection keeps the invariant, whether or not the devices are counted for it.
LEMMA DetectKeeps ==
  ASSUME SensorInv, NEW n \in Nat, NEW missed \in Missed, Detect(n, missed),
         present' = present, deviceCount' = n, n <= Cardinality(Sensors)
  PROVE  SensorInv'
<1>0. PICK looked \in UpTo(n, present) : \E S \in UpTo(MaxSensors, looked \ missed) :
        /\ connectedSensors' \in InOrder(S)
        /\ seen' = [bus |-> present, missed |-> missed]
        /\ assigned' = [T \in DOMAIN assigned \union {S} |->
                          IF T \in DOMAIN assigned THEN assigned[T] ELSE connectedSensors']
  BY DEF Detect
<1>1. PICK S \in UpTo(MaxSensors, looked \ missed) :
        /\ connectedSensors' \in InOrder(S)
        /\ seen' = [bus |-> present, missed |-> missed]
        /\ assigned' = [T \in DOMAIN assigned \union {S} |->
                          IF T \in DOMAIN assigned THEN assigned[T] ELSE connectedSensors']
  BY <1>0
<1>2. present \subseteq Sensors /\ missed \subseteq Sensors
  BY DEF SensorInv, SensorTypes, Missed
<1>3. /\ looked \subseteq present /\ IsFiniteSet(looked)
      /\ Cardinality(present) <= n => looked = present
  BY <1>1, <1>2, SensorSets, UpToFacts
<1>4. IsFiniteSet(looked \ missed)
  BY <1>3, FS_Difference
<1>5. /\ S \subseteq looked \ missed /\ IsFiniteSet(S) /\ Cardinality(S) <= MaxSensors
      /\ Cardinality(looked \ missed) <= MaxSensors => S = looked \ missed
  BY <1>1, <1>4, SensorsAssumption, UpToFacts
<1>6. ToSet(connectedSensors') = S
  BY <1>1, <1>5, InOrderFacts
<1>7. S \in Orders
  BY <1>2, <1>3, <1>5 DEF Orders
<1>8. Assigned'
  <2>1. DOMAIN assigned' = DOMAIN assigned \union {S}
    BY <1>1
  <2>2. \A T \in DOMAIN assigned' : T \in Orders
    BY <1>7, <2>1 DEF SensorInv, Assigned
  <2>3. \A T \in DOMAIN assigned : assigned'[T] = assigned[T] /\ assigned[T] \in InOrder(T)
    BY <1>1 DEF SensorInv, Assigned
  <2>4. S \notin DOMAIN assigned => assigned'[S] = connectedSensors'
    BY <1>1
  <2>5. \A T \in DOMAIN assigned' : assigned'[T] \in InOrder(T)
    BY <1>1, <2>1, <2>3, <2>4
  <2>6. QED
    BY <1>1, <1>6, <2>1, <2>2, <2>5 DEF Assigned
<1>9. SensorTypes'
  BY <1>1, <1>2 DEF SensorInv, SensorTypes
<1>10. AllMapped'
  <2>1. SUFFICES ASSUME Cardinality(present) <= n, Cardinality(present) <= MaxSensors
                 PROVE  S = present \ missed
    BY <1>1, <1>6 DEF AllMapped
  <2>2. looked = present
    BY <1>3, <2>1
  <2>3. Cardinality(present \ missed) <= Cardinality(present)
    BY <1>2, SensorSets, FS_Subset
  <2>4. /\ Cardinality(present \ missed) \in Nat /\ Cardinality(present) \in Nat
        /\ MaxSensors \in Nat
    BY <1>2, SensorSets, SensorsAssumption
  <2>5. QED
    BY <1>5, <2>1, <2>2, <2>3, <2>4
<1>11. QED
  BY <1>8, <1>9, <1>10 DEF SensorInv

\* Nothing else touches the sensors that have registers.
LEMMA SensorsUnchanged ==
  ASSUME SensorInv, UNCHANGED <<deviceCount, found>>, present' \subseteq Sensors
  PROVE  SensorInv'
BY DEF SensorInv, SensorTypes, Assigned, AllMapped, found

\* Every step keeps the invariant of the sensors.
LEMMA NextKeepsSensors ==
  ASSUME SensorInv, [Next]_vars
  PROVE  SensorInv'
<1>0. present \subseteq Sensors /\ deviceCount \in Nat /\ deviceCount <= Cardinality(Sensors)
  BY SensorSets DEF SensorInv, SensorTypes
<1>1. CASE HandleDetect
  <2>1. PICK missed \in Missed : Detect(deviceCount, missed)
    BY <1>1 DEF HandleDetect
  <2>2. present' = present /\ deviceCount' = deviceCount
    BY <1>1 DEF HandleDetect, Receive
  <2>3. QED
    BY <1>0, <2>1, <2>2, DetectKeeps
<1>2. CASE Reboot
  <2>1. PICK missed \in Missed : Detect(Cardinality(present), missed)
    BY <1>2 DEF Reboot, Setup
  <2>2. present' = present /\ deviceCount' = Cardinality(present)
    BY <1>2 DEF Reboot, Setup
  <2>3. Cardinality(present) \in Nat /\ Cardinality(present) <= Cardinality(Sensors)
    BY <1>0, SensorSets
  <2>4. QED
    BY <2>1, <2>2, <2>3, DetectKeeps
<1>3. CASE Plug
  <2>1. UNCHANGED <<deviceCount, found>> /\ present' \subseteq Sensors
    BY <1>0, <1>3 DEF Plug
  <2>2. QED
    BY <2>1, SensorsUnchanged
<1>4. CASE \/ Iterate \/ HandleWifi \/ HandleHost \/ Outage \/ UNCHANGED vars
  <2>1. UNCHANGED <<present, deviceCount, found>>
    BY <1>4 DEF Iterate, CheckMonitorConnection, Scan, NoScan, NextIteration, HandleWifi,
                HandleHost, Receive, Outage, sensors, vars
  <2>2. QED
    BY <1>0, <2>1, SensorsUnchanged
<1>5. QED
  BY <1>1, <1>2, <1>3, <1>4 DEF Next

----------------------------------------------------------------------------
(* Types.                                                                  *)

\* The type invariant in parts.
LEMMA TypeParts ==
  ASSUME LoopInv
  PROVE  TypeOK
<1>1. Len(connectedSensors) <= MaxSensors /\ DOMAIN assigned \subseteq Orders
  BY SensorFacts DEF LoopInv
<1>2. QED
  BY <1>1 DEF TypeOK, LoopInv, SensorInv, SensorTypes, Assigned, LinkTypes, Modes, TimeTypes,
              ControlTypes

\* Times are natural numbers; what After returns is one.
LEMMA TimesFacts ==
  /\ Times \subseteq Nat /\ 0 \in Times /\ Wrap \in Nat \ {0}
  /\ {MaxTick, ConnectTime, ScanInterval, ConnectionCheck} \subseteq Nat \ {0}
  /\ \A t \in Nat, d \in Nat : After(t, d) \in Times
  /\ \A d \in Nat : d % Wrap \in Times
<1>1. /\ Wrap \in Nat \ {0} /\ Times \subseteq Nat /\ 0 \in Times
      /\ {MaxTick, ConnectTime, ScanInterval, ConnectionCheck} \subseteq Nat \ {0}
  BY TimeAssumption DEF Times
<1>2. \A n \in Nat : n % Wrap \in Times
  BY <1>1 DEF Times
<1>3. \A t \in Nat, d \in Nat : t + d \in Nat
  OBVIOUS
<1>4. QED
  BY <1>1, <1>2, <1>3 DEF After

\* An event is counted.
LEMMA SpendTypes ==
  ASSUME ControlTypes, NEW event \in {"commands", "outages", "plugs", "reboots"},
         Spend(event)
  PROVE  left' \in [commands : Nat, outages : Nat, plugs : Nat, reboots : Nat]
<1>1. left[event] \in Nat
  BY DEF ControlTypes
<1>2. left[event] - 1 \in Nat
  BY <1>1 DEF Spend
<1>3. QED
  BY <1>2 DEF Spend, ControlTypes

\* Every step keeps the types of the settings and of the link.
LEMMA NextKeepsLink ==
  ASSUME LinkTypes, [Next]_vars
  PROVE  LinkTypes'
<1>1. CASE CheckMonitorConnection
  BY <1>1 DEF CheckMonitorConnection, ConnectToMonitorServer, LinkTypes, config, peers
<1>2. CASE Scan \/ NoScan \/ HandleDetect \/ Plug \/ UNCHANGED vars
  <2>1. UNCHANGED <<config, wifi, peers>>
    BY <1>2 DEF Scan, NoScan, NextIteration, HandleDetect, Receive, Plug, vars
  <2>2. QED
    BY <2>1 DEF LinkTypes, config, wifi, peers
<1>3. CASE HandleWifi
  <2>1. ssid' = TRUE /\ host' = host /\ UNCHANGED peers
    BY <1>3 DEF HandleWifi, Receive
  <2>2. CASE UNCHANGED <<clock, stored, wifi, nextTemperatureScanTime>>
    BY <2>1, <2>2 DEF LinkTypes, wifi, peers
  <2>3. CASE Commit /\ ConnectToWiFi(TRUE, host)
    BY <2>1, <2>3 DEF LinkTypes, Commit, ConnectToWiFi, peers, Modes
  <2>4. QED
    BY <1>3, <2>2, <2>3 DEF HandleWifi
<1>4. CASE HandleHost
  <2>1. /\ host' = TRUE /\ ssid' = ssid /\ mode' = mode /\ UNCHANGED peers
        /\ stored' = stored \/ stored' = [ssid |-> ssid', host |-> host']
        /\ \/ linked' = linked
           \/ linked' = (linked \/ (mode = "STA" /\ router /\ server))
    BY <1>4 DEF HandleHost, Receive, Commit, ConnectToMonitorServer
  <2>2. stored' \in [ssid : BOOLEAN, host : BOOLEAN]
    <3>1. ssid' \in BOOLEAN /\ host' \in BOOLEAN
      BY <2>1 DEF LinkTypes
    <3>2. CASE stored' = stored
      BY <3>2 DEF LinkTypes
    <3>3. CASE stored' = [ssid |-> ssid', host |-> host']
      BY <3>1, <3>3
    <3>4. QED
      BY <2>1, <3>2, <3>3
  <2>3. linked' \in BOOLEAN /\ (linked' => mode = "STA" /\ router /\ server)
    BY <2>1 DEF LinkTypes
  <2>4. QED
    BY <2>1, <2>2, <2>3 DEF LinkTypes, peers
<1>5. CASE Outage
  <2>1. {router', server'} \subseteq BOOLEAN /\ linked' = FALSE /\ UNCHANGED <<config, mode>>
    BY <1>5 DEF Outage, LinkTypes
  <2>2. QED
    BY <2>1 DEF LinkTypes, config
<1>6. CASE Reboot
  <2>0. stored' = stored \/ stored' = [ssid |-> FALSE, host |-> FALSE]
    BY <1>6 DEF Reboot
  <2>1. stored' \in [ssid : BOOLEAN, host : BOOLEAN]
    <3>1. CASE stored' = stored
      BY <3>1 DEF LinkTypes
    <3>2. CASE stored' = [ssid |-> FALSE, host |-> FALSE]
      BY <3>2
    <3>3. QED
      BY <2>0, <3>1, <3>2
  <2>2. /\ ssid' = stored'.ssid /\ host' = stored'.host
        /\ ConnectToWiFi(ssid', host') /\ UNCHANGED peers
    BY <1>6 DEF Reboot, Setup
  <2>3. ssid' \in BOOLEAN /\ host' \in BOOLEAN
    BY <2>1, <2>2
  <2>4. QED
    BY <2>1, <2>2, <2>3 DEF LinkTypes, ConnectToWiFi, peers, Modes
<1>7. QED
  BY <1>1, <1>2, <1>3, <1>4, <1>5, <1>6 DEF Next, Iterate

\* Every step keeps the types of the times.
LEMMA NextKeepsTimes ==
  ASSUME TimeTypes, [Next]_vars
  PROVE  TimeTypes'
<1>0. clock \in Nat /\ now \in Nat
  BY TimesFacts DEF TimeTypes
<1>1. CASE CheckMonitorConnection
  <2>1. After(now, ConnectionCheck) \in Times
    BY <1>0, TimesFacts
  <2>2. QED
    BY <1>1, <2>1 DEF CheckMonitorConnection, TimeTypes
<1>2. ASSUME NextIteration,
             \/ nextTemperatureScanTime' = After(now, ScanInterval)
             \/ UNCHANGED nextTemperatureScanTime
      PROVE  TimeTypes'
  <2>1. PICK d \in 1..MaxTick : clock' = After(clock, d) /\ now' = clock'
    BY <1>2 DEF NextIteration
  <2>2. d \in Nat
    OBVIOUS
  <2>3. clock' \in Times /\ After(now, ScanInterval) \in Times
    BY <1>0, <2>1, <2>2, TimesFacts
  <2>4. UNCHANGED nextMonitorConnectionCheckTime
    BY <1>2 DEF NextIteration
  <2>5. QED
    BY <1>2, <2>1, <2>3, <2>4 DEF TimeTypes
<1>3. CASE Scan \/ NoScan
  BY <1>2, <1>3 DEF Scan, NoScan
<1>4. CASE HandleWifi
  <2>1. UNCHANGED <<now, nextMonitorConnectionCheckTime>>
    BY <1>4 DEF HandleWifi, Receive
  <2>2. CASE UNCHANGED <<clock, stored, wifi, nextTemperatureScanTime>>
    BY <2>1, <2>2 DEF TimeTypes
  <2>3. CASE /\ \E d \in 1..ConnectTime : clock' = After(clock, d)
             /\ nextTemperatureScanTime' = 0
    <3>1. PICK d \in 1..ConnectTime : clock' = After(clock, d)
      BY <2>3
    <3>2. d \in Nat
      OBVIOUS
    <3>3. QED
      BY <1>0, <2>1, <2>3, <3>1, <3>2, TimesFacts DEF TimeTypes
  <2>4. QED
    BY <1>4, <2>2, <2>3 DEF HandleWifi
<1>5. CASE Reboot
  <2>1. PICK d \in 1..ConnectTime : clock' = d % Wrap
    BY <1>5 DEF Reboot, Setup
  <2>2. d \in Nat
    OBVIOUS
  <2>3. /\ now' = clock' /\ nextMonitorConnectionCheckTime' = 0
        /\ nextTemperatureScanTime' = 0
    BY <1>5 DEF Reboot, Setup
  <2>4. QED
    BY <2>1, <2>2, <2>3, TimesFacts DEF TimeTypes
<1>6. CASE HandleHost \/ HandleDetect \/ Outage \/ Plug \/ UNCHANGED vars
  <2>1. UNCHANGED <<clock, now, times>>
    BY <1>6 DEF HandleHost, HandleDetect, Receive, Outage, Plug, times, vars
  <2>2. QED
    BY <2>1 DEF TimeTypes, times
<1>7. QED
  BY <1>1, <1>3, <1>4, <1>5, <1>6 DEF Next, Iterate

\* Every step keeps the control state and the bounds.
LEMMA NextKeepsControl ==
  ASSUME ControlTypes, [Next]_vars
  PROVE  ControlTypes'
<1>1. CASE Iterate \/ UNCHANGED vars
  BY <1>1 DEF Iterate, CheckMonitorConnection, Scan, NoScan, NextIteration, ControlTypes, vars
<1>2. CASE HandleWifi \/ HandleHost \/ HandleDetect
  <2>1. Spend("commands") /\ UNCHANGED pc
    BY <1>2 DEF HandleWifi, HandleHost, HandleDetect, Receive
  <2>2. QED
    BY <2>1, SpendTypes DEF ControlTypes
<1>3. CASE Outage
  <2>1. UNCHANGED pc /\ (UNCHANGED left \/ Spend("outages"))
    BY <1>3 DEF Outage
  <2>2. QED
    BY <2>1, SpendTypes DEF ControlTypes
<1>4. CASE Plug
  BY <1>4, SpendTypes DEF Plug, ControlTypes
<1>5. CASE Reboot
  <2>1. pc' = "log"
    BY <1>5 DEF Reboot, Setup
  <2>2. left' \in [commands : Nat, outages : Nat, plugs : Nat, reboots : Nat]
    <3>1. CASE Spend("reboots")
      BY <3>1, SpendTypes
    <3>2. CASE /\ {left["commands"], left["reboots"]} \subseteq Nat \ {0}
               /\ left' = [left EXCEPT !["commands"] = @ - 1, !["reboots"] = @ - 1]
      <4>1. left["commands"] - 1 \in Nat /\ left["reboots"] - 1 \in Nat
        BY <3>2
      <4>2. QED
        BY <3>2, <4>1 DEF ControlTypes
    <3>3. QED
      BY <1>5, <3>1, <3>2 DEF Reboot
  <2>3. QED
    BY <2>1, <2>2 DEF ControlTypes
<1>6. QED
  BY <1>1, <1>2, <1>3, <1>4, <1>5 DEF Next

\* The invariant holds initially.
LEMMA InitInv ==
  ASSUME Init
  PROVE  LoopInv
<1>1. PICK start \in Starts :
        /\ ssid = ~start.blank /\ host = ~start.blank
        /\ present = start.present /\ left = start.left
  BY DEF Init
<1>2. /\ start \in [blank : BOOLEAN, present : SUBSET Sensors,
           left : [commands : Nat, outages : Nat, plugs : Nat, reboots : Nat]]
  BY BoundsAssumption
<1>3. LinkTypes /\ TimeTypes /\ ControlTypes
  <2>1. LinkTypes
    BY <1>1, <1>2 DEF Init, LinkTypes, Modes
  <2>2. TimeTypes
    BY TimesFacts DEF Init, TimeTypes
  <2>3. ControlTypes
    BY <1>1, <1>2 DEF Init, ControlTypes
  <2>4. QED
    BY <2>1, <2>2, <2>3
<1>4. present \subseteq Sensors /\ deviceCount = Cardinality(present)
  BY <1>1, <1>2 DEF Init
<1>5. PICK S \in UpTo(MaxSensors, present) : connectedSensors \in InOrder(S)
  BY DEF Init
<1>6. /\ S \subseteq present /\ IsFiniteSet(S) /\ Cardinality(S) <= MaxSensors
      /\ Cardinality(present) <= MaxSensors => S = present
  BY <1>4, SensorSets, SensorsAssumption, UpToFacts
<1>7. ToSet(connectedSensors) = S
  BY <1>5, <1>6, InOrderFacts
<1>8. assigned = [T \in {S} |-> connectedSensors] /\ seen = [bus |-> present, missed |-> {}]
  BY <1>7 DEF Init
<1>9. Assigned
  BY <1>4, <1>5, <1>6, <1>7, <1>8 DEF Assigned, Orders
<1>10. SensorTypes
  <2>1. Cardinality(present) \in Nat /\ Cardinality(present) <= Cardinality(Sensors)
        /\ Cardinality(Sensors) \in Nat
    BY <1>4, SensorSets
  <2>2. QED
    BY <1>4, <1>8, <2>1 DEF SensorTypes
<1>11. AllMapped
  BY <1>6, <1>7, <1>8 DEF AllMapped
<1>12. QED
  BY <1>3, <1>9, <1>10, <1>11 DEF LoopInv, SensorInv

\* The invariant holds.
LEMMA LoopInvariance == Spec => []LoopInv
<1>1. Init => LoopInv
  BY InitInv
<1>2. LoopInv /\ [Next]_vars => LoopInv'
  BY NextKeepsSensors, NextKeepsLink, NextKeepsTimes, NextKeepsControl DEF LoopInv
<1>3. QED
  BY <1>1, <1>2, PTL DEF Spec

\* Every state of the loop has its types, the device is linked only as a station
\* whose router and server are up, and no more sensors are mapped than there are
\* registers for; this is TypeOK of the run.
THEOREM LoopTypes == Spec => []TypeOK
<1>1. LoopInv => TypeOK
  BY TypeParts
<1>2. QED
  BY <1>1, LoopInvariance, PTL

\* Detections that find the same sensors give them the same registers, in whatever
\* order the bus is searched; this is MappingStable of the run.
THEOREM MappingStableHolds == Spec => []MappingStable
<1>1. LoopInv => MappingStable
  BY SensorFacts DEF LoopInv
<1>2. QED
  BY <1>1, LoopInvariance, PTL

\* Every sensor that answered has a register, as far as there are registers and the
\* devices were counted; this is AllMapped of the run.
THEOREM AllMappedHolds == Spec => []AllMapped
<1>1. LoopInv => AllMapped
  BY DEF LoopInv, SensorInv
<1>2. QED
  BY <1>1, LoopInvariance, PTL

----------------------------------------------------------------------------
(* The schedule of the scans.                                              *)

\* What an iteration and the commands served in it take is within half the range
\* of millis().
Timely == ((clock - now) % Wrap) + MaxTick <= Wrap \div 2

\* A time that is due, or n away at most, stays so for as long as timeHasElapsed
\* looks back.
LEMMA StaysOnSchedule ==
  ASSUME NEW t \in Times, NEW target \in Times, NEW n \in Nat, NEW d \in Nat,
         (target - t) % Wrap \in 1..n, d <= Wrap \div 2
  PROVE  \/ Elapsed(After(t, d), target)
         \/ (target - After(t, d)) % Wrap <= n
<1> DEFINE k == (target - t) % Wrap
<1>1. /\ Wrap \in Nat \ {0} /\ t \in 0..Wrap - 1 /\ target \in 0..Wrap - 1
      /\ d \in 0..Wrap - 1 /\ k \in 0..Wrap - 1
  BY TimeAssumption DEF Times
<1>2. CASE d <= k
  <2>1. (target - ((t + d) % Wrap)) % Wrap = k - d
    BY <1>1, <1>2, PlannedNearer
  <2>2. k - d <= n
    BY <1>1
  <2>3. QED
    BY <2>1, <2>2 DEF After
<1>3. CASE d > k
  <2>0. (target - t) % Wrap <= d
    BY <1>1, <1>3
  <2>1. (((t + d) % Wrap) - target) % Wrap = d - k
    BY <1>1, <2>0, PlannedPast
  <2>2. d - k < Wrap \div 2
    BY <1>1
  <2>3. QED
    BY <2>1, <2>2 DEF After, Elapsed
<1>4. QED
  BY <1>1, <1>2, <1>3

\* A time that is not due is ahead.
LEMMA AheadIfNotElapsed ==
  ASSUME NEW t \in Times, NEW target \in Times, ~Elapsed(t, target)
  PROVE  (target - t) % Wrap \in Nat \ {0}
<1>1. Wrap \in Nat \ {0} /\ t \in 0..Wrap - 1 /\ target \in 0..Wrap - 1 /\ Wrap > 1
  BY TimeAssumption DEF Times
<1>2. (t - target) % Wrap # 0
  BY <1>1, TimeAssumption DEF Elapsed
<1>3. target # t
  BY <1>1, <1>2
<1>4. QED
  BY <1>1, <1>3

\* While the commands of an iteration take no longer than half the range of
\* millis(), a scan is due or at most the interval away, through every wrap of the
\* counter, WIFI commands and restarts; this is ScanOnSchedule of the run.
THEOREM ScanOnScheduleHolds == Spec /\ []Timely => []ScanOnSchedule
<1>1. Init => ScanOnSchedule
  BY DEF Init, ScanOnSchedule, ScanDue
<1>2. LoopInv /\ Timely /\ ScanOnSchedule /\ [Next]_vars => ScanOnSchedule'
  <2>1. SUFFICES ASSUME TimeTypes, Timely, ScanOnSchedule, [Next]_vars
                 PROVE  ScanOnSchedule'
    BY DEF LoopInv
  <2>2. /\ Wrap \in Nat \ {0} /\ clock \in 0..Wrap - 1 /\ now \in 0..Wrap - 1
        /\ now \in Times /\ nextTemperatureScanTime \in Times /\ ScanInterval \in Nat
        /\ ScanInterval \in 1..Wrap - 1
    BY <2>1, TimeAssumption DEF TimeTypes, Times
  <2>3. ASSUME NextIteration
        PROVE  \E d \in Nat : d <= Wrap \div 2 /\ now' = After(now, d)
    <3>1. PICK d \in 1..MaxTick : clock' = After(clock, d) /\ now' = clock'
      BY <2>3 DEF NextIteration
    <3>2. d \in Nat /\ MaxTick \in Nat /\ d <= MaxTick /\ (clock - now) % Wrap \in Nat
      BY <2>2, TimeAssumption DEF Times
    <3>3. ((clock - now) % Wrap) + d <= Wrap \div 2
      BY <2>1, <2>2, <3>2 DEF Timely
    <3>4. ((clock - now) % Wrap) + d < Wrap
      BY <2>2, <3>2, <3>3, TimeAssumption
    <3>5. (clock + d) % Wrap = (now + (((clock - now) % Wrap) + d)) % Wrap
      BY <2>2, <3>2, <3>4, TimeAdds
    <3>6. ((clock - now) % Wrap) + d \in Nat
      BY <3>2
    <3>7. QED
      BY <3>1, <3>3, <3>5, <3>6 DEF After
  <2>4. CASE Scan
    <3>1. PICK d \in Nat : d <= Wrap \div 2 /\ now' = After(now, d)
      BY <2>3, <2>4 DEF Scan
    <3>2. nextTemperatureScanTime' = After(now, ScanInterval)
      BY <2>4 DEF Scan
    <3>3. (After(now, ScanInterval) - now) % Wrap = ScanInterval
      BY <2>2, PlannedAhead DEF After
    <3>4. (After(now, ScanInterval) - now) % Wrap \in 1..ScanInterval
      BY <2>2, <3>3
    <3>5. After(now, ScanInterval) \in Times
      BY <2>2, TimesFacts
    <3>6. QED
      BY <2>2, <3>1, <3>2, <3>4, <3>5, StaysOnSchedule DEF ScanOnSchedule, ScanDue
  <2>5. CASE NoScan
    <3>1. PICK d \in Nat : d <= Wrap \div 2 /\ now' = After(now, d)
      BY <2>3, <2>5 DEF NoScan
    <3>2. ~ScanDue /\ nextTemperatureScanTime' = nextTemperatureScanTime
      BY <2>5 DEF NoScan
    <3>3. (nextTemperatureScanTime - now) % Wrap \in Nat \ {0}
      BY <2>2, <3>2, AheadIfNotElapsed DEF ScanDue
    <3>4. (nextTemperatureScanTime - now) % Wrap <= ScanInterval
      BY <2>1, <3>2 DEF ScanOnSchedule
    <3>5. (nextTemperatureScanTime - now) % Wrap \in 1..ScanInterval
      BY <2>2, <3>3, <3>4
    <3>6. QED
      BY <2>2, <3>1, <3>2, <3>5, StaysOnSchedule DEF ScanOnSchedule, ScanDue
  <2>6. CASE HandleWifi \/ Reboot
    <3>1. \/ nextTemperatureScanTime' = 0
          \/ UNCHANGED <<now, nextTemperatureScanTime>>
      BY <2>6 DEF HandleWifi, Receive, Reboot, Setup
    <3>2. QED
      BY <2>1, <3>1 DEF ScanOnSchedule, ScanDue
  <2>7. CASE \/ CheckMonitorConnection \/ HandleHost \/ HandleDetect \/ Outage \/ Plug
             \/ UNCHANGED vars
    <3>1. UNCHANGED <<now, nextTemperatureScanTime>>
      BY <2>7 DEF CheckMonitorConnection, HandleHost, HandleDetect, Receive, Outage, Plug,
                  times, vars
    <3>2. QED
      BY <2>1, <3>1 DEF ScanOnSchedule, ScanDue
  <2>8. QED
    BY <2>1, <2>4, <2>5, <2>6, <2>7 DEF Next, Iterate
<1>3. QED
  BY <1>1, <1>2, LoopInvariance, PTL DEF Spec
=============================================================================
