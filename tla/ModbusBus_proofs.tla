-------------------------- MODULE ModbusBus_proofs --------------------------
(***************************************************************************)
(* Proofs about the serial bus for every set of registers and values, and  *)
(* any number of faults and stalls.                                        *)
(***************************************************************************)
EXTENDS ModbusBus, TLAPS, SequenceTheorems, FiniteSetTheorems

Byte == (Operations \X (1..FrameLength)) \union {Noise}

\* What was sent to the simulator and is not dealt with.
Pending == rxBuffer \o line

\* A request that met no fault lies whole among it until it is answered.
StandsWhole(s, op) ==
  \E k \in Nat : /\ k + FrameLength <= Len(s)
                 /\ \A i \in 1..FrameLength : s[k + i] = <<op, i>>
Intact ==
  ~hurt /\ task # None /\ answers = <<>> /\ slaveId = MODBUS_SLAVE_ID
    => StandsWhole(Pending, task)

\* The bytes of a request are at the places p of s, in their order; losing the bytes
\* between them would make it a request that passes the checksum.
Places(s, op, p) ==
  /\ \A i, j \in 1..FrameLength : i < j => p[i] < p[j]
  /\ \A i \in 1..FrameLength : s[p[i]] = <<op, i>>

\* No request can be made of the bytes of s by losing some of them.
Unmade(s) ==
  \A op \in Operations : \A p \in [1..FrameLength -> 1..Len(s)] : ~Places(s, op, p)

\* Only the request t can be, and behind it there is only noise.
OnlyOf(s, t) ==
  \A op \in Operations : \A p \in [1..FrameLength -> 1..Len(s)] :
    Places(s, op, p) =>
      op = t /\ \A j \in 1..Len(s) : j > p[FrameLength] => s[j] = Noise

\* Without stalls the simulator can find no request but the one that waits for its
\* answer, whatever remains of others.
OnlyTask ==
  /\ task # None /\ answers = <<>> => OnlyOf(Pending, task)
  /\ task = None \/ answers # <<>> => Unmade(Pending)

\* An answer on its way is a true one to the request on its way.
TrueAnswer(a) ==
  /\ a = Answer(task, values)
  /\ task.function = 6 => values[task.address] = task.data[1]
AnswersTask ==
  answers # <<>> => /\ task # None /\ Len(answers) = 1
                    /\ answers[1] = Damaged \/ TrueAnswer(answers[1])

InTime == stalls = 0 => OnlyTask /\ AnswersTask

\* The types, with what the simulator may answer.
Held == [ControlRegisters -> NewValues \union {Initial}]
Reply == {Damaged} \union {Answer(op, held) : op \in Operations, held \in Held}
BusTypes ==
  /\ slaveId \in SlaveIds /\ values \in Held
  /\ line \in Seq(Byte) /\ rxBuffer \in Seq(Byte) /\ answers \in Seq(Reply)
  /\ task \in Operations \union {None} /\ hurt \in BOOLEAN
  /\ outcome = None \/ outcome.op \in Operations
  /\ faults \in 0..MaxFaults /\ stalls \in 0..MaxStalls

BusInv == BusTypes /\ Intact /\ InTime

----------------------------------------------------------------------------
(* Requests and answers.                                                   *)

\* The tables of the two programs agree.
LEMMA TablesAgree ==
  /\ DOMAIN RegisterMap = Registers
  /\ \A a \in Registers : Writable(a) <=> a \in ControlRegisters
<1>1. DOMAIN RegisterMap = Registers
  BY DEF RegisterMap, Registers, ControlRegisters, MonitorRegisters
<1>2. ControlRegisters \intersect MonitorRegisters = {}
  BY DEF ControlRegisters, MonitorRegisters
<1>3. \A a \in Registers : RegisterMap[a] = IF a \in MonitorRegisters THEN Measured
                                            ELSE Initial
  BY DEF RegisterMap, Registers, ControlRegisters, MonitorRegisters
<1>4. QED
  BY <1>1, <1>2, <1>3 DEF Writable, Registers, Initial, Measured

\* What the firmware sends is a read of one register the simulator has, or a write of
\* one that can be written.
LEMMA OperationParts ==
  ASSUME NEW op \in Operations
  PROVE  \/ op.function = 3 /\ op = Read(op.address) /\ op.address \in Registers
         \/ /\ op.function = 6 /\ op.address \in ControlRegisters
            /\ op.data[1] \in NewValues /\ op.data = <<op.data[1]>>
<1>1. CASE op \in Reads
  <2>1. PICK a \in Polled : op = Read(a)
    BY <1>1 DEF Reads
  <2>2. a \in Registers
    BY <2>1, PolledAssumption
  <2>3. QED
    BY <2>1, <2>2 DEF Read
<1>2. CASE op \in Writes
  <2>1. PICK a \in ControlRegisters, v \in NewValues : op = Write(a, v)
    BY <1>2 DEF Writes
  <2>2. QED
    BY <2>1 DEF Write
<1>3. QED
  BY <1>1, <1>2 DEF Operations

\* The simulator answers every request without an exception: a write with the
\* request itself, a read with what the register holds.
LEMMA Answered ==
  ASSUME NEW op, NEW held,
         \/ op.function = 3 /\ op = Read(op.address) /\ op.address \in Registers
         \/ op.function = 6 /\ op.address \in ControlRegisters
  PROVE  /\ Answer(op, held).function = op.function
         /\ op.function = 6 => Answer(op, held) = op
<1>1. CASE op.function = 6
  <2>1. op.address \in Registers
    BY <1>1 DEF Registers
  <2>2. WriteAnswer(op) = op
    BY <1>1, <2>1, TablesAgree DEF WriteAnswer
  <2>3. QED
    BY <1>1, <2>2 DEF Answer
<1>2. CASE op.function = 3 /\ op = Read(op.address) /\ op.address \in Registers
  <2>1. op.quantity = 1
    BY <1>2 DEF Read
  <2>2. op.address \in Int
    BY <1>2 DEF Registers, ControlRegisters, MonitorRegisters
  <2>3. op.address .. op.address + op.quantity - 1 = {op.address}
    BY <2>1, <2>2
  <2>4. ReadAnswer(op, held).function = 3
    BY <1>2, <2>1, <2>3, TablesAgree DEF ReadAnswer
  <2>5. QED
    BY <1>2, <2>4 DEF Answer
<1>3. QED
  BY <1>1, <1>2

\* The registers of the two programs agree: no request meets an exception, whatever the
\* registers hold (README.md:154, the register tables of inverter.ino and main.cpp).
THEOREM NoExceptionsHold == Spec => []NoExceptions
<1>1. NoExceptions
  <2>1. ASSUME NEW a \in Registers
        PROVE  Answer(Read(a), values).function = Read(a).function
    BY Answered DEF Read
  <2>2. ASSUME NEW op \in Writes PROVE Answer(op, values).function = op.function
    <3>1. op \in Operations
      BY DEF Operations
    <3>2. QED
      BY <3>1, OperationParts, Answered
  <2>3. QED
    BY <2>1, <2>2 DEF NoExceptions
<1>2. QED
  BY <1>1, PTL

----------------------------------------------------------------------------
(* Bytes.                                                                  *)

\* The invariant contains the types: the simulator answers with the functions the
\* firmware knows.
LEMMA TypesFollow == BusTypes => TypeOK
<1>1. SUFFICES ASSUME BusTypes PROVE TypeOK
  OBVIOUS
<1>2. ASSUME NEW r \in Reply PROVE r = Damaged \/ r.function \in {3, 6, 131, 134}
  <2>1. CASE r = Damaged
    BY <2>1
  <2>2. CASE \E op \in Operations, held \in Held : r = Answer(op, held)
    <3>1. PICK op \in Operations, held \in Held : r = Answer(op, held)
      BY <2>2
    <3>2. op.function \in {3, 6} /\ Answer(op, held).function = op.function
      BY OperationParts, Answered
    <3>3. QED
      BY <3>1, <3>2
  <2>3. QED
    BY <2>1, <2>2 DEF Reply
<1>3. \A i \in DOMAIN answers :
        answers[i] = Damaged \/ answers[i].function \in {3, 6, 131, 134}
  <2>1. \A i \in DOMAIN answers : answers[i] \in Reply
    BY <1>1 DEF BusTypes
  <2>2. QED
    BY <1>2, <2>1
<1>4. QED
  BY <1>1, <1>3 DEF BusTypes, TypeOK, Byte, Held

\* A frame is eight bytes, none of them noise.
LEMMA FrameParts ==
  ASSUME NEW op \in Operations
  PROVE  /\ Frame(op) \in Seq(Byte) /\ Len(Frame(op)) = FrameLength
         /\ \A i \in 1..FrameLength : Frame(op)[i] = <<op, i>> /\ <<op, i>> # Noise
<1>1. Frame(op) \in [1..8 -> Byte]
  BY DEF Frame, Byte, FrameLength
<1>2. Frame(op) \in Seq(Byte) /\ Len(Frame(op)) = 8
  <2>1. Frame(op) \in Seq(Byte)
    BY <1>1, SeqDef
  <2>2. DOMAIN Frame(op) = 1..8
    BY <1>1
  <2>3. Len(Frame(op)) \in Nat /\ 1..Len(Frame(op)) = 1..8
    BY <2>1, <2>2, LenProperties
  <2>4. ASSUME NEW n \in Nat, 1..n = 1..8 PROVE n = 8
    BY <2>4
  <2>5. QED
    BY <2>1, <2>3, <2>4
<1>3. QED
  BY <1>2 DEF Frame, FrameLength, Noise

\* s loses bytes or some turn to noise when t keeps the others in their order: no
\* request can be made of t that could not be made of s.
Thinned(t, s) ==
  \E f \in [1..Len(t) -> 1..Len(s)] :
    /\ \A i, j \in 1..Len(t) : i < j => f[i] < f[j]
    /\ \A i \in 1..Len(t) : t[i] = s[f[i]] \/ t[i] = Noise

\* Places of a request in t are, through f, places of the same request in s.
LEMMA ThinnedPlaces ==
  ASSUME NEW s \in Seq(Byte), NEW t \in Seq(Byte), NEW op \in Operations,
         NEW f \in [1..Len(t) -> 1..Len(s)],
         \A i, j \in 1..Len(t) : i < j => f[i] < f[j],
         \A i \in 1..Len(t) : t[i] = s[f[i]] \/ t[i] = Noise,
         NEW p \in [1..FrameLength -> 1..Len(t)], Places(t, op, p)
  PROVE  [i \in 1..FrameLength |-> f[p[i]]] \in [1..FrameLength -> 1..Len(s)]
         /\ Places(s, op, [i \in 1..FrameLength |-> f[p[i]]])
<1> DEFINE q == [i \in 1..FrameLength |-> f[p[i]]]
<1>1. q \in [1..FrameLength -> 1..Len(s)]
  OBVIOUS
<1>2. \A i, j \in 1..FrameLength : i < j => q[i] < q[j]
  BY DEF Places
<1>3. \A i \in 1..FrameLength : s[q[i]] = <<op, i>>
  <2>1. SUFFICES ASSUME NEW i \in 1..FrameLength PROVE s[q[i]] = <<op, i>>
    OBVIOUS
  <2>2. t[p[i]] = <<op, i>> /\ p[i] \in 1..Len(t)
    BY DEF Places
  <2>3. t[p[i]] # Noise
    BY <2>2, FrameParts
  <2>4. QED
    BY <2>2, <2>3
<1>4. QED
  BY <1>1, <1>2, <1>3 DEF Places

\* If no request can be made of s, none can be made of what is left of it.
LEMMA ThinnedUnmade ==
  ASSUME NEW s \in Seq(Byte), NEW t \in Seq(Byte), Thinned(t, s), Unmade(s)
  PROVE  Unmade(t)
<1>1. PICK f \in [1..Len(t) -> 1..Len(s)] :
        /\ \A i, j \in 1..Len(t) : i < j => f[i] < f[j]
        /\ \A i \in 1..Len(t) : t[i] = s[f[i]] \/ t[i] = Noise
  BY DEF Thinned
<1>2. SUFFICES ASSUME NEW op \in Operations, NEW p \in [1..FrameLength -> 1..Len(t)],
                      Places(t, op, p)
               PROVE  FALSE
  BY DEF Unmade
<1>3. QED
  BY <1>1, <1>2, ThinnedPlaces DEF Unmade

\* If only w can be made of s, only w can be made of what is left of it.
LEMMA ThinnedOnly ==
  ASSUME NEW s \in Seq(Byte), NEW t \in Seq(Byte), NEW w, Thinned(t, s), OnlyOf(s, w)
  PROVE  OnlyOf(t, w)
<1>1. PICK f \in [1..Len(t) -> 1..Len(s)] :
        /\ \A i, j \in 1..Len(t) : i < j => f[i] < f[j]
        /\ \A i \in 1..Len(t) : t[i] = s[f[i]] \/ t[i] = Noise
  BY DEF Thinned
<1>2. SUFFICES ASSUME NEW op \in Operations, NEW p \in [1..FrameLength -> 1..Len(t)],
                      Places(t, op, p)
               PROVE  op = w /\ \A j \in 1..Len(t) : j > p[FrameLength] => t[j] = Noise
  BY DEF OnlyOf
<1> DEFINE q == [i \in 1..FrameLength |-> f[p[i]]]
<1>3. q \in [1..FrameLength -> 1..Len(s)] /\ Places(s, op, q)
  BY <1>1, <1>2, ThinnedPlaces
<1>4. op = w /\ \A j \in 1..Len(s) : j > q[FrameLength] => s[j] = Noise
  BY <1>3 DEF OnlyOf
<1>5. q[FrameLength] = f[p[FrameLength]] /\ p[FrameLength] \in 1..Len(t)
  BY DEF FrameLength
<1>6. ASSUME NEW j \in 1..Len(t), j > p[FrameLength] PROVE t[j] = Noise
  <2>1. f[j] > q[FrameLength] /\ f[j] \in 1..Len(s)
    BY <1>1, <1>5, <1>6
  <2>2. QED
    BY <1>1, <1>4, <2>1
<1>7. QED
  BY <1>4, <1>6

\* A sequence of noise, or one too short, has no request in it.
LEMMA NoiseUnmade ==
  ASSUME NEW s \in Seq(Byte), \A i \in 1..Len(s) : s[i] = Noise
  PROVE  Unmade(s)
<1>1. SUFFICES ASSUME NEW op \in Operations, NEW p \in [1..FrameLength -> 1..Len(s)],
                      Places(s, op, p)
               PROVE  FALSE
  BY DEF Unmade
<1>2. 1 \in 1..FrameLength
  BY DEF FrameLength
<1>3. p[1] \in 1..Len(s) /\ s[p[1]] = <<op, 1>> /\ <<op, 1>> # Noise
  BY <1>1, <1>2, FrameParts DEF Places
<1>4. QED
  BY <1>3

\* Eight places in order need eight bytes.
LEMMA ShortUnmade ==
  ASSUME NEW s \in Seq(Byte), Len(s) < FrameLength
  PROVE  Unmade(s)
<1>1. SUFFICES ASSUME NEW op \in Operations, NEW p \in [1..FrameLength -> 1..Len(s)],
                      Places(s, op, p)
               PROVE  FALSE
  BY DEF Unmade
<1>2. PICK n \in Nat : n = Len(s) /\ n < 8
  BY LenProperties DEF FrameLength
<1>3. \A i \in 1..8 : p[i] \in 1..n
  BY <1>2 DEF FrameLength
<1>4. \A i, j \in 1..8 : i < j => p[i] < p[j]
  BY <1>1 DEF Places, FrameLength
<1>5. p \in [1..8 -> 1..n]
  BY <1>2 DEF FrameLength
<1>6. /\ IsFiniteSet(1..8) /\ Cardinality(1..8) = 8
      /\ IsFiniteSet(1..n) /\ Cardinality(1..n) = n
  <2>1. \A k \in Nat : IsFiniteSet(1..k) /\ Cardinality(1..k) = k
    BY FS_Interval
  <2>2. QED
    BY <2>1
<1>7. PICK i \in 1..8, j \in 1..8 : i # j /\ p[i] = p[j]
  <2> DEFINE S == 1..8
             T == 1..n
  <2>1. /\ IsFiniteSet(S) /\ IsFiniteSet(T) /\ Cardinality(T) < Cardinality(S)
        /\ p \in [S -> T]
    BY <1>2, <1>5, <1>6
  <2> HIDE DEF S, T
  <2>2. \E i, j \in S : i # j /\ p[i] = p[j]
    BY <2>1, FS_PigeonHole
  <2>3. QED
    BY <2>2 DEF S
<1>8. PICK q \in 1..n : q = p[i] /\ q = p[j]
  BY <1>3, <1>7
<1>9. i < j \/ j < i
  BY <1>7
<1>10. q < q
  BY <1>4, <1>8, <1>9
<1>11. QED
  BY <1>10

\* Noise behind s makes no request.
LEMMA NoiseBehind ==
  ASSUME NEW s \in Seq(Byte), NEW t \in Seq(Byte), Len(t) = Len(s) + 1,
         \A i \in 1..Len(s) : t[i] = s[i], t[Len(t)] = Noise
  PROVE  /\ Unmade(s) => Unmade(t)
         /\ \A w : OnlyOf(s, w) => OnlyOf(t, w)
<1>1. Len(s) \in Nat /\ Len(t) \in Nat
  BY LenProperties
<1>2. ASSUME NEW op \in Operations, NEW p \in [1..FrameLength -> 1..Len(t)],
             Places(t, op, p)
      PROVE  p \in [1..FrameLength -> 1..Len(s)] /\ Places(s, op, p)
  <2>1. ASSUME NEW i \in 1..FrameLength
        PROVE  p[i] \in 1..Len(s) /\ s[p[i]] = <<op, i>>
    <3>1. t[p[i]] = <<op, i>> /\ p[i] \in 1..Len(t) /\ <<op, i>> # Noise
      BY <1>2, FrameParts DEF Places
    <3>2. p[i] # Len(t)
      BY <3>1
    <3>3. p[i] \in 1..Len(s)
      BY <1>1, <3>1, <3>2
    <3>4. QED
      BY <3>1, <3>3
  <2>2. p \in [1..FrameLength -> 1..Len(s)]
    BY <2>1
  <2>3. QED
    BY <1>2, <2>1, <2>2 DEF Places
<1>3. ASSUME Unmade(s) PROVE Unmade(t)
  BY <1>2, <1>3 DEF Unmade
<1>4. ASSUME NEW w, OnlyOf(s, w) PROVE OnlyOf(t, w)
  <2>1. SUFFICES ASSUME NEW op \in Operations, NEW p \in [1..FrameLength -> 1..Len(t)],
                        Places(t, op, p)
                 PROVE  op = w /\ \A j \in 1..Len(t) : j > p[FrameLength] => t[j] = Noise
    BY DEF OnlyOf
  <2>2. op = w /\ \A j \in 1..Len(s) : j > p[FrameLength] => s[j] = Noise
    BY <1>2, <1>4, <2>1 DEF OnlyOf
  <2>3. \A j \in 1..Len(t) : j \in 1..Len(s) \/ j = Len(t)
    BY <1>1
  <2>4. QED
    BY <2>2, <2>3
<1>5. QED
  BY <1>3, <1>4

\* Behind bytes no request can be made of, a request stands alone.
LEMMA FrameBehind ==
  ASSUME NEW s \in Seq(Byte), NEW t \in Seq(Byte), NEW w \in Operations, Unmade(s),
         Len(t) = Len(s) + FrameLength, \A i \in 1..Len(s) : t[i] = s[i],
         \A i \in 1..FrameLength : t[Len(s) + i] = <<w, i>>
  PROVE  OnlyOf(t, w)
<1>1. PICK n \in Nat : Len(s) = n /\ Len(t) = n + 8
  BY LenProperties DEF FrameLength
<1>2. SUFFICES ASSUME NEW op \in Operations, NEW p \in [1..FrameLength -> 1..Len(t)],
                      Places(t, op, p)
               PROVE  op = w /\ \A j \in 1..Len(t) : j > p[FrameLength] => t[j] = Noise
  BY DEF OnlyOf
<1>3. \A i \in 1..8 : p[i] \in 1..n + 8 /\ t[p[i]] = <<op, i>>
  BY <1>1, <1>2 DEF Places, FrameLength
<1>4. PICK q \in 1..n + 8 : q = p[8]
  BY <1>3
<1>5. q > n
  <2>1. SUFFICES ASSUME q <= n PROVE FALSE
    BY <1>4
  <2>2. ASSUME NEW i \in 1..8 PROVE p[i] \in 1..n
    <3>1. CASE i = 8
      BY <3>1, <1>4, <2>1
    <3>2. CASE i < 8
      <4>1. \A a, b \in 1..8 : a < b => p[a] < p[b]
        BY <1>2 DEF Places, FrameLength
      <4>2. p[i] < p[8]
        BY <3>2, <4>1
      <4>3. PICK r \in 1..n + 8 : r = p[i]
        BY <1>3
      <4>4. r < q
        BY <1>4, <4>2, <4>3
      <4>5. r \in 1..n
        BY <2>1, <4>4
      <4>6. QED
        BY <4>3, <4>5
    <3>3. QED
      BY <3>1, <3>2
  <2>3. p \in [1..FrameLength -> 1..Len(s)]
    BY <1>1, <2>2 DEF FrameLength
  <2>4. Places(s, op, p)
    BY <1>1, <1>2, <2>2 DEF Places, FrameLength
  <2>5. QED
    BY <2>3, <2>4 DEF Unmade
<1>6. PICK k \in 1..8 : p[8] = n + k
  <2>1. q - n \in 1..8 /\ q = n + (q - n)
    BY <1>5
  <2>2. QED
    BY <1>4, <2>1
<1>7. t[p[8]] = <<w, k>> /\ t[p[8]] = <<op, 8>>
  <2>1. \A i \in 1..8 : t[n + i] = <<w, i>>
    BY <1>1 DEF FrameLength
  <2>2. t[n + k] = <<w, k>>
    BY <2>1
  <2>3. t[p[8]] = <<op, 8>>
    BY <1>3
  <2>4. QED
    BY <1>6, <2>2, <2>3
<1>8. w = op /\ k = 8
  BY <1>7
<1>9. p[FrameLength] = n + 8
  BY <1>6, <1>8 DEF FrameLength
<1>10. \A j \in 1..n + 8 : ~(j > p[FrameLength])
  BY <1>9
<1>11. QED
  BY <1>1, <1>8, <1>10

----------------------------------------------------------------------------
(* What the simulator, the bus and the firmware do to the bytes pending.   *)

\* t is the m bytes b in the buffer and then the n bytes l on the line.
Chain(t, b, m, l, n) ==
  /\ t \in Seq(Byte) /\ Len(t) = m + n
  /\ \A i \in 1..m + n : t[i] = IF i <= m THEN b[i] ELSE l[i - m]

\* The buffer and the line put together are such a chain.
LEMMA JoinedOf ==
  ASSUME NEW b \in Seq(Byte), NEW l \in Seq(Byte), NEW m \in Nat, NEW n \in Nat,
         Len(b) = m, Len(l) = n
  PROVE  Chain(b \o l, b, m, l, n)
BY ConcatProperties DEF Chain

\* The same, with the lengths named.
LEMMA Joined ==
  ASSUME NEW b \in Seq(Byte), NEW l \in Seq(Byte)
  PROVE  \E m, n \in Nat : Len(b) = m /\ Len(l) = n /\ Chain(b \o l, b, m, l, n)
<1>1. Len(b) \in Nat /\ Len(l) \in Nat
  BY LenProperties
<1>2. QED
  BY <1>1, JoinedOf, Zenon

\* Bytes that arrive are pending as before.
LEMMA MovedBytes ==
  ASSUME NEW b \in Seq(Byte), NEW l \in Seq(Byte), NEW n \in 1..Len(l)
  PROVE  /\ b \o SubSeq(l, 1, n) \in Seq(Byte) /\ SubSeq(l, n + 1, Len(l)) \in Seq(Byte)
         /\ (b \o SubSeq(l, 1, n)) \o SubSeq(l, n + 1, Len(l)) = b \o l
<1>1. Len(l) \in Nat /\ \A i \in 1..Len(l) : l[i] \in Byte
  BY LenProperties, ElementOfSeq
<1>2. SubSeq(l, 1, n) \in Seq(Byte)
  BY <1>1, SubSeqProperties
<1>3. SubSeq(l, n + 1, Len(l)) \in Seq(Byte)
  BY <1>1, SubSeqProperties
<1>4. SubSeq(l, 1, n) \o SubSeq(l, n + 1, Len(l)) = l
  <2>1. SubSeq(l, 1, n) \o SubSeq(l, n + 1, Len(l)) = SubSeq(l, 1, Len(l))
    BY <1>1, ConcatAdjacentSubSeq
  <2>2. QED
    BY <2>1, SubSeqFull
<1>5. b \o SubSeq(l, 1, n) \in Seq(Byte)
  BY <1>2, ConcatProperties
<1>6. (b \o SubSeq(l, 1, n)) \o SubSeq(l, n + 1, Len(l))
        = b \o (SubSeq(l, 1, n) \o SubSeq(l, n + 1, Len(l)))
  <2> DEFINE x == SubSeq(l, 1, n)
             y == SubSeq(l, n + 1, Len(l))
  <2>1. x \in Seq(Byte) /\ y \in Seq(Byte)
    BY <1>2, <1>3
  <2> HIDE DEF x, y
  <2>2. (b \o x) \o y = b \o (x \o y)
    BY <2>1, ConcatAssociative, SMTT(30)
  <2>3. QED
    BY <2>2, Zenon DEF x, y
<1>7. QED
  BY <1>3, <1>4, <1>5, <1>6

\* The first n bytes are dropped.
LEMMA ChainDropped ==
  ASSUME NEW m \in Nat, NEW k \in Nat, NEW n \in Nat, n <= m, NEW b, NEW c, NEW l,
         NEW s, NEW t, Chain(s, b, m, l, k), Chain(t, c, m - n, l, k),
         \A i \in 1..m - n : c[i] = b[i + n]
  PROVE  Len(t) + n = Len(s) /\ \A i \in 1..Len(t) : t[i] = s[i + n]
<1>1. Len(s) = m + k /\ Len(t) = m - n + k
  BY DEF Chain
<1>2. ASSUME NEW i \in 1..m - n + k PROVE t[i] = s[i + n]
  <2>1. i + n \in 1..m + k
    OBVIOUS
  <2>2. s[i + n] = IF i + n <= m THEN b[i + n] ELSE l[i + n - m]
    BY <2>1 DEF Chain
  <2>3. t[i] = IF i <= m - n THEN c[i] ELSE l[i - (m - n)]
    BY DEF Chain
  <2>4. i - (m - n) = i + n - m
    OBVIOUS
  <2>5. QED
    BY <2>2, <2>3, <2>4
<1>3. QED
  BY <1>1, <1>2

\* The buffer without its first n bytes, and what is pending with it.
LEMMA DroppedBytes ==
  ASSUME NEW b \in Seq(Byte), NEW l \in Seq(Byte), NEW n \in Nat, 1 <= n, n <= Len(b)
  PROVE  LET c == SubSeq(b, n + 1, Len(b))
         IN  /\ c \in Seq(Byte) /\ c \o l \in Seq(Byte)
             /\ Len(c \o l) + n = Len(b \o l)
             /\ \A i \in 1..Len(c \o l) : (c \o l)[i] = (b \o l)[i + n]
<1> DEFINE c == SubSeq(b, n + 1, Len(b))
<1>1. PICK m, k \in Nat : Len(b) = m /\ Len(l) = k /\ Chain(b \o l, b, m, l, k)
  BY Joined
<1>2. n \in 1..m /\ \A i \in 1..m : b[i] \in Byte
  BY <1>1, ElementOfSeq
<1>3. c \in Seq(Byte) /\ Len(c) = m - n /\ \A i \in 1..m - n : c[i] = b[i + n]
  <2>1. /\ SubSeq(b, n + 1, m) \in Seq(Byte)
        /\ Len(SubSeq(b, n + 1, m)) = IF n + 1 <= m THEN m - (n + 1) + 1 ELSE 0
        /\ \A i \in 1..m - (n + 1) + 1 : SubSeq(b, n + 1, m)[i] = b[n + 1 + i - 1]
    <3>1. \A i \in n + 1..m : b[i] \in Byte
      BY <1>2
    <3>2. QED
      BY <1>2, <3>1, SubSeqProperties
  <2>2. QED
    BY <1>1, <1>2, <2>1
<1>4. m - n \in Nat /\ n <= m
  BY <1>2
<1> HIDE DEF c
<1>5. Chain(c \o l, c, m - n, l, k)
  BY <1>1, <1>3, <1>4, JoinedOf, Zenon
<1>6. c \o l \in Seq(Byte)
  BY <1>5 DEF Chain
<1> DEFINE s == b \o l
           t == c \o l
<1>7. Chain(s, b, m, l, k) /\ Chain(t, c, m - n, l, k)
  BY <1>1, <1>5
<1> HIDE DEF s, t
<1>8. Len(t) + n = Len(s) /\ \A i \in 1..Len(t) : t[i] = s[i + n]
  BY <1>3, <1>4, <1>7, ChainDropped
<1>9. QED
  BY <1>3, <1>6, <1>8, Zenon DEF c, s, t

\* Dropping bytes makes no request.
LEMMA DroppedThinned ==
  ASSUME NEW s \in Seq(Byte), NEW t \in Seq(Byte), NEW n \in Nat, Len(t) + n = Len(s),
         \A i \in 1..Len(t) : t[i] = s[i + n]
  PROVE  Thinned(t, s)
<1>1. PICK k \in Nat : Len(t) = k /\ Len(s) = k + n
  BY LenProperties
<1> DEFINE f == [i \in 1..k |-> i + n]
<1>2. f \in [1..k -> 1..k + n] /\ \A i, j \in 1..k : i < j => f[i] < f[j]
  OBVIOUS
<1>3. \A i \in 1..k : t[i] = s[f[i]]
  BY <1>1
<1>4. QED
  BY <1>1, <1>2, <1>3 DEF Thinned

\* Nor does losing one byte on the line.
LEMMA ChainRemoved ==
  ASSUME NEW m \in Nat, NEW k \in Nat, NEW q \in 1..k, NEW b, NEW l, NEW r,
         NEW s, NEW t, Chain(s, b, m, l, k), Chain(t, b, m, r, k - 1),
         \A i \in 1..k - 1 : r[i] = IF i < q THEN l[i] ELSE l[i + 1]
  PROVE  Thinned(t, s)
<1>1. Len(s) = m + k /\ Len(t) = m + k - 1
  BY DEF Chain
<1> DEFINE f == [i \in 1..m + k - 1 |-> IF i < m + q THEN i ELSE i + 1]
<1>2. f \in [1..m + k - 1 -> 1..m + k] /\ \A i, j \in 1..m + k - 1 : i < j => f[i] < f[j]
  OBVIOUS
<1>3. ASSUME NEW i \in 1..m + k - 1 PROVE t[i] = s[f[i]]
  <2>1. f[i] = IF i < m + q THEN i ELSE i + 1
    OBVIOUS
  <2> HIDE DEF f
  <2>2. t[i] = IF i <= m THEN b[i] ELSE r[i - m]
    BY DEF Chain
  <2>3. \A j \in 1..m + k : s[j] = IF j <= m THEN b[j] ELSE l[j - m]
    BY DEF Chain
  <2>4. CASE i <= m
    <3>1. f[i] = i /\ i \in 1..m + k
      BY <2>1, <2>4
    <3>2. QED
      BY <2>2, <2>3, <2>4, <3>1
  <2>5. CASE i > m /\ i < m + q
    <3>1. f[i] = i /\ i \in 1..m + k /\ i - m \in 1..k - 1 /\ i - m < q
      BY <2>1, <2>5
    <3>2. r[i - m] = l[i - m]
      BY <3>1
    <3>3. QED
      BY <2>2, <2>3, <2>5, <3>1, <3>2
  <2>6. CASE i >= m + q
    <3>1. /\ f[i] = i + 1 /\ i + 1 \in 1..m + k /\ i + 1 > m
          /\ i - m \in 1..k - 1 /\ ~(i - m < q) /\ i - m + 1 = i + 1 - m
      BY <2>1, <2>6
    <3>2. r[i - m] = l[i + 1 - m]
      BY <3>1
    <3>3. s[i + 1] = l[i + 1 - m]
      BY <2>3, <3>1
    <3>4. i > m
      BY <2>6
    <3>5. t[i] = r[i - m]
      BY <2>2, <3>4
    <3>6. QED
      BY <3>1, <3>2, <3>3, <3>5
  <2>7. i <= m \/ (i > m /\ i < m + q) \/ i >= m + q
    OBVIOUS
  <2>8. QED
    BY <2>4, <2>5, <2>6, <2>7
<1> HIDE DEF f
<1>4. QED
  BY <1>1, <1>2, <1>3 DEF Thinned

\* A sequence without its q-th element.
LEMMA RemovedParts ==
  ASSUME NEW l \in Seq(Byte), NEW k \in Nat, Len(l) = k, NEW q \in 1..k
  PROVE  /\ RemoveAt(l, q) \in Seq(Byte) /\ Len(RemoveAt(l, q)) = k - 1
         /\ \A i \in 1..k - 1 : RemoveAt(l, q)[i] = IF i < q THEN l[i] ELSE l[i + 1]
<1> DEFINE x == SubSeq(l, 1, q - 1)
           y == SubSeq(l, q + 1, k)
<1>1. \A i \in 1..k : l[i] \in Byte
  BY ElementOfSeq
<1>2. x \in Seq(Byte) /\ Len(x) = q - 1 /\ \A i \in 1..q - 1 : x[i] = l[i]
  <2>1. \A i \in 1..q - 1 : l[i] \in Byte
    BY <1>1
  <2>2. /\ SubSeq(l, 1, q - 1) \in Seq(Byte)
        /\ Len(SubSeq(l, 1, q - 1)) = IF 1 <= q - 1 THEN q - 1 - 1 + 1 ELSE 0
        /\ \A i \in 1..q - 1 - 1 + 1 : SubSeq(l, 1, q - 1)[i] = l[1 + i - 1]
    BY <2>1, SubSeqProperties
  <2>3. QED
    BY <2>2
<1>3. y \in Seq(Byte) /\ Len(y) = k - q /\ \A i \in 1..k - q : y[i] = l[i + q]
  <2>1. \A i \in q + 1..k : l[i] \in Byte
    BY <1>1
  <2>2. /\ SubSeq(l, q + 1, k) \in Seq(Byte)
        /\ Len(SubSeq(l, q + 1, k)) = IF q + 1 <= k THEN k - (q + 1) + 1 ELSE 0
        /\ \A i \in 1..k - (q + 1) + 1 : SubSeq(l, q + 1, k)[i] = l[q + 1 + i - 1]
    BY <2>1, SubSeqProperties
  <2>3. QED
    BY <2>2
<1>4. RemoveAt(l, q) = x \o y
  BY DEF RemoveAt
<1> HIDE DEF x, y
<1>5. q - 1 \in Nat /\ k - q \in Nat
  OBVIOUS
<1>6. Chain(x \o y, x, q - 1, y, k - q)
  BY <1>2, <1>3, <1>5, JoinedOf, Zenon
<1>7. Chain(RemoveAt(l, q), x, q - 1, y, k - q)
  BY <1>4, <1>6
<1>8. ASSUME NEW i \in 1..k - 1
      PROVE  RemoveAt(l, q)[i] = IF i < q THEN l[i] ELSE l[i + 1]
  <2>1. RemoveAt(l, q)[i] = IF i <= q - 1 THEN x[i] ELSE y[i - (q - 1)]
    BY <1>7 DEF Chain
  <2>2. CASE i < q
    BY <1>2, <2>1, <2>2
  <2>3. CASE i >= q
    <3>1. i - (q - 1) \in 1..k - q /\ i - (q - 1) + q = i + 1
      BY <2>3
    <3>2. y[i - (q - 1)] = l[i + 1]
      BY <1>3, <3>1
    <3>3. QED
      BY <2>1, <2>3, <3>2
  <2>4. QED
    BY <2>2, <2>3
<1>9. RemoveAt(l, q) \in Seq(Byte) /\ Len(RemoveAt(l, q)) = k - 1
  BY <1>7 DEF Chain
<1>10. QED
  BY <1>8, <1>9

\* The line without its q-th byte, and what is pending with it.
LEMMA RemovedByte ==
  ASSUME NEW b \in Seq(Byte), NEW l \in Seq(Byte), NEW q \in 1..Len(l)
  PROVE  /\ RemoveAt(l, q) \in Seq(Byte) /\ b \o RemoveAt(l, q) \in Seq(Byte)
         /\ Thinned(b \o RemoveAt(l, q), b \o l)
<1> DEFINE r == RemoveAt(l, q)
<1>1. PICK m, k \in Nat : Len(b) = m /\ Len(l) = k /\ Chain(b \o l, b, m, l, k)
  BY Joined
<1>2. q \in 1..k
  BY <1>1
<1>3. k - 1 \in Nat
  BY <1>2
<1>4. /\ r \in Seq(Byte) /\ Len(r) = k - 1
      /\ \A i \in 1..k - 1 : r[i] = IF i < q THEN l[i] ELSE l[i + 1]
  BY <1>1, <1>2, RemovedParts, Zenon
<1> HIDE DEF r
<1>5. Chain(b \o r, b, m, r, k - 1)
  BY <1>1, <1>3, <1>4, JoinedOf, Zenon
<1>6. b \o r \in Seq(Byte)
  BY <1>5 DEF Chain
<1> DEFINE s == b \o l
           t == b \o r
<1>7. Chain(s, b, m, l, k) /\ Chain(t, b, m, r, k - 1)
  BY <1>1, <1>5
<1> HIDE DEF s, t
<1>8. Thinned(t, s)
  BY <1>2, <1>4, <1>7, ChainRemoved
<1>9. QED
  BY <1>4, <1>6, <1>8, Zenon DEF r, s, t

\* Nor its turning into noise.
LEMMA ChainNoised ==
  ASSUME NEW m \in Nat, NEW k \in Nat, NEW b, NEW l, NEW r, NEW s, NEW t,
         Chain(s, b, m, l, k), Chain(t, b, m, r, k),
         \A i \in 1..k : r[i] = l[i] \/ r[i] = Noise
  PROVE  Thinned(t, s)
<1>1. Len(s) = m + k /\ Len(t) = m + k
  BY DEF Chain
<1> DEFINE f == [i \in 1..m + k |-> i]
<1>2. f \in [1..m + k -> 1..m + k] /\ \A i, j \in 1..m + k : i < j => f[i] < f[j]
  OBVIOUS
<1>3. ASSUME NEW i \in 1..m + k PROVE t[i] = s[f[i]] \/ t[i] = Noise
  <2>1. f[i] = i
    OBVIOUS
  <2> HIDE DEF f
  <2>2. /\ t[i] = IF i <= m THEN b[i] ELSE r[i - m]
        /\ s[i] = IF i <= m THEN b[i] ELSE l[i - m]
    BY DEF Chain
  <2>3. CASE i <= m
    BY <2>1, <2>2, <2>3
  <2>4. CASE i > m
    <3>1. i - m \in 1..k
      BY <2>4
    <3>2. r[i - m] = l[i - m] \/ r[i - m] = Noise
      BY <3>1
    <3>3. QED
      BY <2>1, <2>2, <2>4, <3>2
  <2>5. QED
    BY <2>3, <2>4
<1> HIDE DEF f
<1>4. QED
  BY <1>1, <1>2, <1>3 DEF Thinned

\* The line with noise for its q-th byte, and what is pending with it.
LEMMA NoisedByte ==
  ASSUME NEW b \in Seq(Byte), NEW l \in Seq(Byte), NEW q \in 1..Len(l)
  PROVE  LET r == [l EXCEPT ![q] = Noise]
         IN  r \in Seq(Byte) /\ b \o r \in Seq(Byte) /\ Thinned(b \o r, b \o l)
<1> DEFINE r == [l EXCEPT ![q] = Noise]
<1>1. PICK m, k \in Nat : Len(b) = m /\ Len(l) = k /\ Chain(b \o l, b, m, l, k)
  BY Joined
<1>2. r \in Seq(Byte) /\ Len(r) = k /\ \A i \in 1..k : r[i] = l[i] \/ r[i] = Noise
  BY <1>1, ExceptSeq DEF Byte
<1> HIDE DEF r
<1>3. Chain(b \o r, b, m, r, k)
  BY <1>1, <1>2, JoinedOf, Zenon
<1>4. b \o r \in Seq(Byte)
  BY <1>3 DEF Chain
<1>5. Thinned(b \o r, b \o l)
  BY <1>1, <1>2, <1>3, ChainNoised, Zenon
<1>6. QED
  BY <1>2, <1>4, <1>5, Zenon DEF r

\* A request on the line is behind what is pending.
LEMMA SentBytes ==
  ASSUME NEW b \in Seq(Byte), NEW l \in Seq(Byte), NEW op \in Operations
  PROVE  LET t == b \o (l \o Frame(op))
         IN  /\ l \o Frame(op) \in Seq(Byte) /\ t \in Seq(Byte)
             /\ Len(t) = Len(b \o l) + FrameLength
             /\ \A i \in 1..Len(b \o l) : t[i] = (b \o l)[i]
             /\ \A i \in 1..FrameLength : t[Len(b \o l) + i] = <<op, i>>
<1> DEFINE g == Frame(op)
           s == b \o l
           t == s \o g
<1>1. g \in Seq(Byte) /\ Len(g) = 8 /\ \A i \in 1..8 : g[i] = <<op, i>>
  BY FrameParts DEF FrameLength
<1>2. s \in Seq(Byte)
  BY ConcatProperties
<1> HIDE DEF g, s
<1>3. PICK n \in Nat : Len(s) = n
  BY <1>2, LenProperties
<1>4. Chain(t, s, n, g, 8)
  BY <1>1, <1>2, <1>3, JoinedOf
<1>5. b \o (l \o g) = (b \o l) \o g /\ l \o g \in Seq(Byte)
  <2>1. g \in Seq(Byte)
    BY <1>1
  <2>2. l \o g \in Seq(Byte)
    BY <2>1, ConcatProperties
  <2>3. (b \o l) \o g = b \o (l \o g)
    BY <2>1, ConcatAssociative
  <2>4. QED
    BY <2>2, <2>3
<1>6. b \o (l \o g) = t
  BY <1>5 DEF s
<1> HIDE DEF t
<1>7. t \in Seq(Byte) /\ Len(t) = n + 8 /\ \A i \in 1..n : t[i] = s[i]
  BY <1>4 DEF Chain
<1>8. ASSUME NEW i \in 1..8 PROVE t[n + i] = <<op, i>>
  <2>1. n + i \in 1..n + 8 /\ ~(n + i <= n) /\ n + i - n = i
    OBVIOUS
  <2>2. t[n + i] = g[n + i - n]
    BY <1>4, <2>1 DEF Chain
  <2>3. QED
    BY <1>1, <2>1, <2>2
<1>9. \A i \in 1..FrameLength : t[n + i] = <<op, i>>
  BY <1>8 DEF FrameLength
<1>10. QED
  BY <1>3, <1>5, <1>6, <1>7, <1>9, Zenon DEF g, s, FrameLength

\* Noise on the quiet line is behind what is pending.
LEMMA DisturbedBytes ==
  ASSUME NEW b \in Seq(Byte)
  PROVE  /\ <<Noise>> \in Seq(Byte) /\ b \o <<Noise>> \in Seq(Byte)
         /\ Len(b \o <<Noise>>) = Len(b \o <<>>) + 1
         /\ \A i \in 1..Len(b \o <<>>) : (b \o <<Noise>>)[i] = (b \o <<>>)[i]
         /\ (b \o <<Noise>>)[Len(b \o <<Noise>>)] = Noise
<1>1. b \o <<>> = b
  BY ConcatEmptySeq
<1> DEFINE g == <<Noise>>
           t == b \o g
<1>2. g \in Seq(Byte) /\ Len(g) = 1 /\ g[1] = Noise
  BY DEF Byte
<1> HIDE DEF g
<1>3. PICK n \in Nat : Len(b) = n
  BY LenProperties
<1>4. Chain(t, b, n, g, 1)
  BY <1>2, <1>3, JoinedOf
<1> HIDE DEF t
<1>5. t \in Seq(Byte) /\ Len(t) = n + 1 /\ \A i \in 1..n : t[i] = b[i]
  BY <1>4 DEF Chain
<1>6. t[n + 1] = Noise
  BY <1>2, <1>4 DEF Chain
<1>7. QED
  BY <1>1, <1>2, <1>3, <1>5, <1>6 DEF g, t

----------------------------------------------------------------------------
(* A request that stands whole goes on doing so.                           *)

\* More bytes behind it do not harm it.
LEMMA WholeLonger ==
  ASSUME NEW s \in Seq(Byte), NEW t \in Seq(Byte), NEW op, NEW d \in Nat,
         Len(t) = Len(s) + d, \A i \in 1..Len(s) : t[i] = s[i], StandsWhole(s, op)
  PROVE  StandsWhole(t, op)
<1>1. PICK n \in Nat : Len(s) = n /\ Len(t) = n + d
  BY LenProperties
<1>2. PICK k \in Nat : k + 8 <= n /\ \A i \in 1..8 : s[k + i] = <<op, i>>
  BY <1>1 DEF StandsWhole, FrameLength
<1>3. k + 8 <= n /\ k + 8 <= n + d
  <2>1. k + 8 <= n
    BY <1>2
  <2>2. QED
    BY <2>1
<1>4. ASSUME NEW i \in 1..8 PROVE t[k + i] = <<op, i>>
  <2>1. k + i \in 1..n
    BY <1>3
  <2>2. QED
    BY <1>1, <1>2, <2>1
<1>5. QED
  BY <1>1, <1>3, <1>4 DEF StandsWhole, FrameLength

\* Nor does a byte dropped at the front, if it does not begin there.
LEMMA WholeShorter ==
  ASSUME NEW s \in Seq(Byte), NEW t \in Seq(Byte), NEW op, Len(t) + 1 = Len(s),
         \A i \in 1..Len(t) : t[i] = s[i + 1],
         StandsWhole(s, op), ~ \A i \in 1..FrameLength : s[i] = <<op, i>>
  PROVE  StandsWhole(t, op)
<1>1. PICK n \in Nat : Len(t) = n /\ Len(s) = n + 1
  BY LenProperties
<1>2. PICK k \in Nat : k + 8 <= n + 1 /\ \A i \in 1..8 : s[k + i] = <<op, i>>
  BY <1>1 DEF StandsWhole, FrameLength
<1>3. k # 0
  <2>1. SUFFICES ASSUME k = 0 PROVE FALSE
    OBVIOUS
  <2>2. \A i \in 1..8 : s[i] = <<op, i>>
    BY <1>2, <2>1
  <2>3. QED
    BY <2>2 DEF FrameLength
<1>4. k + 8 <= n + 1 /\ k - 1 \in Nat /\ k - 1 + 8 <= n
  <2>1. k + 8 <= n + 1
    BY <1>2
  <2>2. QED
    BY <1>3, <2>1
<1>5. ASSUME NEW i \in 1..8 PROVE t[k - 1 + i] = <<op, i>>
  <2>1. k - 1 + i \in 1..n /\ k - 1 + i + 1 = k + i
    BY <1>4
  <2>2. t[k - 1 + i] = s[k - 1 + i + 1]
    BY <1>1, <2>1
  <2>3. QED
    BY <1>2, <2>1, <2>2
<1>6. QED
  BY <1>1, <1>4, <1>5 DEF StandsWhole, FrameLength

----------------------------------------------------------------------------
(* Every step keeps the invariant.                                         *)

\* What is pending is bytes.
LEMMA PendingTypes == BusTypes => Pending \in Seq(Byte)
BY ConcatProperties DEF BusTypes, Pending

\* Where the simulator finds a request, in terms of what is pending.
LEMMA FrontParts ==
  ASSUME BusTypes, Len(rxBuffer) >= FrameLength, NEW op \in Operations
  PROVE  AtFront(op) <=> \A i \in 1..FrameLength : Pending[i] = <<op, i>>
<1>1. rxBuffer \in Seq(Byte) /\ line \in Seq(Byte)
  BY DEF BusTypes
<1>2. PICK m, k \in Nat :
        /\ Len(rxBuffer) = m /\ Len(line) = k
        /\ Chain(rxBuffer \o line, rxBuffer, m, line, k)
  BY <1>1, Joined, Zenon
<1>3. m >= 8
  BY <1>2 DEF FrameLength
<1>4. \A i \in 1..8 : Pending[i] = rxBuffer[i]
  <2>1. Chain(Pending, rxBuffer, m, line, k)
    BY <1>2 DEF Pending
  <2>2. ASSUME NEW i \in 1..8 PROVE Pending[i] = rxBuffer[i]
    <3>1. i \in 1..m + k /\ i <= m
      BY <1>3
    <3>2. QED
      BY <2>1, <3>1 DEF Chain
  <2>3. QED
    BY <2>2
<1> DEFINE x == SubSeq(rxBuffer, 1, 8)
<1>5. x \in Seq(Byte) /\ Len(x) = 8 /\ \A i \in 1..8 : x[i] = rxBuffer[i]
  <2>1. \A i \in 1..8 : rxBuffer[i] \in Byte
    BY <1>1, <1>2, <1>3, ElementOfSeq
  <2>2. /\ SubSeq(rxBuffer, 1, 8) \in Seq(Byte)
        /\ Len(SubSeq(rxBuffer, 1, 8)) = IF 1 <= 8 THEN 8 - 1 + 1 ELSE 0
        /\ \A i \in 1..8 - 1 + 1 : SubSeq(rxBuffer, 1, 8)[i] = rxBuffer[1 + i - 1]
    BY <2>1, SubSeqProperties
  <2>3. QED
    BY <2>2
<1>6. /\ Frame(op) \in Seq(Byte) /\ Len(Frame(op)) = 8
      /\ \A i \in 1..8 : Frame(op)[i] = <<op, i>>
  BY FrameParts DEF FrameLength
<1>7. AtFront(op) <=> x = Frame(op)
  BY DEF AtFront, FrameLength
<1> HIDE DEF x
<1>8. ASSUME \A i \in 1..8 : Pending[i] = <<op, i>> PROVE x = Frame(op)
  <2>1. \A i \in 1..8 : x[i] = Frame(op)[i]
    BY <1>4, <1>5, <1>6, <1>8
  <2>2. QED
    BY <1>5, <1>6, <2>1, SeqEqual
<1>9. ASSUME x = Frame(op) PROVE \A i \in 1..8 : Pending[i] = <<op, i>>
  BY <1>4, <1>5, <1>6, <1>9
<1>10. QED
  BY <1>7, <1>8, <1>9 DEF FrameLength

\* A step that only moves bytes, or none.
LEMMA SamePending ==
  ASSUME BusInv, Pending' = Pending, UNCHANGED <<slaveId, values, answers, task, hurt>>,
         stalls' = stalls
  PROVE  (Intact /\ InTime)'
BY DEF BusInv, Intact, InTime, OnlyTask, AnswersTask, TrueAnswer

\* A step after which less is pending.
LEMMA LessPending ==
  ASSUME BusInv, Thinned(Pending', Pending), Pending' \in Seq(Byte),
         UNCHANGED <<values, answers, task>>, stalls' = stalls
  PROVE  InTime'
<1>1. SUFFICES ASSUME stalls' = 0 PROVE OnlyTask' /\ AnswersTask'
  BY DEF InTime
<1>2. OnlyTask /\ AnswersTask /\ Pending \in Seq(Byte)
  BY <1>1, PendingTypes DEF BusInv, InTime
<1>3. AnswersTask'
  BY <1>2 DEF AnswersTask, TrueAnswer
<1>4. ASSUME OnlyOf(Pending, task) PROVE OnlyOf(Pending', task)
  BY <1>2, <1>4, ThinnedOnly
<1>5. ASSUME Unmade(Pending) PROVE Unmade(Pending')
  BY <1>2, <1>5, ThinnedUnmade
<1>6. OnlyTask'
  BY <1>2, <1>4, <1>5 DEF OnlyTask
<1>7. QED
  BY <1>3, <1>6

\* At the start the bus is quiet.
LEMMA InitBus == Init => BusInv
<1>1. SUFFICES ASSUME Init PROVE BusInv
  OBVIOUS
<1>2. BusTypes
  <2>1. faults \in 0..MaxFaults /\ stalls \in 0..MaxStalls
    BY <1>1, BoundsAssumption DEF Init
  <2>2. values \in Held
    BY <1>1 DEF Init, Held
  <2>3. line \in Seq(Byte) /\ rxBuffer \in Seq(Byte) /\ answers \in Seq(Reply)
    BY <1>1, EmptySeq DEF Init
  <2>4. QED
    BY <1>1, <2>1, <2>2, <2>3 DEF Init, BusTypes
<1>3. Intact
  BY <1>1 DEF Init, Intact
<1>4. Pending \in Seq(Byte) /\ Len(Pending) = 0
  BY <1>1 DEF Init, Pending
<1>5. Unmade(Pending)
  <2>1. Len(Pending) < FrameLength
    BY <1>4 DEF FrameLength
  <2>2. QED
    BY <1>4, <2>1, ShortUnmade
<1>6. QED
  BY <1>1, <1>2, <1>3, <1>5 DEF Init, BusInv, InTime, OnlyTask, AnswersTask

\* Received bytes stay in their order.
LEMMA ReadAvailableKeeps == BusInv /\ ReadAvailable => BusInv'
<1>1. SUFFICES ASSUME BusInv, ReadAvailable PROVE BusInv'
  OBVIOUS
<1>2. rxBuffer \in Seq(Byte) /\ line \in Seq(Byte)
  BY <1>1 DEF BusInv, BusTypes
<1>3. PICK n \in 1..Len(line) : /\ rxBuffer' = rxBuffer \o SubSeq(line, 1, n)
                                /\ line' = SubSeq(line, n + 1, Len(line))
  BY <1>1 DEF ReadAvailable
<1>4. /\ rxBuffer' \in Seq(Byte) /\ line' \in Seq(Byte)
      /\ rxBuffer' \o line' = rxBuffer \o line
  BY <1>2, <1>3, MovedBytes, Zenon
<1>5. Pending' = Pending
  BY <1>4 DEF Pending
<1>6. BusTypes'
  BY <1>1, <1>4 DEF BusInv, BusTypes, ReadAvailable, bounds
<1>7. (Intact /\ InTime)'
  BY <1>1, <1>5, SamePending DEF ReadAvailable, bounds
<1>8. QED
  BY <1>6, <1>7 DEF BusInv

\* What is pending once n bytes at the front are gone.
LEMMA EraseKeeps ==
  ASSUME BusTypes, NEW n \in Nat, 1 <= n, n <= Len(rxBuffer), Erase(n), line' = line
  PROVE  /\ rxBuffer' \in Seq(Byte) /\ Pending' \in Seq(Byte)
         /\ Len(Pending') + n = Len(Pending)
         /\ \A i \in 1..Len(Pending') : Pending'[i] = Pending[i + n]
         /\ Thinned(Pending', Pending)
<1>1. rxBuffer \in Seq(Byte) /\ line \in Seq(Byte)
  BY DEF BusTypes
<1>2. rxBuffer' = SubSeq(rxBuffer, n + 1, Len(rxBuffer))
  BY DEF Erase
<1>3. Pending' = SubSeq(rxBuffer, n + 1, Len(rxBuffer)) \o line
  BY <1>2 DEF Pending
<1>4. /\ rxBuffer' \in Seq(Byte) /\ Pending' \in Seq(Byte)
      /\ Len(Pending') + n = Len(rxBuffer \o line)
      /\ \A i \in 1..Len(Pending') : Pending'[i] = (rxBuffer \o line)[i + n]
  BY <1>1, <1>2, <1>3, DroppedBytes, Zenon
<1>5. /\ Len(Pending') + n = Len(Pending)
      /\ \A i \in 1..Len(Pending') : Pending'[i] = Pending[i + n]
  BY <1>4, Zenon DEF Pending
<1>6. Pending \in Seq(Byte)
  BY PendingTypes
<1>7. Thinned(Pending', Pending)
  BY <1>4, <1>5, <1>6, DroppedThinned, Zenon
<1>8. QED
  BY <1>4, <1>5, <1>7, Zenon

\* A byte is dropped only if no request begins with it.
LEMMA SkipByteKeeps == BusInv /\ SkipByte => BusInv'
<1>1. SUFFICES ASSUME BusInv, SkipByte PROVE BusInv'
  OBVIOUS
<1>2. /\ Erase(1) /\ Len(rxBuffer) >= FrameLength
      /\ UNCHANGED <<slaveId, values, line, answers, task, hurt, outcome, bounds>>
      /\ \A op \in Operations : ~AtFront(op)
  BY <1>1 DEF SkipByte
<1>3. BusTypes /\ Pending \in Seq(Byte) /\ Intact
  BY <1>1, PendingTypes DEF BusInv
<1>4. 1 <= Len(rxBuffer)
  BY <1>2, <1>3, LenProperties DEF BusTypes, FrameLength
<1>5. /\ rxBuffer' \in Seq(Byte) /\ Pending' \in Seq(Byte)
      /\ Len(Pending') + 1 = Len(Pending)
      /\ \A i \in 1..Len(Pending') : Pending'[i] = Pending[i + 1]
      /\ Thinned(Pending', Pending)
  BY <1>2, <1>3, <1>4, EraseKeeps
<1>6. BusTypes'
  BY <1>2, <1>3, <1>5 DEF BusTypes, bounds
<1>7. InTime'
  BY <1>1, <1>2, <1>5, LessPending DEF bounds
<1>8. Intact'
  <2>1. SUFFICES ASSUME ~hurt, task # None, answers = <<>>, slaveId = MODBUS_SLAVE_ID
                 PROVE  StandsWhole(Pending', task)
    BY <1>2 DEF Intact
  <2>2. StandsWhole(Pending, task) /\ task \in Operations
    BY <1>3, <2>1 DEF Intact, BusTypes
  <2>3. ~ \A i \in 1..FrameLength : Pending[i] = <<task, i>>
    BY <1>2, <1>3, <2>2, FrontParts
  <2>4. QED
    BY <1>3, <1>5, <2>2, <2>3, WholeShorter
<1>9. QED
  BY <1>6, <1>7, <1>8 DEF BusInv

\* A simulator with another id answers nothing.
LEMMA IgnoreRequestKeeps == BusInv /\ IgnoreRequest => BusInv'
<1>1. SUFFICES ASSUME BusInv, IgnoreRequest PROVE BusInv'
  OBVIOUS
<1>2. /\ Erase(8) /\ Len(rxBuffer) >= 8 /\ slaveId # MODBUS_SLAVE_ID
      /\ UNCHANGED <<slaveId, values, line, answers, task, hurt, outcome, bounds>>
  BY <1>1 DEF IgnoreRequest, AtFront, FrameLength
<1>3. BusTypes
  BY <1>1 DEF BusInv
<1>4. 8 <= Len(rxBuffer)
  BY <1>2, <1>3, LenProperties DEF BusTypes
<1>5. rxBuffer' \in Seq(Byte) /\ Pending' \in Seq(Byte) /\ Thinned(Pending', Pending)
  BY <1>2, <1>3, <1>4, EraseKeeps
<1>6. BusTypes'
  BY <1>2, <1>3, <1>5 DEF BusTypes, bounds
<1>7. InTime'
  BY <1>1, <1>2, <1>5, LessPending DEF bounds
<1>8. Intact'
  BY <1>2 DEF Intact
<1>9. QED
  BY <1>6, <1>7, <1>8 DEF BusInv

\* What a request does to the registers, and that its answer is still the answer
\* afterwards.
LEMMA StoreParts ==
  ASSUME BusTypes, NEW op \in Operations, Store(op)
  PROVE  /\ values' \in Held /\ Answer(op, values) = Answer(op, values')
         /\ op.function = 6 => values'[op.address] = op.data[1]
         /\ Answer(op, values) \in Reply
<1>1. Answer(op, values) \in Reply
  BY DEF BusTypes, Reply
<1>2. CASE op.function = 6
  <2>1. op.address \in ControlRegisters /\ op.data[1] \in NewValues
    BY <1>2, OperationParts
  <2>2. Answer(op, values) = op /\ Answer(op, values') = op
    BY <1>2, <2>1, Answered
  <2>3. values' = [values EXCEPT ![op.address] = op.data[1]]
    BY <1>2, <2>2 DEF Store
  <2>4. QED
    BY <1>1, <2>1, <2>2, <2>3 DEF BusTypes, Held
<1>3. CASE op.function # 6
  <2>1. values' = values
    BY <1>3 DEF Store
  <2>2. QED
    BY <1>1, <1>3, <2>1 DEF BusTypes
<1>4. QED
  BY <1>2, <1>3

\* The request served is the one on its way, and nothing of it is left.
LEMMA ServeKeeps ==
  ASSUME BusInv, NEW op \in Operations, Serve(op)
  PROVE  BusInv'
<1>1. /\ AtFront(op) /\ Store(op) /\ Erase(8) /\ Len(rxBuffer) >= 8
      /\ answers' = Append(answers, Answer(op, values))
      /\ UNCHANGED <<slaveId, line, task, hurt, outcome, bounds>>
  BY DEF Serve, AtFront, FrameLength
<1>2. BusTypes
  BY DEF BusInv
<1>3. 8 <= Len(rxBuffer)
  BY <1>1, <1>2, LenProperties DEF BusTypes
<1>4. /\ rxBuffer' \in Seq(Byte) /\ Pending' \in Seq(Byte)
      /\ Len(Pending') + 8 = Len(Pending)
      /\ \A i \in 1..Len(Pending') : Pending'[i] = Pending[i + 8]
  BY <1>1, <1>2, <1>3, EraseKeeps
<1>5. /\ values' \in Held /\ Answer(op, values) = Answer(op, values')
      /\ op.function = 6 => values'[op.address] = op.data[1]
      /\ Answer(op, values) \in Reply
  BY <1>1, <1>2, StoreParts
<1>6. answers' \in Seq(Reply) /\ answers' # <<>>
  BY <1>1, <1>2, <1>5 DEF BusTypes
<1>7. BusTypes'
  BY <1>1, <1>2, <1>4, <1>5, <1>6 DEF BusTypes, bounds
<1>8. Intact'
  BY <1>6 DEF Intact
<1>9. InTime'
  <2>1. SUFFICES ASSUME stalls' = 0 PROVE OnlyTask' /\ AnswersTask'
    BY DEF InTime
  <2>2. OnlyTask
    BY <1>1, <2>1 DEF BusInv, InTime, bounds
  <2>3. \A i \in 1..8 : Pending[i] = <<op, i>>
    BY <1>1, <1>2, <1>3, FrontParts DEF FrameLength
  <2>4. PICK n \in Nat : Len(Pending') = n /\ Len(Pending) = n + 8
    BY <1>4, LenProperties
  <2> DEFINE p == [i \in 1..8 |-> i]
  <2>5. p \in [1..FrameLength -> 1..Len(Pending)]
    BY <2>4 DEF FrameLength
  <2>6. Places(Pending, op, p)
    BY <2>3 DEF Places, FrameLength
  <2>7. p[FrameLength] = 8
    BY DEF FrameLength
  <2> HIDE DEF p
  <2>8. task # None /\ answers = <<>>
    BY <2>2, <2>5, <2>6 DEF OnlyTask, Unmade
  <2>9. op = task /\ \A j \in 1..Len(Pending) : j > 8 => Pending[j] = Noise
    BY <2>2, <2>5, <2>6, <2>7, <2>8 DEF OnlyTask, OnlyOf
  <2>10. \A i \in 1..Len(Pending') : Pending'[i] = Noise
    <3>1. ASSUME NEW i \in 1..n PROVE Pending[i + 8] = Noise
      <4>1. i + 8 \in 1..n + 8 /\ i + 8 > 8
        OBVIOUS
      <4>2. QED
        BY <2>4, <2>9, <4>1
    <3>2. QED
      BY <1>4, <2>4, <3>1
  <2>11. Unmade(Pending')
    BY <1>4, <2>10, NoiseUnmade
  <2>12. answers' = <<Answer(task, values)>>
    BY <1>1, <2>8, <2>9
  <2>13. Len(answers') = 1 /\ answers'[1] = Answer(task, values')
    BY <1>5, <2>9, <2>12
  <2>14. AnswersTask'
    BY <1>1, <1>5, <2>8, <2>9, <2>13 DEF AnswersTask, TrueAnswer
  <2>15. OnlyTask'
    BY <1>1, <1>6, <2>11 DEF OnlyTask
  <2>16. QED
    BY <2>14, <2>15
<1>10. QED
  BY <1>7, <1>8, <1>9 DEF BusInv

\* A request finds nothing pending that could be taken for another.
LEMMA RequestKeeps ==
  ASSUME BusInv, NEW op \in Operations, Request(op)
  PROVE  BusInv'
<1>1. /\ task = None /\ task' = op /\ answers' = <<>> /\ line' = line \o Frame(op)
      /\ hurt' = FALSE /\ UNCHANGED <<slaveId, values, rxBuffer, outcome, bounds>>
  BY DEF Request, simulator
<1>2. BusTypes /\ Pending \in Seq(Byte)
  BY PendingTypes DEF BusInv
<1>3. rxBuffer \in Seq(Byte) /\ line \in Seq(Byte)
  BY <1>2 DEF BusTypes
<1>4. Pending' = rxBuffer \o (line \o Frame(op))
  BY <1>1 DEF Pending
<1>5. /\ line' \in Seq(Byte) /\ Pending' \in Seq(Byte)
      /\ Len(Pending') = Len(Pending) + FrameLength
      /\ \A i \in 1..Len(Pending) : Pending'[i] = Pending[i]
      /\ \A i \in 1..FrameLength : Pending'[Len(Pending) + i] = <<op, i>>
  BY <1>1, <1>3, <1>4, SentBytes, Zenon DEF Pending
<1>6. BusTypes'
  <2>1. answers' \in Seq(Reply)
    BY <1>1, EmptySeq
  <2>2. QED
    BY <1>1, <1>2, <1>5, <2>1 DEF BusTypes, bounds
<1>7. Intact'
  <2>1. PICK n \in Nat : Len(Pending) = n /\ Len(Pending') = n + 8
    BY <1>2, <1>5, LenProperties DEF FrameLength
  <2>2. n + FrameLength <= Len(Pending')
    BY <2>1 DEF FrameLength
  <2>3. StandsWhole(Pending', op)
    BY <1>5, <2>1, <2>2 DEF StandsWhole
  <2>4. QED
    BY <1>1, <2>3 DEF Intact
<1>8. InTime'
  <2>1. SUFFICES ASSUME stalls' = 0 PROVE OnlyTask' /\ AnswersTask'
    BY DEF InTime
  <2>2. Unmade(Pending)
    BY <1>1, <2>1 DEF BusInv, InTime, OnlyTask, bounds
  <2>3. OnlyOf(Pending', op)
    BY <1>2, <1>5, <2>2, FrameBehind
  <2>4. op # None
    BY NoneAssumption
  <2>5. QED
    BY <1>1, <2>3, <2>4 DEF OnlyTask, AnswersTask
<1>9. QED
  BY <1>6, <1>7, <1>8 DEF BusInv

\* After an answer nothing is pending that could be answered.
LEMMA ReceiveKeeps == BusInv /\ Receive => BusInv'
<1>1. SUFFICES ASSUME BusInv, Receive PROVE BusInv'
  OBVIOUS
<1>2. /\ task # None /\ answers # <<>> /\ task' = None /\ answers' = Tail(answers)
      /\ UNCHANGED <<slaveId, values, rxBuffer, line, hurt, bounds>>
      /\ outcome' = None \/ outcome' = [op |-> task, data |-> Head(answers).data]
  BY <1>1 DEF Receive, simulator
<1>3. BusTypes
  BY <1>1 DEF BusInv
<1>4. answers' \in Seq(Reply)
  BY <1>2, <1>3, HeadTailProperties DEF BusTypes
<1>5. outcome' = None \/ outcome'.op \in Operations
  BY <1>2, <1>3 DEF BusTypes
<1>6. BusTypes'
  BY <1>2, <1>3, <1>4, <1>5 DEF BusTypes, bounds
<1>7. Intact'
  BY <1>2 DEF Intact
<1>8. InTime'
  <2>1. SUFFICES ASSUME stalls' = 0 PROVE OnlyTask' /\ AnswersTask'
    BY DEF InTime
  <2>2. OnlyTask /\ AnswersTask
    BY <1>1, <1>2, <2>1 DEF BusInv, InTime, bounds
  <2>3. Unmade(Pending) /\ Pending' = Pending
    BY <1>2, <2>2 DEF OnlyTask, Pending
  <2>4. answers \in Seq(Reply) /\ Len(answers) = 1
    BY <1>2, <1>3, <2>2 DEF BusTypes, AnswersTask
  <2>5. Tail(answers) = <<>>
    <3>1. Tail(answers) \in Seq(Reply) /\ Len(Tail(answers)) = 0
      BY <1>2, <2>4, HeadTailProperties
    <3>2. QED
      BY <3>1, EmptySeq
  <2>6. QED
    BY <1>2, <2>3, <2>5 DEF OnlyTask, AnswersTask
<1>9. QED
  BY <1>6, <1>7, <1>8 DEF BusInv

\* Nothing under way: too few bytes are pending to be a request.
LEMMA QuietUnmade ==
  ASSUME BusTypes, ~InFlight
  PROVE  Unmade(Pending)
<1>1. /\ rxBuffer \in Seq(Byte) /\ line = <<>>
      /\ Len(rxBuffer) \in Nat /\ ~(Len(rxBuffer) >= FrameLength)
  BY LenProperties DEF BusTypes, InFlight
<1>2. Pending = rxBuffer
  BY <1>1, ConcatEmptySeq DEF Pending
<1>3. Len(rxBuffer) < FrameLength
  BY <1>1 DEF FrameLength
<1>4. QED
  BY <1>1, <1>2, <1>3, ShortUnmade

\* After a timeout nothing is, unless the simulator stalled.
LEMMA TimeoutKeeps == BusInv /\ Timeout => BusInv'
<1>1. SUFFICES ASSUME BusInv, Timeout PROVE BusInv'
  OBVIOUS
<1>2. /\ answers = <<>> /\ task' = None /\ outcome' = None
      /\ UNCHANGED <<slaveId, values, rxBuffer, line, answers, hurt, faults>>
      /\ \/ ~InFlight /\ stalls' = stalls
         \/ stalls < MaxStalls /\ stalls' = stalls + 1
  BY <1>1 DEF Timeout, simulator
<1>3. BusTypes
  BY <1>1 DEF BusInv
<1>4. stalls' \in 0..MaxStalls
  BY <1>2, <1>3, BoundsAssumption DEF BusTypes
<1>5. BusTypes'
  BY <1>2, <1>3, <1>4 DEF BusTypes
<1>6. Intact'
  BY <1>2 DEF Intact
<1>7. InTime'
  <2>1. SUFFICES ASSUME stalls' = 0 PROVE OnlyTask' /\ AnswersTask'
    BY DEF InTime
  <2>2. stalls \in Nat
    BY <1>3 DEF BusTypes
  <2>3. ~InFlight
    BY <1>2, <2>1, <2>2
  <2>4. Unmade(Pending) /\ Pending' = Pending
    BY <1>2, <1>3, <2>3, QuietUnmade DEF Pending
  <2>5. QED
    BY <1>2, <2>4 DEF OnlyTask, AnswersTask
<1>8. QED
  BY <1>5, <1>6, <1>7 DEF BusInv

\* A byte of noise makes no request.
LEMMA DisturbKeeps == BusInv /\ Disturb => BusInv'
<1>1. SUFFICES ASSUME BusInv, Disturb PROVE BusInv'
  OBVIOUS
<1>2. /\ line = <<>> /\ line' = <<Noise>> /\ faults < MaxFaults /\ faults' = faults + 1
      /\ UNCHANGED <<slaveId, values, rxBuffer, answers, task, hurt, outcome, stalls>>
  BY <1>1 DEF Disturb, Fault, simulator
<1>3. BusTypes /\ rxBuffer \in Seq(Byte) /\ Pending \in Seq(Byte)
  BY <1>1, PendingTypes DEF BusInv, BusTypes
<1>4. Pending = rxBuffer \o <<>> /\ Pending' = rxBuffer \o <<Noise>>
  BY <1>2 DEF Pending
<1>5. /\ line' \in Seq(Byte) /\ Pending' \in Seq(Byte) /\ Len(Pending') = Len(Pending) + 1
      /\ \A i \in 1..Len(Pending) : Pending'[i] = Pending[i]
      /\ Pending'[Len(Pending')] = Noise
  BY <1>2, <1>3, <1>4, DisturbedBytes, Zenon
<1>6. faults' \in 0..MaxFaults
  BY <1>2, <1>3, BoundsAssumption DEF BusTypes
<1>7. BusTypes'
  BY <1>2, <1>3, <1>5, <1>6 DEF BusTypes
<1>8. Intact'
  <2>1. ASSUME StandsWhole(Pending, task) PROVE StandsWhole(Pending', task)
    BY <1>3, <1>5, <2>1, WholeLonger
  <2>2. QED
    BY <1>1, <1>2, <2>1 DEF BusInv, Intact
<1>9. InTime'
  <2>1. /\ Unmade(Pending) => Unmade(Pending')
        /\ OnlyOf(Pending, task) => OnlyOf(Pending', task)
    BY <1>3, <1>5, NoiseBehind
  <2>2. QED
    BY <1>1, <1>2, <2>1 DEF BusInv, InTime, OnlyTask, AnswersTask, TrueAnswer
<1>10. QED
  BY <1>7, <1>8, <1>9 DEF BusInv

\* A damaged answer, or none, is in time and no untrue one.
LEMMA DamagedAnswer ==
  ASSUME BusInv, answers # <<>>,
         answers' = Tail(answers) \/ answers' = [answers EXCEPT ![1] = Damaged],
         Pending' = Pending, UNCHANGED <<values, task, stalls>>
  PROVE  answers' \in Seq(Reply) /\ InTime'
<1>1. answers \in Seq(Reply)
  BY DEF BusInv, BusTypes
<1>2. Len(answers) \in Nat /\ Len(answers) >= 1
  BY <1>1, EmptySeq
<1>3. CASE answers' = Tail(answers)
  <2>1. /\ Tail(answers) \in Seq(Reply) /\ Len(Tail(answers)) = Len(answers) - 1
    BY <1>1, HeadTailProperties
  <2>2. ASSUME Len(answers) = 1 PROVE answers' = <<>>
    BY <1>3, <2>1, <2>2, EmptySeq
  <2>3. OnlyTask => /\ Unmade(Pending)
    BY DEF OnlyTask
  <2>4. ASSUME OnlyTask, AnswersTask PROVE (OnlyTask /\ AnswersTask)'
    <3>1. answers' = <<>> /\ Unmade(Pending')
      BY <2>2, <2>3, <2>4 DEF AnswersTask
    <3>2. OnlyOf(Pending', task')
      BY <3>1 DEF Unmade, OnlyOf
    <3>3. QED
      BY <3>1, <3>2 DEF OnlyTask, AnswersTask
  <2>5. InTime'
    BY <2>4 DEF BusInv, InTime
  <2>6. QED
    BY <1>3, <2>1, <2>5
<1>4. CASE answers' = [answers EXCEPT ![1] = Damaged]
  <2>1. Damaged \in Reply
    BY DEF Reply
  <2>2. /\ answers' \in Seq(Reply) /\ Len(answers') = Len(answers)
        /\ answers'[1] = Damaged
    BY <1>1, <1>2, <1>4, <2>1, ExceptSeq
  <2>3. answers' # <<>>
    BY <1>2, <2>2, EmptySeq
  <2>4. InTime'
    BY <2>2, <2>3 DEF BusInv, InTime, OnlyTask, AnswersTask
  <2>5. QED
    BY <2>2, <2>4
<1>5. QED
  BY <1>3, <1>4

\* A lost or damaged byte makes no request, a damaged answer is not taken.
LEMMA DamageKeeps == BusInv /\ Damage => BusInv'
<1>1. SUFFICES ASSUME BusInv, Damage PROVE BusInv'
  OBVIOUS
<1>2. /\ hurt' = TRUE /\ faults < MaxFaults /\ faults' = faults + 1
      /\ UNCHANGED <<slaveId, values, rxBuffer, task, outcome, stalls>>
  BY <1>1 DEF Damage, Fault, simulator
<1>3. BusTypes /\ rxBuffer \in Seq(Byte) /\ line \in Seq(Byte)
  BY <1>1 DEF BusInv, BusTypes
<1>4. faults' \in 0..MaxFaults
  BY <1>2, <1>3, BoundsAssumption DEF BusTypes
<1>5. Intact'
  BY <1>2 DEF Intact
<1>6. ASSUME line' \in Seq(Byte), answers' \in Seq(Reply) PROVE BusTypes'
  BY <1>2, <1>3, <1>4, <1>6 DEF BusTypes
<1>7. CASE /\ answers' = answers
           /\ \E i \in DOMAIN line :
                line' = RemoveAt(line, i) \/ line' = [line EXCEPT ![i] = Noise]
  <2>1. PICK q \in 1..Len(line) :
          line' = RemoveAt(line, q) \/ line' = [line EXCEPT ![q] = Noise]
    BY <1>3, <1>7, LenProperties
  <2>2. /\ line' \in Seq(Byte) /\ rxBuffer \o line' \in Seq(Byte)
        /\ Thinned(rxBuffer \o line', rxBuffer \o line)
    <3>1. CASE line' = RemoveAt(line, q)
      BY <1>3, <3>1, RemovedByte, Zenon
    <3>2. CASE line' = [line EXCEPT ![q] = Noise]
      BY <1>3, <3>2, NoisedByte, Zenon
    <3>3. QED
      BY <2>1, <3>1, <3>2
  <2>3. Pending' = rxBuffer \o line'
    BY <1>2 DEF Pending
  <2>4. Pending' \in Seq(Byte) /\ Thinned(Pending', Pending)
    BY <2>2, <2>3, Zenon DEF Pending
  <2>5. InTime'
    BY <1>1, <1>2, <1>7, <2>4, LessPending
  <2>6. BusTypes'
    BY <1>3, <1>6, <1>7, <2>2 DEF BusTypes
  <2>7. QED
    BY <1>5, <2>5, <2>6 DEF BusInv
<1>8. CASE /\ answers # <<>> /\ line' = line
           /\ answers' = Tail(answers) \/ answers' = [answers EXCEPT ![1] = Damaged]
  <2>1. Pending' = Pending
    BY <1>2, <1>8 DEF Pending
  <2>2. answers' \in Seq(Reply) /\ InTime'
    BY <1>1, <1>2, <1>8, <2>1, DamagedAnswer
  <2>3. QED
    BY <1>3, <1>5, <1>6, <1>8, <2>2 DEF BusInv
<1>9. QED
  BY <1>1, <1>7, <1>8 DEF Damage

\* A step that changes nothing keeps the invariant.
LEMMA StutterKeeps == BusInv /\ UNCHANGED vars => BusInv'
<1>1. SUFFICES ASSUME BusInv, UNCHANGED vars PROVE BusInv'
  OBVIOUS
<1>2. Pending' = Pending
  BY <1>1 DEF vars, simulator, Pending
<1>3. (Intact /\ InTime)'
  BY <1>1, <1>2, SamePending DEF vars, simulator, bounds
<1>4. QED
  BY <1>1, <1>3 DEF BusInv, BusTypes, vars, simulator, bounds

\* Every step of the bus and of its two ends keeps the invariant.
LEMMA BusStep == BusInv /\ [Next]_vars => BusInv'
BY ReadAvailableKeeps, SkipByteKeeps, IgnoreRequestKeeps, ServeKeeps, RequestKeeps,
   ReceiveKeeps, TimeoutKeeps, DisturbKeeps, DamageKeeps, StutterKeeps
   DEF Next, Simulator, Firmware

\* The invariant holds in every state of the bus.
LEMMA BusInvariance == Spec => []BusInv
BY InitBus, BusStep, PTL DEF Spec

----------------------------------------------------------------------------
(* The properties.                                                         *)

\* Types: values, bytes and answers are what they are meant to be, whatever is lost.
THEOREM BusTypesHold == Spec => []TypeOK
<1>1. BusInv => TypeOK
  BY TypesFollow DEF BusInv
<1>2. QED
  BY <1>1, BusInvariance, PTL

\* Resynchronisation (main.cpp:309-390): a request that met no fault is answered,
\* unless the simulator stalls, whatever lies before it in the buffer.
THEOREM IntactAnsweredHolds == Spec => IntactAnswered
<1> DEFINE A == Timeout /\ slaveId = MODBUS_SLAVE_ID => hurt \/ stalls' > stalls
<1>1. BusInv /\ [Next]_vars => [A]_vars
  <2>1. SUFFICES ASSUME BusInv, Timeout, slaveId = MODBUS_SLAVE_ID, ~hurt
                 PROVE  stalls' > stalls
    BY DEF BusInv, BusTypes
  <2>2. task # None /\ answers = <<>> /\ BusTypes /\ StandsWhole(Pending, task)
    BY <2>1 DEF Timeout, BusInv, Intact
  <2>3. task \in Operations /\ stalls \in Nat
    BY <2>2 DEF BusTypes
  <2>4. InFlight
    <3>1. SUFFICES ASSUME ~InFlight PROVE FALSE
      OBVIOUS
    <3>2. /\ rxBuffer \in Seq(Byte) /\ line = <<>>
          /\ Len(rxBuffer) \in Nat /\ ~(Len(rxBuffer) >= 8)
      BY <2>2, <3>1, LenProperties DEF BusTypes, InFlight, FrameLength
    <3>3. Pending = rxBuffer
      BY <3>2, ConcatEmptySeq DEF Pending
    <3>4. PICK k \in Nat : k + 8 <= Len(rxBuffer)
      BY <2>2, <3>3 DEF StandsWhole, FrameLength
    <3>5. QED
      BY <3>2, <3>4
  <2>5. stalls' = stalls + 1
    BY <2>1, <2>4 DEF Timeout
  <2>6. QED
    BY <2>3, <2>5
<1>2. Spec => [][A]_vars
  BY <1>1, BusInvariance, PTL DEF Spec
<1>3. QED
  BY <1>2 DEF IntactAnswered

\* What the firmware reports is true as long as no answer came too late: a value read
\* is what the register holds, a write reported done is done (inverter.ino:898, 980).
THEOREM OutcomesTrueHolds == Spec => OutcomesTrue
<1> DEFINE A == Receive /\ outcome' # None /\ stalls = 0 => True(outcome)'
<1>1. BusInv /\ [Next]_vars => [A]_vars
  <2>1. SUFFICES ASSUME BusInv, Receive, outcome' # None, stalls = 0
                 PROVE  True(outcome)'
    OBVIOUS
  <2>2. /\ BusTypes /\ AnswersTask /\ task # None /\ answers # <<>> /\ values' = values
        /\ outcome' = IF Head(answers).function = task.function
                      THEN [op |-> task, data |-> Head(answers).data] ELSE None
    BY <2>1 DEF BusInv, InTime, Receive, simulator
  <2>3. /\ Head(answers).function = task.function
        /\ outcome' = [op |-> task, data |-> Head(answers).data]
    BY <2>1, <2>2
  <2>4. answers \in Seq(Reply) /\ Head(answers) = answers[1] /\ task \in Operations
    BY <2>2 DEF BusTypes
  <2>5. task.function \in {3, 6}
    BY <2>4, OperationParts
  <2>6. answers[1] # Damaged
    BY <2>3, <2>4, <2>5 DEF Damaged
  <2>7. TrueAnswer(answers[1])
    BY <2>2, <2>6 DEF AnswersTask
  <2>8. CASE task.function = 6
    <3>1. answers[1] = task
      BY <2>4, <2>7, <2>8, OperationParts, Answered DEF TrueAnswer
    <3>2. task.data = <<task.data[1]>> /\ values[task.address] = task.data[1]
      BY <2>4, <2>7, <2>8, OperationParts DEF TrueAnswer
    <3>3. <<values'[task.address]>> = task.data
      BY <2>2, <3>2
    <3>4. QED
      BY <2>3, <2>8, <3>3 DEF True
  <2>9. CASE task.function = 3
    <3>1. Head(answers).data = Answer(task, values').data
      BY <2>2, <2>4, <2>7 DEF TrueAnswer
    <3>2. QED
      BY <2>3, <2>9, <3>1 DEF True
  <2>10. QED
    BY <2>5, <2>8, <2>9
<1>2. Spec => [][A]_vars
  BY <1>1, BusInvariance, PTL DEF Spec
<1>3. QED
  BY <1>2 DEF OutcomesTrue

=============================================================================
