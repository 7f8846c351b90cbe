------------------------------ MODULE ModbusBus ------------------------------
(***************************************************************************)
(* The serial bus between the inverter firmware (inverter/inverter.ino,    *)
(* the master) and the register simulator (simulator_modbus/main.cpp).     *)
(* The firmware has one request on its way at a time and waits for the     *)
(* answer or a timeout; the simulator collects bytes, looks for a request  *)
(* at the front of its buffer and drops a byte when there is none.  Bytes  *)
(* may be lost or damaged, and the simulator may answer too late.          *)
(*                                                                         *)
(* A byte is known by the request it belongs to and its place in it.  No   *)
(* other bytes than those of a request pass for one (validCrc).  When the  *)
(* firmware reads which register is in InverterLoop.                       *)
(***************************************************************************)
EXTENDS Integers, Sequences, SequencesExt

CONSTANTS
  SlaveIds,     \* the ids the simulator may be started with
  Polled,       \* the registers that are read, by a scan or a command
  Written,      \* the registers that clients write
  NewValues,    \* the values they write
  None,
  MaxFaults,    \* bound: bytes and answers lost or damaged
  MaxStalls     \* bound: requests the simulator answers too late

MODBUS_SLAVE_ID == 4       \* of the firmware
FrameLength == 8           \* bytes of a request
Noise == <<None, 0>>       \* a byte of no request
Initial == 0               \* stands for what a register holds at the start,
Measured == 1              \* and for what generateMonitorValue returns
Damaged == [function |-> 0]

\* The tables of the firmware.
ControlRegisters ==
  {20101, 20102, 20103, 20104, 20108, 20109, 20111, 20112, 20113, 20118, 20119,
   10103, 10104, 10105, 10107, 20125, 20127, 20128, 20132, 20142, 20143, 20144}
MonitorRegisters == {15205, 15206, 15207, 15208, 25212, 25274}
Registers == ControlRegisters \union MonitorRegisters

ASSUME PolledAssumption == Polled \subseteq Registers
ASSUME WrittenAssumption == Written \subseteq 0..65535 /\ NewValues \subseteq 2..65535
ASSUME SlaveIdsAssumption == SlaveIds \subseteq 1..247
ASSUME BoundsAssumption == MaxFaults \in Nat /\ MaxStalls \in Nat

VARIABLES
  slaveId,    \* of the simulator
  values,     \* the registers of the simulator that can be written
  rxBuffer,   \* the bytes it has received and not dealt with
  line,       \* the bytes on their way to it
  answers,    \* the answers on their way to the firmware
  task,       \* the request of the firmware that is on its way
  hurt,       \* history: the request or its answer met a fault
  outcome,    \* history: the last request and its answer, None after a failure
  faults, stalls

simulator == <<slaveId, values, rxBuffer>>
bounds    == <<faults, stalls>>
vars      == <<simulator, line, answers, task, hurt, outcome, bounds>>

----------------------------------------------------------------------------
(* Requests and answers.                                                   *)

Read(a) == [function |-> 3, address |-> a, quantity |-> 1]
Write(a, v) == [function |-> 6, address |-> a, data |-> <<v>>]

\* A client's write is sent if the firmware's table has the register, as one that
\* can be written.
Writes == {Write(a, v) : a \in Written \intersect ControlRegisters, v \in NewValues}

\* readControlRegisters, readMonitorRegisters and READ: one register.
Reads == {Read(a) : a \in Polled}

Operations == Reads \union Writes

ASSUME NoneAssumption == None \notin Operations

Frame(op) == [i \in 1..FrameLength |-> <<op, i>>]

\* (Broken variant: the load current is at the address the firmware's simulation
\* mode has for it.)
WithOldLoadCurrent ==
  [a \in (Registers \ {25212}) \union {25210} |->
     IF a \in ControlRegisters THEN Initial ELSE Measured]

\* makeRegisterMap, and what a register that cannot be written reads as.
RegisterMap ==
  LET WrittenTo == {20101, 20102, 20103, 20104, 20108, 20109, 20111, 20112, 20113, 20118,
                    20119, 10103, 10104, 10105, 10107, 20125, 20127, 20128, 20132, 20142,
                    20143, 20144}
      Generated == {15205, 15206, 15207, 15208, 25212, 25274}
  IN  [a \in WrittenTo \union Generated |-> IF a \in Generated THEN Measured ELSE Initial]

Writable(a) == RegisterMap[a] = Initial

Exception(op, code) == [function |-> op.function + 128, data |-> <<code>>]

\* What a read request is answered when the writable registers hold held.
ReadAnswer(op, held) ==
  LET asked == op.address .. op.address + op.quantity - 1 IN
  IF op.quantity \notin 1..125 THEN Exception(op, 3)
  ELSE IF ~ asked \subseteq DOMAIN RegisterMap THEN Exception(op, 2)
  ELSE [function |-> 3,
        data |-> [i \in 1..op.quantity |->
                    LET a == op.address + i - 1
                    IN  IF Writable(a) THEN held[a] ELSE RegisterMap[a]]]

\* A write request that is accepted is answered by itself.
WriteAnswer(op) ==
  IF op.address \notin DOMAIN RegisterMap THEN Exception(op, 2)
  ELSE IF ~ Writable(op.address) THEN Exception(op, 3)
  ELSE op

Answer(op, held) == IF op.function = 3 THEN ReadAnswer(op, held) ELSE WriteAnswer(op)

TypeOK ==
  /\ slaveId \in SlaveIds
  /\ values \in [ControlRegisters -> NewValues \union {Initial}]
  /\ LET Bytes == (Operations \X (1..FrameLength)) \union {Noise}
     IN {line, rxBuffer} \subseteq Seq(Bytes)
  /\ task \in Operations \union {None} /\ hurt \in BOOLEAN
  /\ \A i \in DOMAIN answers :
       answers[i] = Damaged \/ answers[i].function \in {3, 6, 131, 134}
  /\ outcome = None \/ outcome.op \in Operations
  /\ faults \in 0..MaxFaults /\ stalls \in 0..MaxStalls

Init ==
  /\ slaveId \in SlaveIds
  /\ values = [a \in ControlRegisters |-> Initial]
  /\ rxBuffer = <<>> /\ line = <<>> /\ answers = <<>>
  /\ task = None /\ hurt = FALSE /\ outcome = None
  /\ faults = 0 /\ stalls = 0

----------------------------------------------------------------------------
(* The firmware, with the ModbusMaster library.                            *)

\* Something that leads to an answer is under way.
InFlight == line # <<>> \/ Len(rxBuffer) >= FrameLength

\* (Broken variant: what was received is not thrown away first.)
RequestKeeping(op) ==
  /\ task = None /\ task' = op
  /\ line' = line \o Frame(op) /\ hurt' = FALSE
  /\ UNCHANGED <<simulator, answers, outcome, bounds>>

\* readHoldingRegisters or writeSingleRegister begins: whatever was received is
\* thrown away, and the request sent.
Request(op) ==
  /\ task = None /\ task' = op
  /\ answers' = <<>>
  /\ line' = line \o Frame(op) /\ hurt' = FALSE
  /\ UNCHANGED <<simulator, outcome, bounds>>

\* The library takes the first answer if it has the slave, the function and a
\* checksum that fit; the register is not in the answer to a read.
Receive ==
  /\ task # None /\ answers # <<>>
  /\ task' = None /\ answers' = Tail(answers)
  /\ outcome' = IF Head(answers).function = task.function
                THEN [op |-> task, data |-> Head(answers).data] ELSE None
  /\ UNCHANGED <<simulator, line, hurt, bounds>>

\* No answer within the library's two seconds, because there will be none or
\* because the simulator stalls.
Timeout ==
  /\ task # None /\ answers = <<>>
  /\ \/ ~InFlight /\ UNCHANGED stalls
     \/ InFlight /\ stalls < MaxStalls /\ stalls' = stalls + 1
  /\ task' = None /\ outcome' = None
  /\ UNCHANGED <<simulator, line, answers, hurt, faults>>

----------------------------------------------------------------------------
(* The simulator.                                                          *)

\* readAvailable, once the inner loop has ended: some of what was sent.
ReadAvailable ==
  /\ line # <<>> /\ Len(rxBuffer) < FrameLength
  /\ \E n \in 1..Len(line) :
       /\ rxBuffer' = rxBuffer \o SubSeq(line, 1, n)
       /\ line' = SubSeq(line, n + 1, Len(line))
  /\ UNCHANGED <<slaveId, values, answers, task, hurt, outcome, bounds>>

\* The function and the checksum of the bytes at the front are right.
AtFront(op) ==
  /\ Len(rxBuffer) >= FrameLength
  /\ SubSeq(rxBuffer, 1, FrameLength) = Frame(op)

Erase(n) == rxBuffer' = SubSeq(rxBuffer, n + 1, Len(rxBuffer))

\* (Broken variant: a whole frame is dropped when its checksum is wrong.)
SkipFrame ==
  /\ Len(rxBuffer) >= FrameLength /\ ~ \E op \in Operations : AtFront(op)
  /\ Erase(FrameLength)
  /\ UNCHANGED <<slaveId, values, line, answers, task, hurt, outcome, bounds>>

SkipByte ==
  /\ Len(rxBuffer) >= FrameLength /\ ~ \E op \in Operations : AtFront(op)
  /\ Erase(1)
  /\ UNCHANGED <<slaveId, values, line, answers, task, hurt, outcome, bounds>>

\* A request to another slave.
IgnoreRequest ==
  /\ \E op \in Operations : AtFront(op)
  /\ slaveId # MODBUS_SLAVE_ID
  /\ Erase(FrameLength)
  /\ UNCHANGED <<slaveId, values, line, answers, task, hurt, outcome, bounds>>

\* (Broken variant: a write is answered and not done.)
StoreNothing(op) == UNCHANGED values

\* (Broken variant: the value is taken from the bytes of the address.)
StoreAddress(op) ==
  values' = IF op.function = 6 /\ Answer(op, values) = op
            THEN [values EXCEPT ![op.address] = op.address] ELSE values

Store(op) ==
  values' = IF op.function = 6 /\ Answer(op, values) = op
            THEN [values EXCEPT ![op.address] = op.data[1]] ELSE values

Serve(op) ==
  /\ AtFront(op) /\ slaveId = MODBUS_SLAVE_ID
  /\ Store(op) /\ Erase(FrameLength)
  /\ answers' = Append(answers, Answer(op, values))
  /\ UNCHANGED <<slaveId, line, task, hurt, outcome, bounds>>

----------------------------------------------------------------------------
(* The bus.                                                                *)

Fault == faults < MaxFaults /\ faults' = faults + 1

\* A byte appears on the quiet bus, when a transceiver changes direction.
Disturb ==
  /\ Fault /\ line = <<>> /\ line' = <<Noise>>
  /\ UNCHANGED <<simulator, answers, task, hurt, outcome, stalls>>

\* A byte is lost or damaged, or the answer is.
Damage ==
  /\ Fault /\ hurt' = TRUE
  /\ \/ /\ \E i \in DOMAIN line :
             \/ line' = RemoveAt(line, i)
             \/ line' = [line EXCEPT ![i] = Noise]
        /\ UNCHANGED answers
     \/ /\ answers # <<>> /\ UNCHANGED line
        /\ \/ answers' = Tail(answers)
           \/ answers' = [answers EXCEPT ![1] = Damaged]
  /\ UNCHANGED <<simulator, task, outcome, stalls>>

----------------------------------------------------------------------------
Simulator ==
  \/ ReadAvailable \/ SkipByte \/ IgnoreRequest \/ \E op \in Operations : Serve(op)
Firmware == Receive \/ Timeout \/ \E op \in Operations : Request(op)

Next == Simulator \/ Firmware \/ Disturb \/ Damage

Spec == Init /\ [][Next]_vars

\* The simulator's loop goes on, and the firmware waits for nothing else than an
\* answer.
FairSpec == Spec /\ WF_vars(Simulator) /\ WF_vars(Receive \/ Timeout)

----------------------------------------------------------------------------
(* Properties.                                                             *)

\* The tables of the two programs agree: whatever the firmware asks, as the
\* registers stand, the simulator has an answer other than an exception ("responds
\* to Modbus requests using a fixed register map", README.md:154).
NoExceptions ==
  \A op \in {Read(a) : a \in Registers} \union Writes :
    Answer(op, values).function = op.function

\* Resynchronisation: a request that was not damaged is always answered, whatever
\* remains of earlier, damaged ones lie before it in the buffer (main.cpp:309-390).
IntactAnswered ==
  [][Timeout /\ slaveId = MODBUS_SLAVE_ID => hurt \/ stalls' > stalls]_vars

\* What the firmware reports is true: a value read is what that register holds, and
\* a write reported done is done, after lost and damaged requests and answers
\* too.  An answer that comes too late breaks it: the library takes the answer to
\* one read for the answer to the next (true without stalls).
True(o) ==
  IF o.op.function = 6 THEN <<values[o.op.address]>> = o.op.data
  ELSE o.data = Answer(o.op, values).data
OutcomesTrue ==
  [][Receive /\ outcome' # None /\ stalls = 0 => True(outcome)']_vars

\* An answer that came too late is not taken for the next one for ever: as every
\* request throws away what came before it, the values are true again for good
\* once the bus falls quiet between two requests, as the spacing of the scans
\* (registerReadSpacingMs) makes it do.
Quiet == task = None /\ ~InFlight
Resynchronises ==
  []<>Quiet => <>[][Receive /\ outcome' # None => True(outcome)']_vars
=============================================================================
