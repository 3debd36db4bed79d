------------------------------ MODULE IpmbProofs ------------------------------
(***************************************************************************)
(* Proofs about IpmbEmulation for any number of boards, any registers and  *)
(* any queue length: a frame is replied to at most once, only if it names  *)
(* the board's register, and always if it reads it; no reply is itself     *)
(* replied to, unless the register is the address byte.                    *)
(***************************************************************************)
EXTENDS IpmbEmulation, SequenceTheorems, TLAPS

UByte == 0..255

\* The scan stays within the frame.
ScanInv(n) == task[n] = "scan" => ret[n] <= Len(u8ReadBuffer[n])

\* The status of a reply ends the scan, so that there is no second one.
ReplyInv(n) == answers[n] \in {0, 1} /\ (answers[n] = 1 => ret[n] <= 0)

NamesRegister(n) == \E k \in 1..Len(u8ReadBuffer[n]) : u8ReadBuffer[n][k] = arg[n] % 256

\* What sg_read remembers is a byte of this frame.
SeenInv(n) == /\ sg_read[n] => NamesRegister(n)
              /\ answers[n] > 0 => sg_read[n]

IInv == TypeOK /\ \A n \in Nodes : ScanInv(n) /\ ReplyInv(n) /\ SeenInv(n)

-----------------------------------------------------------------------------
(***************************************************************************)
(* Frames and registers.                                                   *)
(***************************************************************************)

\* A frame is two or three bytes.
LEMMA FrameFacts ==
  ASSUME NEW frame \in Frames
  PROVE  /\ frame \in Seq(UByte) /\ Len(frame) \in {2, 3}
         /\ \A k \in 1..Len(frame) : frame[k] \in UByte
<1>1. CASE frame = Reply
  BY <1>1 DEF Reply, UByte, Address
<1>2. CASE \E r \in Regs : frame = Request(r)
  <2>1. PICK r \in Regs : frame = Request(r)
    BY <1>2
  <2>2. r % 256 \in UByte
    BY RegsAssumption DEF UByte
  <2> QED
    BY <2>1, <2>2 DEF Request, UByte, Address
<1> QED
  BY <1>1, <1>2 DEF Frames

\* A byte that equals the char sg_reg is the register's low byte: a negative
\* char equals no byte.
LEMMA RegisterByte ==
  ASSUME NEW n \in Nodes, NEW r \in Nat, NEW b \in UByte, b = AsChar(n, r)
  PROVE  b = r % 256
BY DEF AsChar, UByte

\* A frame that is sent reaches queues that have room, and no other queue.
LEMMA SendKeepsQueues ==
  ASSUME NEW n \in Nodes, NEW frame \in Frames, NEW Status, TypeOK,
         HW_I2CRawWriteReadBytes(n, frame, Status)
  PROVE  /\ Status \in {0, -1}
         /\ inbox' \in [Nodes -> Seq(Frames)]
         /\ \A m \in Nodes : Len(inbox'[m]) <= QueueLen
<1>1. PICK takers \in SUBSET Listeners(n), done \in {-1, 1} :
        /\ Status = IF done = Len(Messages(Len(frame), 0)) THEN 0 ELSE -1
        /\ inbox' = [m \in Nodes |-> IF m \in takers THEN Append(inbox[m], frame)
                                                     ELSE inbox[m]]
  BY DEF HW_I2CRawWriteReadBytes
<1>2. ASSUME NEW m \in Nodes
      PROVE  inbox'[m] \in Seq(Frames) /\ Len(inbox'[m]) <= QueueLen
  <2>1. inbox[m] \in Seq(Frames) /\ Len(inbox[m]) <= QueueLen
    BY DEF TypeOK
  <2>2. CASE m \in takers
    <3>1. Len(inbox[m]) < QueueLen
      BY <2>2, <1>1 DEF Listeners
    <3>2. /\ Append(inbox[m], frame) \in Seq(Frames)
          /\ Len(Append(inbox[m], frame)) = Len(inbox[m]) + 1
      BY <2>1, AppendProperties
    <3>3. Len(inbox[m]) \in Nat
      BY <2>1, LenProperties
    <3> QED
      BY <1>1, <2>2, <3>1, <3>2, <3>3, QueueAssumption
  <2> QED
    BY <1>1, <2>1, <2>2
<1> QED
  BY <1>1, <1>2

-----------------------------------------------------------------------------
(***************************************************************************)
(* Types.                                                                  *)
(***************************************************************************)

LEMMA InitInv == Init => IInv
<1> SUFFICES ASSUME Init PROVE IInv
  OBVIOUS
<1>1. TypeOK
  BY RegsAssumption, QueueAssumption DEF Init, TypeOK
<1> QED
  BY <1>1 DEF Init, IInv, ScanInv, ReplyInv, SeenInv

\* main's steps leave the locals of the thread alone.
MainStep(n) == CreateTask(n) \/ SendRequest(n) \/ NothingToDo(n) \/ UsageExit(n)

LEMMA MainTypes ==
  ASSUME TypeOK, NEW n \in Nodes, MainStep(n)
  PROVE  TypeOK' /\ UNCHANGED <<locals, opt, arg>>
<1>1. CASE CreateTask(n)
  BY <1>1 DEF CreateTask, TypeOK, locals
<1>2. CASE SendRequest(n)
  <2>1. arg[n] \in Regs
    BY DEF TypeOK
  <2>2. Request(arg[n]) \in Frames
    BY <2>1 DEF Frames
  <2>3. PICK Status \in {0, -1} : HW_I2CRawWriteReadBytes(n, Request(arg[n]), Status)
    BY <1>2 DEF SendRequest
  <2>4. inbox' \in [Nodes -> Seq(Frames)] /\ \A m \in Nodes : Len(inbox'[m]) <= QueueLen
    BY <2>2, <2>3, SendKeepsQueues
  <2> QED
    BY <1>2, <2>4 DEF SendRequest, TypeOK, locals
<1>3. CASE NothingToDo(n)
  BY <1>3 DEF NothingToDo, TypeOK, locals
<1>4. CASE UsageExit(n)
  <2>1. UNCHANGED <<locals, opt, arg>> /\ main' \in [Nodes -> {"start", "opt", "sleep", "gone"}]
        /\ task' \in [Nodes -> {"none", "read", "scan"}]
    BY <1>4 DEF UsageExit, TypeOK
  <2>2. inbox' \in [Nodes -> Seq(Frames)] /\ \A m \in Nodes : Len(inbox'[m]) <= QueueLen
    BY <1>4, QueueAssumption DEF UsageExit, TypeOK
  <2> QED
    BY <2>1, <2>2 DEF TypeOK, locals
<1> QED
  BY <1>1, <1>2, <1>3, <1>4 DEF MainStep

\* Taking a frame starts the scan at its first byte.
LEMMA ReadTypes ==
  ASSUME TypeOK, NEW n \in Nodes, HW_I2CRawSlaveRead(n)
  PROVE  TypeOK' /\ u8ReadBuffer'[n] \in Frames /\ ret'[n] = Len(u8ReadBuffer'[n])
<1> DEFINE frame == Head(inbox[n])
<1>1. inbox[n] \in Seq(Frames) /\ inbox[n] # <<>> /\ Len(inbox[n]) <= QueueLen
  BY DEF TypeOK, HW_I2CRawSlaveRead
<1>2. frame \in Frames /\ Tail(inbox[n]) \in Seq(Frames)
      /\ Len(Tail(inbox[n])) = Len(inbox[n]) - 1
  BY <1>1, HeadTailProperties
<1>3. Len(inbox[n]) \in Nat
  BY <1>1, LenProperties
<1>4. Len(frame) \in {2, 3}
  BY <1>2, FrameFacts
<1>5. /\ u8ReadBuffer' = [u8ReadBuffer EXCEPT ![n] = frame]
      /\ ret' = [ret EXCEPT ![n] = Len(frame)]
      /\ inbox' = [inbox EXCEPT ![n] = Tail(inbox[n])]
  BY DEF HW_I2CRawSlaveRead, Received
<1>6. inbox' \in [Nodes -> Seq(Frames)] /\ \A m \in Nodes : Len(inbox'[m]) <= QueueLen
  BY <1>1, <1>2, <1>3, <1>5, QueueAssumption DEF TypeOK
<1>7. u8ReadBuffer' \in [Nodes -> Frames \cup {<<>>}] /\ ret' \in [Nodes -> -1..3]
  BY <1>2, <1>4, <1>5 DEF TypeOK
<1>8. /\ task' \in [Nodes -> {"none", "read", "scan"}] /\ i' \in [Nodes -> 0..3]
      /\ sg_read' \in [Nodes -> BOOLEAN] /\ answers' \in [Nodes -> Nat]
  BY DEF HW_I2CRawSlaveRead, FlagReset, TypeOK
<1>9. UNCHANGED <<main, opt, arg>>
  BY DEF HW_I2CRawSlaveRead, node
<1>10. u8ReadBuffer'[n] = frame /\ ret'[n] = Len(frame)
  BY <1>5 DEF TypeOK
<1> QED
  BY <1>2, <1>6, <1>7, <1>8, <1>9, <1>10 DEF TypeOK

\* One byte of the scan: what is answered and what stays.
LEMMA ScanFacts ==
  ASSUME TypeOK, NEW n \in Nodes, ScanByte(n)
  PROVE  /\ i[n] < ret[n] /\ i' = [i EXCEPT ![n] = @ + 1]
         /\ sg_read' = [sg_read EXCEPT ![n] = @ \/ IsRegister(n)]
         /\ UNCHANGED <<node, task, u8ReadBuffer>>
         /\ \/ /\ sg_read'[n]
               /\ \E Status \in {0, -1} : ret' = [ret EXCEPT ![n] = Status]
               /\ answers' = [answers EXCEPT ![n] = @ + 1]
            \/ UNCHANGED <<ret, answers>>
         /\ inbox' \in [Nodes -> Seq(Frames)]
         /\ \A m \in Nodes : Len(inbox'[m]) <= QueueLen
<1>1. Reply \in Frames
  BY DEF Frames
<1>2. CASE IsReadOfRegister(n) /\ answers' = [answers EXCEPT ![n] = @ + 1]
           /\ \E Status \in {0, -1} : /\ HW_I2CRawWriteReadBytes(n, Reply, Status)
                                      /\ ret' = [ret EXCEPT ![n] = RetAfterReply(n, Status)]
  <2>1. PICK Status \in {0, -1} : /\ HW_I2CRawWriteReadBytes(n, Reply, Status)
                                  /\ ret' = [ret EXCEPT ![n] = RetAfterReply(n, Status)]
    BY <1>2
  <2>2. inbox' \in [Nodes -> Seq(Frames)] /\ \A m \in Nodes : Len(inbox'[m]) <= QueueLen
    BY <1>1, <2>1, SendKeepsQueues
  <2>3. sg_read'[n]
    BY <1>2 DEF IsReadOfRegister
  <2>4. ret' = [ret EXCEPT ![n] = Status]
    BY <2>1 DEF RetAfterReply
  <2> QED
    BY <1>2, <2>2, <2>3, <2>4 DEF ScanByte, More
<1>3. CASE UNCHANGED <<ret, inbox, answers>>
  BY <1>3 DEF ScanByte, More, TypeOK
<1> QED
  BY <1>2, <1>3 DEF ScanByte

LEMMA ScanTypes ==
  ASSUME TypeOK, NEW n \in Nodes, ScanByte(n)
  PROVE  TypeOK'
<1> /\ i \in [Nodes -> 0..3] /\ ret \in [Nodes -> -1..3]
    /\ sg_read \in [Nodes -> BOOLEAN] /\ answers \in [Nodes -> Nat]
  BY DEF TypeOK
<1>1. i[n] < ret[n] /\ i' = [i EXCEPT ![n] = @ + 1]
  BY ScanFacts
<1>2. i' \in [Nodes -> 0..3]
  <2>1. i[n] + 1 \in 0..3
    BY <1>1
  <2> QED
    BY <1>1, <2>1
<1>3. IsRegister(n) \in BOOLEAN
  BY DEF IsRegister
<1>4. sg_read' \in [Nodes -> BOOLEAN]
  <2>1. sg_read' = [sg_read EXCEPT ![n] = @ \/ IsRegister(n)]
    BY ScanFacts
  <2> QED
    BY <1>3, <2>1
<1>5. ret' \in [Nodes -> -1..3] /\ answers' \in [Nodes -> Nat]
  <2>1. \/ /\ \E Status \in {0, -1} : ret' = [ret EXCEPT ![n] = Status]
           /\ answers' = [answers EXCEPT ![n] = @ + 1]
        \/ UNCHANGED <<ret, answers>>
    BY ScanFacts
  <2> QED
    BY <2>1
<1>6. UNCHANGED <<main, opt, arg, task, u8ReadBuffer>>
  BY ScanFacts DEF node
<1>7. inbox' \in [Nodes -> Seq(Frames)] /\ \A m \in Nodes : Len(inbox'[m]) <= QueueLen
  BY ScanFacts
<1> QED
  BY <1>2, <1>4, <1>5, <1>6, <1>7 DEF TypeOK

-----------------------------------------------------------------------------
(***************************************************************************)
(* The invariant.                                                          *)
(***************************************************************************)

\* A step of another board, or of main, leaves a board's scan alone; main
\* can end it.
LEMMA ScanUntouched ==
  ASSUME IInv, NEW m \in Nodes,
         task'[m] = "scan" => task[m] = "scan",
         u8ReadBuffer'[m] = u8ReadBuffer[m], ret'[m] = ret[m], arg'[m] = arg[m],
         sg_read'[m] = sg_read[m], answers'[m] = answers[m]
  PROVE  ScanInv(m)' /\ ReplyInv(m)' /\ SeenInv(m)'
BY DEF IInv, ScanInv, ReplyInv, SeenInv, NamesRegister

LEMMA MainInv ==
  ASSUME IInv, NEW n \in Nodes, MainStep(n)
  PROVE  IInv'
<1>1. TypeOK /\ TypeOK' /\ UNCHANGED <<locals, opt, arg>>
  BY MainTypes DEF IInv
<1>2. ASSUME NEW m \in Nodes
      PROVE  task'[m] = "scan" => task[m] = "scan"
  BY <1>1 DEF MainStep, CreateTask, SendRequest, NothingToDo, UsageExit, TypeOK
<1>3. ASSUME NEW m \in Nodes
      PROVE  ScanInv(m)' /\ ReplyInv(m)' /\ SeenInv(m)'
  BY <1>1, <1>2, ScanUntouched DEF locals
<1> QED
  BY <1>1, <1>3 DEF IInv

LEMMA ReadInvariant ==
  ASSUME IInv, NEW n \in Nodes, HW_I2CRawSlaveRead(n)
  PROVE  IInv'
<1>1. TypeOK /\ TypeOK' /\ u8ReadBuffer'[n] \in Frames /\ ret'[n] = Len(u8ReadBuffer'[n])
  BY ReadTypes DEF IInv
<1>2. answers'[n] = 0 /\ sg_read'[n] = FALSE
  BY <1>1 DEF HW_I2CRawSlaveRead, FlagReset, TypeOK
<1>3. ret'[n] <= Len(u8ReadBuffer'[n])
  BY <1>1 DEF TypeOK
<1>4. ScanInv(n)' /\ ReplyInv(n)' /\ SeenInv(n)'
  BY <1>2, <1>3 DEF ScanInv, ReplyInv, SeenInv
<1>5. ASSUME NEW m \in Nodes, m # n
      PROVE  ScanInv(m)' /\ ReplyInv(m)' /\ SeenInv(m)'
  <2>1. /\ task'[m] = task[m] /\ u8ReadBuffer'[m] = u8ReadBuffer[m] /\ ret'[m] = ret[m]
        /\ sg_read'[m] = sg_read[m] /\ answers'[m] = answers[m] /\ arg'[m] = arg[m]
    BY <1>1, <1>5 DEF HW_I2CRawSlaveRead, FlagReset, TypeOK, node
  <2> QED
    BY <2>1, ScanUntouched
<1> QED
  BY <1>1, <1>4, <1>5 DEF IInv

\* The byte that is looked at is one of the frame; if it equals sg_reg the
\* frame names the register.
LEMMA SeenByte ==
  ASSUME IInv, NEW n \in Nodes, task[n] = "scan", i[n] < ret[n], IsRegister(n)
  PROVE  NamesRegister(n)
<1>1. /\ i[n] \in 0..3 /\ ret[n] \in -1..3 /\ arg[n] \in Nat
      /\ u8ReadBuffer[n] \in Frames \cup {<<>>}
  BY RegsAssumption DEF IInv, TypeOK
<1>2. i[n] + 1 <= Len(u8ReadBuffer[n])
  <2>1. ret[n] <= Len(u8ReadBuffer[n])
    BY DEF IInv, ScanInv
  <2>2. Len(u8ReadBuffer[n]) \in Nat
    BY <1>1, FrameFacts
  <2> QED
    BY <1>1, <2>1, <2>2
<1>3. u8ReadBuffer[n] \in Frames
  BY <1>1, <1>2
<1>4. i[n] + 1 \in 1..Len(u8ReadBuffer[n])
  BY <1>1, <1>2, <1>3, FrameFacts
<1>5. Byte(n) \in UByte
  BY <1>3, <1>4, FrameFacts DEF Byte
<1>6. Byte(n) = arg[n] % 256
  BY <1>1, <1>5, RegisterByte DEF IsRegister, sg_reg
<1> QED
  BY <1>4, <1>6 DEF NamesRegister, Byte

LEMMA ScanInvariant ==
  ASSUME IInv, NEW n \in Nodes, ScanByte(n)
  PROVE  IInv'
<1>1. TypeOK /\ TypeOK'
  BY ScanTypes DEF IInv
<1>2. /\ i[n] < ret[n] /\ task[n] = "scan"
      /\ UNCHANGED <<arg, task, u8ReadBuffer>>
      /\ i[n] \in 0..3 /\ ret[n] \in -1..3
  BY <1>1, ScanFacts DEF ScanByte, node, TypeOK
<1>3. answers[n] = 0
  BY <1>2 DEF IInv, ReplyInv
<1>4. sg_read'[n] = (sg_read[n] \/ IsRegister(n))
  BY <1>1, ScanFacts DEF TypeOK
<1>5. sg_read'[n] => NamesRegister(n)'
  BY <1>2, <1>4, SeenByte DEF IInv, SeenInv, NamesRegister
<1>6. \/ sg_read'[n] /\ ret'[n] \in {0, -1} /\ answers'[n] = 1
      \/ ret'[n] = ret[n] /\ answers'[n] = 0
  <2>1. \/ /\ sg_read'[n]
           /\ \E Status \in {0, -1} : ret' = [ret EXCEPT ![n] = Status]
           /\ answers' = [answers EXCEPT ![n] = @ + 1]
        \/ UNCHANGED <<ret, answers>>
    BY <1>1, ScanFacts
  <2>2. n \in DOMAIN ret /\ n \in DOMAIN answers
    BY <1>1 DEF TypeOK
  <2> QED
    BY <1>3, <2>1, <2>2
<1>7. Len(u8ReadBuffer[n]) \in Nat /\ ret[n] <= Len(u8ReadBuffer[n])
  <2>1. u8ReadBuffer[n] \in Frames \cup {<<>>}
    BY <1>1 DEF TypeOK
  <2> QED
    BY <1>2, <2>1, FrameFacts DEF IInv, ScanInv
<1>8. ScanInv(n)'
  BY <1>2, <1>6, <1>7 DEF ScanInv
<1>9. ReplyInv(n)' /\ SeenInv(n)'
  BY <1>5, <1>6 DEF ReplyInv, SeenInv
<1>10. ASSUME NEW m \in Nodes, m # n
       PROVE  ScanInv(m)' /\ ReplyInv(m)' /\ SeenInv(m)'
  <2>1. /\ task'[m] = task[m] /\ u8ReadBuffer'[m] = u8ReadBuffer[m] /\ ret'[m] = ret[m]
        /\ sg_read'[m] = sg_read[m] /\ answers'[m] = answers[m] /\ arg'[m] = arg[m]
    <3>1. /\ sg_read' = [sg_read EXCEPT ![n] = @ \/ IsRegister(n)]
          /\ \/ /\ \E Status \in {0, -1} : ret' = [ret EXCEPT ![n] = Status]
                /\ answers' = [answers EXCEPT ![n] = @ + 1]
             \/ UNCHANGED <<ret, answers>>
      BY <1>1, ScanFacts
    <3> QED
      BY <1>1, <1>2, <1>10, <3>1 DEF TypeOK
  <2> QED
    BY <2>1, ScanUntouched
<1> QED
  BY <1>1, <1>8, <1>9, <1>10 DEF IInv

LEMMA EndInvariant ==
  ASSUME IInv, NEW n \in Nodes, ScanEnds(n)
  PROVE  IInv'
<1>1. TypeOK' /\ UNCHANGED <<locals, arg>>
      /\ \A m \in Nodes : task'[m] = "scan" => task[m] = "scan"
  BY DEF IInv, ScanEnds, TypeOK, node, locals
<1>2. ASSUME NEW m \in Nodes
      PROVE  ScanInv(m)' /\ ReplyInv(m)' /\ SeenInv(m)'
  BY <1>1, ScanUntouched DEF locals
<1> QED
  BY <1>1, <1>2 DEF IInv

LEMMA StepInv == IInv /\ [Next]_vars => IInv'
<1> SUFFICES ASSUME IInv, [Next]_vars PROVE IInv'
  OBVIOUS
<1>1. CASE Next
  <2>1. PICK n \in Nodes : MainStep(n) \/ i_slave_read_task(n)
    BY <1>1 DEF Next, MainStep
  <2>2. CASE MainStep(n)
    BY <2>2, MainInv
  <2>3. CASE HW_I2CRawSlaveRead(n)
    BY <2>3, ReadInvariant
  <2>4. CASE ScanByte(n)
    BY <2>4, ScanInvariant
  <2>5. CASE ScanEnds(n)
    BY <2>5, EndInvariant
  <2> QED
    BY <2>1, <2>2, <2>3, <2>4, <2>5 DEF i_slave_read_task
<1>2. CASE UNCHANGED vars
  <2>1. TypeOK'
    BY <1>2 DEF IInv, TypeOK, vars, locals
  <2>2. ASSUME NEW m \in Nodes
        PROVE  ScanInv(m)' /\ ReplyInv(m)' /\ SeenInv(m)'
    BY <1>2, ScanUntouched DEF vars, locals
  <2> QED
    BY <2>1, <2>2 DEF IInv
<1> QED
  BY <1>1, <1>2

\* The invariant holds of every behaviour.
THEOREM Invariant == Spec => []IInv
BY InitInv, StepInv, PTL DEF Spec

-----------------------------------------------------------------------------
\* No more bytes of a frame are looked at than it has, on any board.
THEOREM TypeCorrect == Spec => []TypeOK
<1>1. IInv => TypeOK
  BY DEF IInv
<1> QED
  BY <1>1, Invariant, PTL

\* A board replies at most once to a frame, whatever the frame and whoever
\* acknowledges the reply.
THEOREM RepliesOnce == Spec => []OneReplyPerFrame
<1>1. IInv => OneReplyPerFrame
  <2>1. \A n \in {0, 1} : n <= 1
    OBVIOUS
  <2> QED
    BY <2>1 DEF IInv, ReplyInv, OneReplyPerFrame
<1> QED
  BY <1>1, Invariant, PTL

\* A board replies only to a frame that names its register.
THEOREM RepliesForItself == Spec => []OnlyItsRegister
<1>1. IInv => OnlyItsRegister
  BY DEF IInv, SeenInv, NamesRegister, OnlyItsRegister
<1> QED
  BY <1>1, Invariant, PTL

-----------------------------------------------------------------------------
(***************************************************************************)
(* The loop over a frame decides what it is to decide.                     *)
(***************************************************************************)

\* The register is among the first m bytes of the frame, and an address byte
\* at or behind it.
Seen(n, m) == /\ n \in Signed => arg[n] % 256 < 128
              /\ \E j \in 1..m : u8ReadBuffer[n][j] = arg[n] % 256

Asked(n, m) == \E k \in 1..m : u8ReadBuffer[n][k] = Address /\ Seen(n, k)

\* No thread has taken a frame before there is one.
Fresh(n) == main[n] = "start" => task[n] = "none" /\ u8ReadBuffer[n] = <<>>

\* A scan that has not replied has looked at i bytes that call for no reply.
Scanned(n) ==
  \/ answers[n] = 1 /\ ReadsRegister(n, u8ReadBuffer[n])
  \/ /\ answers[n] = 0
     /\ ret[n] = Len(u8ReadBuffer[n]) /\ i[n] <= ret[n]
     /\ sg_read[n] <=> Seen(n, i[n])
     /\ ~Asked(n, i[n])

Decided(n) == answers[n] = (IF ReadsRegister(n, u8ReadBuffer[n]) THEN 1 ELSE 0)

\* Also of a thread that has gone: what was replied to reads the register.
Answered(n) == answers[n] = 1 => ReadsRegister(n, u8ReadBuffer[n])

DecidingInv(n) == /\ Fresh(n) /\ Answered(n)
                  /\ task[n] = "scan" => Scanned(n)
                  /\ task[n] = "read" /\ u8ReadBuffer[n] # <<>> => Decided(n)

AllDeciding == \A n \in Nodes : DecidingInv(n)

\* A byte equals sg_reg exactly if it is the register and a char can be it.
LEMMA RegisterChar ==
  ASSUME NEW n \in Nodes, NEW r \in Nat, NEW b \in UByte
  PROVE  b = AsChar(n, r) <=> b = r % 256 /\ (n \in Signed => r % 256 < 128)
BY DEF AsChar, UByte

LEMMA AskedIsReads ==
  ASSUME NEW n \in Nodes, Len(u8ReadBuffer[n]) \in Nat
  PROVE  Asked(n, Len(u8ReadBuffer[n])) <=> ReadsRegister(n, u8ReadBuffer[n])
<1>1. ASSUME Asked(n, Len(u8ReadBuffer[n]))
      PROVE  ReadsRegister(n, u8ReadBuffer[n])
  <2>1. PICK k \in 1..Len(u8ReadBuffer[n]) : u8ReadBuffer[n][k] = Address /\ Seen(n, k)
    BY <1>1 DEF Asked
  <2>2. PICK j \in 1..k : u8ReadBuffer[n][j] = arg[n] % 256
    BY <2>1 DEF Seen
  <2>3. j \in 1..Len(u8ReadBuffer[n]) /\ j <= k
    OBVIOUS
  <2> QED
    BY <2>1, <2>2, <2>3 DEF Seen, ReadsRegister
<1>2. ASSUME ReadsRegister(n, u8ReadBuffer[n])
      PROVE  Asked(n, Len(u8ReadBuffer[n]))
  <2>1. PICK j, k \in 1..Len(u8ReadBuffer[n]) :
          j <= k /\ u8ReadBuffer[n][j] = arg[n] % 256 /\ u8ReadBuffer[n][k] = Address
    BY <1>2 DEF ReadsRegister
  <2>2. j \in 1..k
    BY <2>1
  <2>3. Seen(n, k)
    BY <1>2, <2>1, <2>2 DEF Seen, ReadsRegister
  <2> QED
    BY <2>1, <2>3 DEF Asked
<1> QED
  BY <1>1, <1>2

\* What one more byte adds.
LEMMA OneMoreByte ==
  ASSUME NEW n \in Nodes, NEW m \in Nat, arg[n] \in Nat, u8ReadBuffer[n][m + 1] \in UByte
  PROVE  /\ Seen(n, m + 1) <=> Seen(n, m) \/ u8ReadBuffer[n][m + 1] = sg_reg(n)
         /\ Asked(n, m + 1) <=>
              Asked(n, m) \/ (u8ReadBuffer[n][m + 1] = Address /\ Seen(n, m + 1))
<1>1. \A j : j \in 1..m + 1 <=> j \in 1..m \/ j = m + 1
  OBVIOUS
<1>2. u8ReadBuffer[n][m + 1] = sg_reg(n) <=>
        u8ReadBuffer[n][m + 1] = arg[n] % 256 /\ (n \in Signed => arg[n] % 256 < 128)
  BY RegisterChar DEF sg_reg
<1>3. Seen(n, m + 1) <=> Seen(n, m) \/ u8ReadBuffer[n][m + 1] = sg_reg(n)
  BY <1>1, <1>2 DEF Seen
<1>4. Asked(n, m + 1) <=>
        Asked(n, m) \/ (u8ReadBuffer[n][m + 1] = Address /\ Seen(n, m + 1))
  BY <1>1 DEF Asked
<1> QED
  BY <1>3, <1>4

LEMMA DecidingInit == Init => AllDeciding
<1> SUFFICES ASSUME Init, NEW n \in Nodes PROVE DecidingInv(n)
  BY DEF AllDeciding
<1>1. answers[n] = 0 /\ task[n] = "none" /\ u8ReadBuffer[n] = <<>>
  BY DEF Init
<1>2. Answered(n)
  BY <1>1 DEF Answered
<1> QED
  BY <1>1, <1>2 DEF DecidingInv, Fresh

\* A step that leaves a board's thread where it is, or ends it.
LEMMA DecidingUntouched ==
  ASSUME NEW m \in Nodes, DecidingInv(m), task'[m] \in {task[m], "none"},
         main'[m] = "start" => main[m] = "start",
         u8ReadBuffer'[m] = u8ReadBuffer[m], ret'[m] = ret[m], arg'[m] = arg[m],
         i'[m] = i[m], sg_read'[m] = sg_read[m], answers'[m] = answers[m]
  PROVE  DecidingInv(m)'
<1>1. Fresh(m)'
  BY DEF DecidingInv, Fresh
<1>2. Scanned(m)' <=> Scanned(m)
  BY DEF Scanned, ReadsRegister, Asked, Seen
<1>3. Decided(m)' <=> Decided(m)
  BY DEF Decided, ReadsRegister
<1>4. Answered(m)'
  BY DEF DecidingInv, Answered, ReadsRegister
<1> QED
  BY <1>1, <1>2, <1>3, <1>4 DEF DecidingInv

LEMMA DecidingMain ==
  ASSUME IInv, NEW n \in Nodes, MainStep(n), NEW m \in Nodes, DecidingInv(m)
  PROVE  DecidingInv(m)'
<1>1. TypeOK /\ UNCHANGED <<locals, opt, arg>>
  BY MainTypes DEF IInv
<1>2. main'[m] = "start" => main[m] = "start"
  BY <1>1 DEF MainStep, CreateTask, SendRequest, NothingToDo, UsageExit, TypeOK
<1>3. CASE task'[m] \in {task[m], "none"}
  BY <1>1, <1>2, <1>3, DecidingUntouched DEF locals
<1>4. CASE task'[m] \notin {task[m], "none"}
  <2>1. CreateTask(n) /\ n = m /\ task'[m] = "read"
    BY <1>1, <1>4 DEF MainStep, CreateTask, SendRequest, NothingToDo, UsageExit, TypeOK
  <2>2. main[m] = "start" /\ main'[m] = "opt"
    BY <1>1, <2>1 DEF CreateTask, TypeOK
  <2>3. u8ReadBuffer'[m] = <<>>
    BY <1>1, <2>2 DEF DecidingInv, Fresh, locals
  <2>4. Answered(m)'
    BY <1>1 DEF DecidingInv, Answered, ReadsRegister, locals
  <2> QED
    BY <2>1, <2>2, <2>3, <2>4 DEF DecidingInv, Fresh
<1> QED
  BY <1>3, <1>4

LEMMA DecidingRead ==
  ASSUME IInv, NEW n \in Nodes, HW_I2CRawSlaveRead(n), DecidingInv(n)
  PROVE  DecidingInv(n)'
<1>1. TypeOK /\ u8ReadBuffer'[n] \in Frames /\ ret'[n] = Len(u8ReadBuffer'[n])
  BY ReadTypes DEF IInv
<1>2. /\ answers'[n] = 0 /\ sg_read'[n] = FALSE /\ i'[n] = 0 /\ task'[n] = "scan"
      /\ task[n] = "read" /\ UNCHANGED main
  BY <1>1 DEF HW_I2CRawSlaveRead, FlagReset, TypeOK, node
<1>3. ~Seen(n, 0)' /\ ~Asked(n, 0)'
  BY DEF Seen, Asked
<1>4. Seen(n, i[n])' <=> Seen(n, 0)'
  BY <1>2 DEF Seen
<1>5. Asked(n, i[n])' <=> Asked(n, 0)'
  BY <1>2 DEF Asked, Seen
<1>6. i'[n] <= ret'[n]
  BY <1>1, <1>2, FrameFacts
<1>7. Scanned(n)'
  BY <1>1, <1>2, <1>3, <1>4, <1>5, <1>6 DEF Scanned
<1> QED
  BY <1>2, <1>7 DEF DecidingInv, Fresh, Answered

LEMMA DecidingScan ==
  ASSUME IInv, NEW n \in Nodes, ScanByte(n), DecidingInv(n)
  PROVE  DecidingInv(n)'
<1>1. /\ TypeOK /\ task[n] = "scan" /\ i[n] < ret[n] /\ i'[n] = i[n] + 1
      /\ UNCHANGED <<main, arg, task, u8ReadBuffer>>
      /\ ret[n] \in -1..3 /\ arg[n] \in Nat
      /\ u8ReadBuffer[n] \in Frames \cup {<<>>}
  BY ScanFacts, RegsAssumption DEF IInv, ScanByte, node, TypeOK
<1>2. PICK m \in 0..3 : m = i[n]
  BY <1>1 DEF TypeOK
<1>3. /\ answers[n] = 0 /\ ret[n] = Len(u8ReadBuffer[n])
      /\ sg_read[n] <=> Seen(n, m)
      /\ ~Asked(n, m)
  <2>1. answers[n] = 0
    BY <1>1, <1>2 DEF IInv, ReplyInv
  <2>2. Scanned(n)
    BY <1>1 DEF DecidingInv
  <2> QED
    BY <1>2, <2>1, <2>2 DEF Scanned
<1>4. u8ReadBuffer[n] \in Frames /\ m + 1 \in 1..Len(u8ReadBuffer[n])
  BY <1>1, <1>2, <1>3, FrameFacts
<1>5. u8ReadBuffer[n][m + 1] \in UByte /\ Byte(n) = u8ReadBuffer[n][m + 1]
  BY <1>2, <1>4, FrameFacts DEF Byte
<1>6. /\ Seen(n, m + 1) <=> Seen(n, m) \/ IsRegister(n)
      /\ Asked(n, m + 1) <=> Byte(n) = Address /\ Seen(n, m + 1)
  BY <1>1, <1>3, <1>5, OneMoreByte DEF IsRegister
<1>7. sg_read'[n] <=> Seen(n, m + 1)
  <2>1. sg_read'[n] = (sg_read[n] \/ IsRegister(n))
    BY <1>1, ScanFacts DEF TypeOK
  <2> QED
    BY <1>3, <1>6, <2>1
<1>8. CASE IsReadOfRegister(n)
  <2>1. answers'[n] = 1
    BY <1>1, <1>3, <1>8 DEF ScanByte, TypeOK
  <2>2. Asked(n, m + 1)
    BY <1>6, <1>7, <1>8 DEF IsReadOfRegister
  <2>3. Asked(n, Len(u8ReadBuffer[n]))
    BY <1>4, <2>2, FrameFacts DEF Asked
  <2>4. ReadsRegister(n, u8ReadBuffer[n])
    BY <1>4, <2>3, FrameFacts, AskedIsReads
  <2>5. ReadsRegister(n, u8ReadBuffer[n])'
    BY <1>1, <2>4 DEF ReadsRegister
  <2> QED
    BY <1>1, <2>1, <2>5 DEF DecidingInv, Fresh, Answered, Scanned
<1>9. CASE ~IsReadOfRegister(n)
  <2>1. UNCHANGED <<ret, answers>>
    BY <1>9 DEF ScanByte
  <2>2. ~Asked(n, m + 1)
    BY <1>6, <1>7, <1>9 DEF IsReadOfRegister
  <2>3. Seen(n, i[n])' <=> Seen(n, m + 1)
    BY <1>1, <1>2 DEF Seen
  <2>4. Asked(n, i[n])' <=> Asked(n, m + 1)
    BY <1>1, <1>2 DEF Asked, Seen
  <2>5. i'[n] <= ret'[n]
    BY <1>1, <1>2, <2>1
  <2>6. Scanned(n)'
    BY <1>1, <1>3, <1>7, <2>1, <2>2, <2>3, <2>4, <2>5 DEF Scanned
  <2> QED
    BY <1>1, <1>3, <2>1, <2>6 DEF DecidingInv, Fresh, Answered
<1> QED
  BY <1>8, <1>9

LEMMA DecidingEnd ==
  ASSUME IInv, NEW n \in Nodes, ScanEnds(n), DecidingInv(n)
  PROVE  DecidingInv(n)'
<1>1. /\ TypeOK /\ task[n] = "scan" /\ task'[n] = "read" /\ ~(i[n] < ret[n])
      /\ UNCHANGED <<main, arg, u8ReadBuffer, answers>>
      /\ i[n] \in 0..3 /\ ret[n] \in -1..3
      /\ u8ReadBuffer[n] \in Frames \cup {<<>>}
  BY DEF IInv, ScanEnds, More, TypeOK, node, locals
<1>2. Len(u8ReadBuffer[n]) \in Nat
  BY <1>1, FrameFacts
<1>3. Scanned(n)
  BY <1>1 DEF DecidingInv
<1>4. Decided(n)
  <2>1. CASE answers[n] = 1
    BY <1>3, <2>1 DEF Scanned, Decided
  <2>2. CASE answers[n] # 1
    <3>1. answers[n] = 0 /\ i[n] = Len(u8ReadBuffer[n]) /\ ~Asked(n, i[n])
      BY <1>1, <1>2, <1>3, <2>2 DEF Scanned
    <3>2. ~ReadsRegister(n, u8ReadBuffer[n])
      BY <1>2, <3>1, AskedIsReads
    <3> QED
      BY <3>1, <3>2 DEF Decided
  <2> QED
    BY <2>1, <2>2
<1>5. Decided(n)'
  BY <1>1, <1>4 DEF Decided, ReadsRegister
<1>6. Answered(n)'
  BY <1>1 DEF DecidingInv, Answered, ReadsRegister
<1> QED
  BY <1>1, <1>5, <1>6 DEF DecidingInv, Fresh

\* The thread of one board is no other board's.
LEMMA DecidingOther ==
  ASSUME IInv, NEW n \in Nodes, i_slave_read_task(n), NEW m \in Nodes, m # n,
         DecidingInv(m)
  PROVE  DecidingInv(m)'
<1>1. TypeOK
  BY DEF IInv
<1>2. /\ task'[m] = task[m] /\ u8ReadBuffer'[m] = u8ReadBuffer[m] /\ ret'[m] = ret[m]
      /\ i'[m] = i[m] /\ sg_read'[m] = sg_read[m] /\ answers'[m] = answers[m]
      /\ UNCHANGED <<main, arg>>
  <2>1. CASE HW_I2CRawSlaveRead(n)
    BY <1>1, <2>1 DEF HW_I2CRawSlaveRead, FlagReset, TypeOK, node
  <2>2. CASE ScanByte(n)
    <3>1. /\ sg_read' = [sg_read EXCEPT ![n] = @ \/ IsRegister(n)]
          /\ i' = [i EXCEPT ![n] = @ + 1] /\ UNCHANGED <<node, task, u8ReadBuffer>>
          /\ \/ /\ \E Status \in {0, -1} : ret' = [ret EXCEPT ![n] = Status]
                /\ answers' = [answers EXCEPT ![n] = @ + 1]
             \/ UNCHANGED <<ret, answers>>
      BY <1>1, <2>2, ScanFacts
    <3> QED
      BY <1>1, <3>1 DEF TypeOK, node
  <2>3. CASE ScanEnds(n)
    BY <1>1, <2>3 DEF ScanEnds, TypeOK, node, locals
  <2> QED
    BY <2>1, <2>2, <2>3 DEF i_slave_read_task
<1> QED
  BY <1>2, DecidingUntouched

LEMMA DecidingStep == IInv /\ AllDeciding /\ [Next]_vars => AllDeciding'
<1> SUFFICES ASSUME IInv, AllDeciding, [Next]_vars, NEW m \in Nodes
             PROVE  DecidingInv(m)'
  BY DEF AllDeciding
<1>0. DecidingInv(m)
  BY DEF AllDeciding
<1>1. CASE Next
  <2>1. PICK n \in Nodes : MainStep(n) \/ i_slave_read_task(n)
    BY <1>1 DEF Next, MainStep
  <2>2. CASE MainStep(n)
    BY <1>0, <2>2, DecidingMain
  <2>3. CASE i_slave_read_task(n) /\ m # n
    BY <1>0, <2>3, DecidingOther
  <2>4. CASE i_slave_read_task(n) /\ m = n
    BY <1>0, <2>4, DecidingRead, DecidingScan, DecidingEnd DEF i_slave_read_task
  <2> QED
    BY <2>1, <2>2, <2>3, <2>4
<1>2. CASE UNCHANGED vars
  BY <1>0, <1>2, DecidingUntouched DEF vars, locals
<1> QED
  BY <1>1, <1>2

\* Each frame that a thread is done with has been replied to if and only if it
\* reads the board's register, for any boards, registers and queues.
THEOREM FramesDecided == Spec => []FrameDecided
<1>1. AllDeciding => FrameDecided
  BY DEF AllDeciding, DecidingInv, Decided, FrameDecided
<1> QED
  BY <1>1, DecidingInit, DecidingStep, Invariant, PTL DEF Spec

\* Why the bus falls silent (i2craw.c:235-243): a board whose register is not
\* the address byte, which replies begin with, replies to no reply, also when
\* its register is one of the other bytes of a reply.
RepliesCallForNone ==
  \A n \in Nodes :
    arg[n] % 256 # Address /\ u8ReadBuffer[n] = Reply => answers[n] = 0

\* So it is for any boards, registers and queues; what is left of
\* BusFallsSilent is that the requests are finitely many.
THEOREM NoReplyToReplies == Spec => []RepliesCallForNone
<1>1. IInv /\ AllDeciding => RepliesCallForNone
  <2> SUFFICES ASSUME IInv, AllDeciding, NEW n \in Nodes, arg[n] % 256 # Address,
                      u8ReadBuffer[n] = Reply, answers[n] # 0
               PROVE  FALSE
    BY DEF RepliesCallForNone
  <2>1. answers[n] = 1
    BY DEF IInv, ReplyInv
  <2>2. PICK j, k \in 1..Len(Reply) :
          j <= k /\ Reply[j] = arg[n] % 256 /\ Reply[k] = Address
    BY <2>1 DEF AllDeciding, DecidingInv, Answered, ReadsRegister
  <2>3. k = 1
    BY <2>2 DEF Reply, Address
  <2>4. j = 1
    BY <2>2, <2>3 DEF Reply
  <2> QED
    BY <2>2, <2>4 DEF Reply
<1> QED
  BY <1>1, DecidingInit, DecidingStep, Invariant, PTL DEF Spec
=============================================================================
