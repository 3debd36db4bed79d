---------------------------- MODULE IpmbEmulation ----------------------------
(***************************************************************************)
(* linux_app/i2c_emulate_ipmb: the program that plays an IPMB node on an   *)
(* I2C bus, run on several boards of one bus.  main sends at most one      *)
(* request, "register, then my address"; the thread i_slave_read_task      *)
(* takes each frame the board receives as a slave, and when it finds its   *)
(* own register followed by the address byte it writes a reply to the      *)
(* same slave address.  Every board has that address, so a write reaches   *)
(* any of the others, or nobody: nothing is retried.                       *)
(***************************************************************************)
EXTENDS Integers, Sequences

CONSTANTS
  Nodes,      \* boards on the bus that run the program
  Regs,       \* what is typed as the register argument
  Signed,     \* nodes built with a signed char
  QueueLen    \* bound: frames the slave driver of a node holds

ASSUME RegsAssumption == Regs \subseteq Nat
ASSUME SignedAssumption == Signed \subseteq Nodes
ASSUME QueueAssumption == QueueLen \in Nat

Address == 33                        \* (SLAVE_ADDR << 1) | 1

VARIABLES
  main,       \* where main is
  task,       \* where i_slave_read_task is; "none" before or without a thread
  opt, arg,   \* the option and the register argument of the command line
  inbox,      \* frames the slave driver holds for the program, oldest first
  u8ReadBuffer, ret, i, sg_read,     \* the locals of the task
  answers     \* replies the task has tried to send for the frame it is at

node == <<main, opt, arg>>
locals == <<u8ReadBuffer, ret, i, sg_read, answers>>
vars == <<main, task, opt, arg, inbox, locals>>

\* What a byte of the argument's low eight bits is when read back as a char.
AsChar(n, r) ==
  (r % 256) - (IF n \in Signed /\ r % 256 >= 128 THEN 256 ELSE 0)

sg_reg(n) == AsChar(n, arg[n])

Request(r) == <<r % 256, Address>>
Reply      == <<Address, 85, 170>>   \* 0x55, 0xaa
Frames     == {Reply} \cup {Request(r) : r \in Regs}

Init ==
  /\ main = [n \in Nodes |-> "start"]
  /\ task = [n \in Nodes |-> "none"]
  /\ opt \in [Nodes -> {"r", "w", "other"}]
  /\ arg \in [Nodes -> Regs]
  /\ inbox = [n \in Nodes |-> <<>>]
  /\ u8ReadBuffer = [n \in Nodes |-> <<>>]
  /\ ret = [n \in Nodes |-> -1]
  /\ i = [n \in Nodes |-> 0]
  /\ sg_read = [n \in Nodes |-> FALSE]
  /\ answers = [n \in Nodes |-> 0]

-----------------------------------------------------------------------------
(***************************************************************************)
(* HW_I2CRawWriteReadBytes.                                                *)
(***************************************************************************)

\* The messages of the ioctl; a transfer of nothing becomes a read.
Messages(writes, reads) ==
  IF writes > 0 THEN IF reads > 0 THEN <<"write", "read">> ELSE <<"write">>
                ELSE <<"read">>

\* The nodes that take a frame of n: running ones with room for it.
Listeners(n) == {m \in Nodes \ {n} : main[m] # "gone" /\ Len(inbox[m]) < QueueLen}

\* A frame is transferred if somebody acknowledges it.
HW_I2CRawWriteReadBytes(n, frame, Status) ==
  \E takers \in SUBSET Listeners(n), done \in {-1, 1} :
    /\ done = 1 <=> takers # {}
    /\ Status = IF done = Len(Messages(Len(frame), 0)) THEN 0 ELSE -1
    /\ inbox' = [m \in Nodes |-> IF m \in takers THEN Append(inbox[m], frame)
                                                 ELSE inbox[m]]

-----------------------------------------------------------------------------
(***************************************************************************)
(* main.                                                                   *)
(***************************************************************************)

\* If the thread cannot be created main goes on without it.
CreateTask(n) ==
  /\ main[n] = "start" /\ main' = [main EXCEPT ![n] = "opt"]
  /\ \E t \in {"read", "none"} : task' = [task EXCEPT ![n] = t]
  /\ UNCHANGED <<opt, arg, inbox, locals>>

SendRequest(n) ==
  /\ main[n] = "opt" /\ opt[n] = "r"
  /\ \E Status \in {0, -1} : HW_I2CRawWriteReadBytes(n, Request(arg[n]), Status)
  /\ main' = [main EXCEPT ![n] = "sleep"]
  /\ UNCHANGED <<task, opt, arg, locals>>

NothingToDo(n) ==
  /\ main[n] = "opt" /\ opt[n] = "w"
  /\ main' = [main EXCEPT ![n] = "sleep"]
  /\ UNCHANGED <<task, opt, arg, inbox, locals>>

\* The process ends, and with it the thread, wherever it is.
UsageExit(n) ==
  /\ main[n] = "opt" /\ opt[n] = "other"
  /\ main' = [main EXCEPT ![n] = "gone"]
  /\ task' = [task EXCEPT ![n] = "none"]
  /\ inbox' = [inbox EXCEPT ![n] = <<>>]
  /\ UNCHANGED <<opt, arg, locals>>

-----------------------------------------------------------------------------
(***************************************************************************)
(* i_slave_read_task.  A slave read that fails changes nothing.            *)
(***************************************************************************)

FlagKept(n) == sg_read

FlagReset(n) == [sg_read EXCEPT ![n] = FALSE]

WholeBuffer(frame) == 256

\* The driver's count of the frame, not that of the buffer, is returned.
Received(frame) == Len(frame)

HW_I2CRawSlaveRead(n) ==
  /\ task[n] = "read" /\ inbox[n] # <<>>
  /\ u8ReadBuffer' = [u8ReadBuffer EXCEPT ![n] = Head(inbox[n])]
  /\ ret' = [ret EXCEPT ![n] = Received(Head(inbox[n]))]
  /\ inbox' = [inbox EXCEPT ![n] = Tail(inbox[n])]
  /\ i' = [i EXCEPT ![n] = 0]
  /\ sg_read' = FlagReset(n)
  /\ answers' = [answers EXCEPT ![n] = 0]
  /\ task' = [task EXCEPT ![n] = "scan"]
  /\ UNCHANGED node

Byte(n) == u8ReadBuffer[n][i[n] + 1]

IsRegister(n) == Byte(n) = sg_reg(n)

AnyAddress(n) == Byte(n) = Address

IsReadAfterRegister(n) == Byte(n) = Address /\ sg_read[n]

IsReadOfRegister(n) == Byte(n) = Address /\ sg_read'[n]

LengthAfterReply(n, Status) == ret[n]

\* The status of the reply goes to "ret", which is also the loop's bound.
RetAfterReply(n, Status) == Status

MoreButLast(n) == i[n] < ret[n] - 1

More(n) == i[n] < ret[n]

ScanByte(n) ==
  /\ task[n] = "scan" /\ More(n)
  /\ sg_read' = [sg_read EXCEPT ![n] = @ \/ IsRegister(n)]
  /\ i' = [i EXCEPT ![n] = @ + 1]
  /\ \/ /\ IsReadOfRegister(n)
        /\ \E Status \in {0, -1} :
             /\ HW_I2CRawWriteReadBytes(n, Reply, Status)
             /\ ret' = [ret EXCEPT ![n] = RetAfterReply(n, Status)]
        /\ answers' = [answers EXCEPT ![n] = @ + 1]
     \/ /\ ~IsReadOfRegister(n)
        /\ UNCHANGED <<ret, inbox, answers>>
  /\ UNCHANGED <<node, task, u8ReadBuffer>>

ScanEnds(n) ==
  /\ task[n] = "scan" /\ ~More(n)
  /\ task' = [task EXCEPT ![n] = "read"]
  /\ UNCHANGED <<node, inbox, locals>>

i_slave_read_task(n) == HW_I2CRawSlaveRead(n) \/ ScanByte(n) \/ ScanEnds(n)

Next == \E n \in Nodes : \/ CreateTask(n) \/ SendRequest(n) \/ NothingToDo(n)
                         \/ UsageExit(n) \/ i_slave_read_task(n)

(***************************************************************************)
(* The thread of a running program is scheduled; no command line has to be *)
(* typed and no frame has to be acknowledged.                              *)
(***************************************************************************)
Spec == Init /\ [][Next]_vars /\ \A n \in Nodes : WF_vars(i_slave_read_task(n))

-----------------------------------------------------------------------------
(***************************************************************************)
(* Properties.                                                             *)
(***************************************************************************)

\* Type invariant: no more bytes are looked at than a frame has.
TypeOK ==
  /\ main \in [Nodes -> {"start", "opt", "sleep", "gone"}]
  /\ task \in [Nodes -> {"none", "read", "scan"}]
  /\ opt \in [Nodes -> {"r", "w", "other"}] /\ arg \in [Nodes -> Regs]
  /\ inbox \in [Nodes -> Seq(Frames)]
  /\ u8ReadBuffer \in [Nodes -> Frames \cup {<<>>}]
  /\ ret \in [Nodes -> -1..3] /\ i \in [Nodes -> 0..3]
  /\ sg_read \in [Nodes -> BOOLEAN] /\ answers \in [Nodes -> Nat]
  /\ \A n \in Nodes : Len(inbox[n]) <= QueueLen

\* A frame is replied to at most once, also one with the address byte in it
\* twice: the reply's status ends the loop that "ret" bounds.
OneReplyPerFrame == \A n \in Nodes : answers[n] <= 1

\* Only a frame that names the node's register is replied to: what an earlier
\* frame named is forgotten, and a reply by itself calls for no reply.
OnlyItsRegister ==
  \A n \in Nodes :
    answers[n] > 0 => \E k \in 1..Len(u8ReadBuffer[n]) : u8ReadBuffer[n][k] = arg[n] % 256

\* An address byte at or behind the register, which a char must be able to be.
ReadsRegister(n, frame) ==
  /\ n \in Signed => arg[n] % 256 < 128
  /\ \E j, k \in 1..Len(frame) : j <= k /\ frame[j] = arg[n] % 256 /\ frame[k] = Address

\* When a thread is done with a frame it has replied to it if and only if the
\* frame reads the node's register: the loop, though its bound is the reply's
\* status and its flag outlives a byte, misses no such frame and answers no
\* other, the replies on the bus included.
FrameDecided ==
  \A n \in Nodes :
    task[n] = "read" /\ u8ReadBuffer[n] # <<>> =>
      answers[n] = (IF ReadsRegister(n, u8ReadBuffer[n]) THEN 1 ELSE 0)

AtItsRequest(n) ==
  task[n] = "scan" /\ answers[n] = 0 /\ u8ReadBuffer[n] = Request(arg[n])

\* A request for a node's own register that its thread receives is replied
\* to, if the register is below 128, whatever the sign of a char.
RequestIsAnswered ==
  \A n \in Nodes :
    AtItsRequest(n) /\ arg[n] % 256 < 128 ~> answers[n] > 0 \/ main[n] = "gone"

\* The bus falls silent: unless some node's register is the address byte,
\* replies call for no replies.
BusFallsSilent ==
  (\A n \in Nodes : arg[n] % 256 # Address)
    => <>[][inbox' = inbox]_inbox
=============================================================================
