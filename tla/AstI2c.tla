------------------------------- MODULE AstI2c -------------------------------
(***************************************************************************)
(* The polled I2C driver of linux_app/uboot_i2c_codes: the U-Boot commands *)
(* "master" and "slave", the exported calls i2c_probe, i2c_read and        *)
(* i2c_write, and the AST2500 controllers they poll.  A call is cut into   *)
(* the steps between which a controller can act on its own: a command is   *)
(* written to a controller (phase "issue"), its interrupt is awaited by    *)
(* i2c_interrupt_status (phase "poll"), the status register is cleared     *)
(* (phase "clear"), and the caller looks at what was read and goes on      *)
(* (phase "eval").  The controllers and the chips on the other side are    *)
(* external: they answer a command with ACK, NAK, a received byte or an    *)
(* error, at once, late, or never.  The mode argument of i2c_read and      *)
(* i2c_write is taken to be masterm, which do_masterrw, the one caller in  *)
(* the repository, passes; do_slaverw calls i2c_send_byte and              *)
(* i2c_receive_byte with slavem itself, and these are the slave points.    *)
(***************************************************************************)
EXTENDS Integers

CONSTANTS
  Buses,      \* bus numbers an operator types, the argument of both commands
  Live,       \* those whose controllers can act; the lines of others are held
  Alens,      \* numbers of register-address bytes callers ask for
  Lens,       \* numbers of data bytes callers ask for
  Bytes,      \* byte values a remote master or a chip puts on a bus
  PollLimit,  \* iterations of the polling loop (100000 in the code)
  MaxHeard    \* bound: command bytes a slave session is sent

\* AST2500 has buses 0..13; real_i2c_init gives no other number a window.
ASSUME BusesAssumption == Buses \subseteq 0..13

ASSUME LiveAssumption == Live \subseteq Buses

\* i2c.h allows alen = 0; a transfer of no bytes is outside its interface.
ASSUME LengthAssumption == /\ Alens \subseteq Nat
                           /\ Lens \subseteq Nat \ {0}

ASSUME BytesAssumption == Bytes \subseteq 0..255

ASSUME BoundAssumption == PollLimit \in Nat /\ MaxHeard \in Nat

CommandByte == 33                    \* 0x21, what do_slaverw waits for
NoBus       == -1
AST_I2C_REG_BASE == 511221760        \* 0x1E78A000

\* Base address of a bus's registers (real_i2c_init).
BusBase(b) == AST_I2C_REG_BASE + (IF b >= 7 THEN 256 ELSE 0) + 64 * (b + 1)

Windows == {BusBase(b) : b \in Buses}
NoBase  == 0                         \* i2c_bus_base_addr before any init
Bases   == Windows \cup {NoBase}

(***************************************************************************)
(* Bits of a controller's interrupt status register: 0x01, 0x02, 0x04, and *)
(* "ERR" for arbitration loss or an abnormal stop.  All are enabled by the *)
(* value 0x2F of I2C_ICR; the normal-stop bit is not, and no code tests it.*)
(***************************************************************************)
Events == {"ACK", "NAK", "RX", "ERR"}

MasterCommands == {"startW", "tx", "startR", "rx", "rxlast"}

VARIABLES
  i2c_init_pending, i2c_bus_num, i2c_bus_base_addr,   \* the driver's statics
  scu90,      \* bits set in the SCU pin-function register
  ready,      \* ready[w]: function and interrupt control have been written
  isr,        \* isr[w]: pending interrupt status bits
  cmd,        \* cmd[w]: the command the controller has not answered yet
  last,       \* last[w]: the last master command put on the bus
  trbb,       \* trbb[w]: the received byte in the byte buffer
  call,       \* the call running, or the last one: operation and lengths
  pc, phase,  \* where the call is
  i,          \* loop index of i2c_read and i2c_write
  polls,      \* loop index of i2c_interrupt_status
  status,     \* what i2c_interrupt_status will return
  ret,        \* the value the call returns
  filled,     \* indexes of the caller's buffer stored to by this call
  byte,       \* do_slaverw's byte
  quiet,      \* no command was left unanswered on the bus when the call began
  answers,    \* what the controller answered to commands of this very call
  heard,      \* command bytes the controller received in this slave session
  replies     \* command bytes do_slaverw replied to in this session

statics == <<i2c_init_pending, i2c_bus_num, i2c_bus_base_addr, scu90, ready>>
frame   == <<call, pc, phase, i, polls, status, ret, filled, byte>>
ports   == <<isr, cmd, last, trbb>>
ghosts  == <<quiet, answers, heard, replies>>
vars    == <<statics, frame, ports, ghosts>>

CallPoints  == {"start", "addr", "restart", "receive", "send", "stop"}
SlavePoints == {"ctrlc", "slave_receive", "reply0", "reply1"}
PolledPoints == (CallPoints \ {"stop"}) \cup (SlavePoints \ {"ctrlc"})
Calls == [op : {"none", "probe", "read", "write", "slave"},
          alen : Alens \cup {0, 1}, len : Lens \cup {0, 1}]

Init ==
  /\ i2c_init_pending = TRUE
  /\ i2c_bus_num = NoBus
  /\ i2c_bus_base_addr = NoBase
  /\ scu90 \in {{}, {0}}
  /\ ready = [w \in Bases |-> FALSE]
  /\ isr = [w \in Bases |-> {}]
  /\ cmd = [w \in Bases |-> "none"]
  /\ last = [w \in Bases |-> "none"]
  /\ trbb = [w \in Bases |-> 0]
  /\ call = [op |-> "none", alen |-> 0, len |-> 0]
  /\ pc = "idle" /\ phase = "issue"
  /\ i = 0 /\ polls = 0 /\ status = {}
  /\ ret = 0 /\ filled = {} /\ byte = 0
  /\ quiet = TRUE /\ answers = {} /\ heard = 0 /\ replies = 0

-----------------------------------------------------------------------------
(***************************************************************************)
(* Initialisation and the entry points.                                    *)
(***************************************************************************)

\* Pin functions after real_i2c_init: buses 9..12 take the pins of SD1.
PinFunctions(b) ==
  IF b < 2 THEN scu90
  ELSE (IF b \in 9..12 THEN scu90 \ {0} ELSE scu90) \cup {14 + b}

NoClear(w) == isr

\* Writing ones clears the interrupt status.
ClearIsr(w) == [isr EXCEPT ![w] = {}]

real_i2c_init(b) ==
  /\ i2c_bus_base_addr' = BusBase(b)
  /\ scu90' = PinFunctions(b)
  /\ isr' = ClearIsr(BusBase(b))
  /\ ready' = [ready EXCEPT ![BusBase(b)] = TRUE]
  /\ i2c_init_pending' = FALSE

InitNever(b) == UNCHANGED <<i2c_bus_base_addr, scu90, isr, ready, i2c_init_pending>>

InitIfPending(b) ==
  \/ i2c_init_pending /\ real_i2c_init(b)
  \/ ~i2c_init_pending
     /\ UNCHANGED <<i2c_bus_base_addr, scu90, isr, ready, i2c_init_pending>>

\* Commands a controller answers with the fate of a byte it sent.
SendCommands == {"startW", "startR", "tx", "stx"}

Enter(op, alen, len) ==
  /\ pc = "idle"
  /\ call' = [op |-> op, alen |-> alen, len |-> len]
  /\ pc' = "start" /\ phase' = "issue"
  /\ i' = 0 /\ ret' = 0 /\ filled' = {}
  /\ quiet' = (cmd[i2c_bus_base_addr'] \notin SendCommands) /\ answers' = {}
  /\ UNCHANGED <<polls, status, byte, cmd, last, trbb, heard, replies>>

\* Callers outside these files address the bus a command selected before.
BusSelected == i2c_bus_num # NoBus /\ UNCHANGED i2c_bus_num

i2c_probe ==
  BusSelected /\ real_i2c_init(i2c_bus_num) /\ Enter("probe", 0, 0)

i2c_read(alen, len) ==
  BusSelected /\ InitIfPending(i2c_bus_num) /\ Enter("read", alen, len)

i2c_write(alen, len) ==
  BusSelected /\ InitIfPending(i2c_bus_num) /\ Enter("write", alen, len)

\* do_masterrw: selects the bus, then i2c_reg_read reads one register.
do_masterrw(b) ==
  /\ i2c_bus_num' = b
  /\ InitIfPending(b)
  /\ Enter("read", 1, 1)

do_slaverw(b) ==
  /\ pc = "idle"
  /\ i2c_bus_num' = b
  /\ real_i2c_init(b)
  /\ call' = [op |-> "slave", alen |-> 0, len |-> 0]
  /\ pc' = "ctrlc" /\ byte' = 0 /\ ret' = 0
  /\ heard' = 0 /\ replies' = 0
  /\ UNCHANGED <<phase, i, polls, status, filled, cmd, last, trbb,
                 quiet, answers>>

-----------------------------------------------------------------------------
(***************************************************************************)
(* Commands: what the functions write to the command register before they  *)
(* poll.  A new command takes the place of one not answered yet.           *)
(***************************************************************************)

Write(c) ==
  /\ phase = "issue"
  /\ cmd' = [cmd EXCEPT ![i2c_bus_base_addr] = c]
  /\ last' = IF c \in MasterCommands
               THEN [last EXCEPT ![i2c_bus_base_addr] = c] ELSE last
  /\ phase' = "poll"
  /\ UNCHANGED <<statics, call, pc, i, polls, status, ret, filled, byte, isr, trbb, ghosts>>

i2c_start ==
  \/ pc = "start"   /\ Write("startW")
  \/ pc = "restart" /\ Write("startR")

i2c_send_byte ==
  \/ pc \in {"addr", "send"}     /\ Write("tx")
  \/ pc \in {"reply0", "reply1"} /\ Write("stx")

FlagPenultimate == IF i + 1 < call.len - 1 THEN "rx" ELSE "rxlast"

FlagNever == IF i < call.len THEN "rx" ELSE "rxlast"

\* i2c_read's "last": the final byte is received with the "last" flag.
ReceiveCommand == IF i < call.len - 1 THEN "rx" ELSE "rxlast"

\* In slave mode only the "last" flag is written, without a command bit.
i2c_receive_byte ==
  \/ pc = "receive" /\ Write(ReceiveCommand)
  \/ pc = "slave_receive" /\ Write(IF byte = CommandByte THEN "srxlast" ELSE "none")

\* Written without awaiting an answer; an unanswered command may stay ahead.
i2c_stop ==
  /\ pc = "stop"
  /\ \E c \in {"none", cmd[i2c_bus_base_addr]} :
       cmd' = [cmd EXCEPT ![i2c_bus_base_addr] = c]
  /\ last' = [last EXCEPT ![i2c_bus_base_addr] = "stop"]
  /\ pc' = "idle"
  /\ UNCHANGED <<statics, call, phase, i, polls, status, ret, filled, byte,
                 isr, trbb, ghosts>>

-----------------------------------------------------------------------------
(***************************************************************************)
(* i2c_interrupt_status.  The device interrupt register has a bit for each *)
(* controller with a pending status: the loop tests the bit of i2c_bus_num *)
(* and then reads and clears the status behind i2c_bus_base_addr.          *)
(***************************************************************************)

Disr(b) == isr[BusBase(b)] # {}

MorePollsByOne(n) == n <= PollLimit

MorePolls(n) == n < PollLimit

PollFrame == UNCHANGED <<statics, call, pc, i, ret, filled, byte, cmd, last, trbb, ghosts>>

PollHit ==
  /\ phase = "poll" /\ MorePolls(polls) /\ Disr(i2c_bus_num)
  /\ status' = isr[i2c_bus_base_addr]
  /\ phase' = "clear" /\ polls' = 0
  /\ UNCHANGED isr /\ PollFrame

NoCount(n) == n

Count(n) == n + 1

PollMiss ==
  /\ phase = "poll" /\ MorePolls(polls) /\ ~Disr(i2c_bus_num)
  /\ polls' = Count(polls)
  /\ UNCHANGED <<phase, status, isr>> /\ PollFrame

PollTimeout ==
  /\ phase = "poll" /\ ~MorePolls(polls)
  /\ status' = {}
  /\ phase' = "clear" /\ polls' = 0
  /\ UNCHANGED isr /\ PollFrame

\* Everything pending goes, also what came after the status was read.
ClearStatus ==
  /\ phase = "clear"
  /\ isr' = ClearIsr(i2c_bus_base_addr)
  /\ phase' = "eval"
  /\ UNCHANGED <<polls, status>> /\ PollFrame

i2c_interrupt_status == PollHit \/ PollMiss \/ PollTimeout \/ ClearStatus

-----------------------------------------------------------------------------
(***************************************************************************)
(* What the callers make of the answer.                                    *)
(***************************************************************************)

NothingElse(events) == status \subseteq events

Answered(events) == status \cap events # {}

Eval == /\ phase = "eval" /\ phase' = "issue" /\ status' = {}
        /\ UNCHANGED <<statics, call, polls, ports, quiet, answers, heard>>

GoTo(p) == pc' = p /\ UNCHANGED <<i, ret, filled, byte, replies>>

\* A failed START or address byte: return 1, and no STOP.
GiveUp == pc' = "idle" /\ ret' = 1 /\ i' = 0 /\ UNCHANGED <<filled, byte, replies>>

AfterAddress == IF call.op = "read" THEN "restart" ELSE "send"

StartDone ==
  /\ pc = "start" /\ call.op \in {"read", "write"} /\ Eval
  /\ \/ Answered({"ACK"}) /\ GoTo(IF call.alen > 0 THEN "addr" ELSE AfterAddress)
     \/ ~Answered({"ACK"}) /\ GiveUp

ProbeDone ==
  /\ pc = "start" /\ call.op = "probe" /\ Eval
  /\ ret' = IF Answered({"ACK"}) THEN 0 ELSE 1
  /\ pc' = "stop"
  /\ UNCHANGED <<i, filled, byte, replies>>

RetryLoop(n, next) ==
  IF ~Answered({"ACK", "NAK", "RX"}) THEN i' = i /\ pc' = pc
  ELSE IF i + 1 < n THEN i' = i + 1 /\ pc' = pc ELSE i' = 0 /\ pc' = next

LoopWithoutStop(n, next) ==
  IF i + 1 < n THEN i' = i + 1 /\ pc' = pc
  ELSE i' = 0 /\ pc' = IF next = "stop" THEN "idle" ELSE next

\* The loops over address and data bytes: next byte, or on to "next".
Loop(n, next) ==
  IF i + 1 < n THEN i' = i + 1 /\ pc' = pc ELSE i' = 0 /\ pc' = next

AddressDone ==
  /\ pc = "addr" /\ Eval
  /\ \/ /\ Answered({"ACK", "NAK"})
        /\ Loop(call.alen, AfterAddress)
        /\ UNCHANGED <<ret, filled, byte, replies>>
     \/ ~Answered({"ACK", "NAK"}) /\ GiveUp

RestartDone ==
  /\ pc = "restart" /\ Eval
  /\ \/ Answered({"ACK"}) /\ GoTo("receive")
     \/ ~Answered({"ACK"}) /\ GiveUp

RetOfThisByte(done) == IF done THEN 0 ELSE 1

\* A byte that fails makes the call fail, but the loop goes on.
RetAfter(done) == IF done THEN ret ELSE 1

SendDone ==
  /\ pc = "send" /\ Eval
  /\ ret' = RetAfter(Answered({"ACK", "NAK"}))
  /\ Loop(call.len, "stop")
  /\ UNCHANGED <<filled, byte, replies>>

ReceiveDone ==
  /\ pc = "receive" /\ Eval
  /\ ret' = RetAfter(Answered({"RX"}))
  /\ filled' = IF Answered({"RX"}) THEN filled \cup {i} ELSE filled
  /\ Loop(call.len, "stop")
  /\ UNCHANGED <<byte, replies>>

\* do_slaverw's loop.
SlaveBreak == /\ pc = "ctrlc" /\ pc' = "idle"
              /\ byte' = 0 /\ heard' = 0 /\ replies' = 0
              /\ UNCHANGED <<statics, call, phase, i, polls, status, ret, filled,
                             ports, quiet, answers>>

SlaveListen == pc = "ctrlc" /\ pc' = "slave_receive"
               /\ UNCHANGED <<statics, call, phase, i, polls, status, ret, filled,
                              byte, ports, ghosts>>

Received == IF Answered({"RX"}) THEN trbb[i2c_bus_base_addr] ELSE byte

KeptByte(b) == b

\* A command byte is forgotten before it is replied to.
NextByte(b) == IF b = CommandByte THEN 0 ELSE b

SlaveReceiveDone ==
  /\ pc = "slave_receive" /\ Eval
  /\ byte' = NextByte(Received)
  /\ IF Received = CommandByte
       THEN pc' = "reply0" /\ replies' = replies + 1
       ELSE pc' = "ctrlc" /\ UNCHANGED replies
  /\ UNCHANGED <<i, ret, filled>>

\* Whether a reply byte went out is only printed.
ReplyDone ==
  /\ Eval
  /\ \/ pc = "reply0" /\ GoTo("reply1")
     \/ pc = "reply1" /\ GoTo("ctrlc")

CallStep == i2c_start \/ i2c_send_byte \/ i2c_receive_byte \/ i2c_stop
            \/ i2c_interrupt_status
            \/ StartDone \/ ProbeDone \/ AddressDone \/ RestartDone
            \/ SendDone \/ ReceiveDone \/ SlaveReceiveDone \/ ReplyDone

-----------------------------------------------------------------------------
(***************************************************************************)
(* The controllers, external.  A controller that has been initialised      *)
(* answers its command as long as no newer one takes its place, so also    *)
(* after the polling loop has given up on it.                              *)
(***************************************************************************)

HwFrame == UNCHANGED <<statics, frame, last, quiet, replies>>

\* Once i2c_probe, i2c_read or i2c_write has written its first START, what its
\* controller has to answer is a command of that call.
OwnCommand(w) == /\ w = i2c_bus_base_addr /\ pc \in CallPoints
                 /\ pc # "start" \/ phase # "issue"

HwAnswer(w, answer) ==
  /\ ready[w] /\ cmd[w] \in SendCommands
  /\ isr' = [isr EXCEPT ![w] = @ \cup {answer}]
  /\ cmd' = [cmd EXCEPT ![w] = "none"]
  /\ answers' = IF OwnCommand(w) THEN answers \cup {answer} ELSE answers
  /\ UNCHANGED <<trbb, heard>> /\ HwFrame

\* A byte enters the buffer; in a slave session command bytes are counted.
ByteIn(w, v) ==
  /\ isr' = [isr EXCEPT ![w] = @ \cup {"RX"}]
  /\ trbb' = [trbb EXCEPT ![w] = v]
  /\ heard' = IF /\ v = CommandByte /\ call.op = "slave" /\ pc # "idle"
                 /\ w = i2c_bus_base_addr
                THEN heard + 1 ELSE heard
  /\ heard' <= MaxHeard
  /\ UNCHANGED answers /\ HwFrame

HwReceive(w, v) ==
  /\ ready[w] /\ cmd[w] \in {"rx", "rxlast"}
  /\ cmd' = [cmd EXCEPT ![w] = "none"]
  /\ ByteIn(w, v)

\* A remote master writes to us; it waits while a byte is unacknowledged.
HwSlaveByte(w, v) ==
  /\ ready[w] /\ cmd[w] \notin MasterCommands
  /\ last[w] \in {"none", "stop"}
  /\ "RX" \notin isr[w]
  /\ UNCHANGED cmd
  /\ ByteIn(w, v)

LiveWindows == {BusBase(b) : b \in Live}

Hardware == \E w \in LiveWindows :
              \/ \E answer \in Events \ {"RX"} : HwAnswer(w, answer)
              \/ \E v \in Bytes : HwReceive(w, v) \/ HwSlaveByte(w, v)

Operator == \/ i2c_probe
            \/ \E a \in Alens, n \in Lens : i2c_read(a, n) \/ i2c_write(a, n)
            \/ \E b \in Buses : do_masterrw(b) \/ do_slaverw(b)
            \/ SlaveBreak \/ SlaveListen

Next == CallStep \/ Hardware \/ Operator

(***************************************************************************)
(* The boot loader runs one thing at a time, so a call keeps taking steps; *)
(* nothing obliges a controller to answer or an operator to type.          *)
(***************************************************************************)
Spec == Init /\ [][Next]_vars /\ WF_vars(CallStep)

-----------------------------------------------------------------------------
(***************************************************************************)
(* Properties.                                                             *)
(***************************************************************************)

StaticsOK ==
  /\ i2c_init_pending \in BOOLEAN
  /\ i2c_bus_num \in Buses \cup {NoBus}
  /\ i2c_bus_base_addr \in Bases
  /\ scu90 \subseteq 0..27
  /\ ready \in [Bases -> BOOLEAN]

FrameOK ==
  /\ call \in Calls
  /\ pc \in {"idle"} \cup CallPoints \cup SlavePoints
  /\ phase \in {"issue", "poll", "clear", "eval"}
  /\ i \in Nat /\ polls \in 0..PollLimit
  /\ status \subseteq Events
  /\ ret \in {0, 1} /\ filled \subseteq Nat /\ byte \in 0..255

PortsOK ==
  /\ isr \in [Bases -> SUBSET Events]
  /\ cmd \in [Bases -> MasterCommands \cup {"none", "stx", "srxlast"}]
  /\ last \in [Bases -> MasterCommands \cup {"none", "stop"}]
  /\ trbb \in [Bases -> 0..255]

GhostsOK == /\ quiet \in BOOLEAN /\ answers \subseteq Events
            /\ heard \in 0..MaxHeard /\ replies \in Nat

\* Type invariant of the statics, the call frame, the registers and ghosts.
TypeOK == StaticsOK /\ FrameOK /\ PortsOK /\ GhostsOK

\* The registers a call writes, those behind i2c_bus_base_addr, belong to a
\* controller that real_i2c_init has given its pins (taking them from SD1 where
\* they are shared) and its function and interrupt control.  It says nothing of
\* the interrupt bit a call polls, that of i2c_bus_num: SuccessOnReadyBus does.
PortReady ==
  pc # "idle" =>
    \E b \in Buses :
      /\ i2c_bus_base_addr = BusBase(b) /\ ready[BusBase(b)]
      /\ b >= 2 => 14 + b \in scu90
      /\ b \in 9..12 => 0 \notin scu90

\* i2c_read returns 0 only if every byte the caller asked for was stored by
\* this call: a byte that failed in the middle of the loop is not forgotten
\* when a later one succeeds.
SuccessFillsBuffer ==
  pc = "idle" /\ call.op = "read" /\ ret = 0 => filled = 0..(call.len - 1)

\* A chip is told that no more is read with the final byte, and not before:
\* while i2c_read has bytes left to ask for, no command on the bus was flagged
\* "last", also after bytes that failed in the middle of the loop.
ReadStaysOpen ==
  pc = "receive" /\ phase = "issue" => last[i2c_bus_base_addr] \in {"startR", "rx"}

\* The poll tests the interrupt bit of i2c_bus_num and takes its status from
\* behind i2c_bus_base_addr, which after a change of bus belong to different
\* controllers.  A call for a bus that real_i2c_init has never seen fails all
\* the same, whatever the controller it drives instead answers.
SuccessOnReadyBus ==
  pc = "idle" /\ call.op \in {"probe", "read", "write"} /\ ret = 0
    => ready[BusBase(i2c_bus_num)]

\* i2c_probe returns 0 only if the controller acknowledged the probe's own
\* START, provided that no command of an earlier call was left unanswered: what
\* such calls left in the status register is cleared and does not count.  A
\* command that timed out is not taken back by real_i2c_init, and without the
\* condition its late ACK, come before the probe's START, counts as the chip's:
\* "Returns 0 if a chip responded" (i2c.h:138) does not hold then.
ProbeFindsChip ==
  pc = "idle" /\ call.op = "probe" /\ ret = 0 /\ quiet => "ACK" \in answers

\* do_slaverw replies to no command byte twice and to none that never came,
\* though its byte survives a receive that timed out.
NoPhantomReply == replies <= heard

\* The order of commands on every bus, and what a return value says about
\* the bus, are those of I2cMasterPort.
Port == INSTANCE I2cMasterPort WITH
          Ports <- Windows,
          port <- i2c_bus_base_addr,
          last <- [w \in Windows |-> last[w]],
          outcome <- IF call.op \in {"none", "slave"} THEN "none"
                     ELSE IF pc # "idle" THEN "busy"
                     ELSE IF ret = 0 THEN "ok" ELSE "fail"

CommandOrder == Port!Spec

\* i2c_read, i2c_write and i2c_probe leave their bus free when they succeed, and
\* when they fail not in the middle of a read, however their bytes fared.
BusFreeAfterCall == Port!BusAfterCall

\* Every call returns, and a slave session comes back to its test of ctrl-C,
\* though no controller ever has to answer.
CallReturns == pc \notin {"idle", "ctrlc"} ~> pc \in {"idle", "ctrlc"}

\* Commands a call may still write, each with the steps it may still take: the
\* write, PollLimit looks and one more, the clearing and what is made of it.
CommandsLeft ==
  CASE pc = "start"         -> IF call.op = "probe" THEN 2 ELSE call.alen + call.len + 3
    [] pc = "addr"          -> (call.alen - i) + call.len + 2
    [] pc = "restart"       -> call.len + 2
    [] pc \in {"receive", "send"} -> (call.len - i) + 1
    [] pc = "stop"          -> 1
    [] pc = "slave_receive" -> 3
    [] pc = "reply0"        -> 2
    [] pc = "reply1"        -> 1
    [] OTHER                -> 0

StepsTaken == CASE phase = "issue" -> 0
                [] phase = "poll"  -> 1 + polls
                [] phase = "clear" -> PollLimit + 2
                [] phase = "eval"  -> PollLimit + 3

StepsLeft == CommandsLeft * (PollLimit + 4) - StepsTaken

\* Whatever controllers answer, or if they never do, each step of a call takes
\* it nearer to its end: one of alen and len bytes takes no more than
\* (alen + len + 3) * (PollLimit + 4) steps, and no failed byte is tried again.
CallComesToEnd == [][CallStep => StepsLeft' \in 0..StepsLeft - 1]_vars

\* The i2c.h comment on the active bus, "Subsequent read/write calls will go
\* to this one" (i2c.h:205-206): a running call drives the controller of the
\* bus the operator selected last.
CallGoesToSelectedBus == pc # "idle" => i2c_bus_base_addr = BusBase(i2c_bus_num)

\* "Returns: 0 on success, not 0 on failure" (i2c.h:153) with success of a
\* byte meaning "transmit done with ACK returned" (ast_i2c.c:244): i2c_write
\* does not return 0 if the chip refused a byte that this call sent.
SuccessMeansAcknowledged ==
  pc = "idle" /\ call.op = "write" /\ ret = 0 => "NAK" \notin answers
=============================================================================
