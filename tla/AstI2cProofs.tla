---------------------------- MODULE AstI2cProofs ----------------------------
(***************************************************************************)
(* Proofs about AstI2c for any set of buses, any transfer lengths and any  *)
(* length of the polling loop.  One inductive invariant, IInv, carries all *)
(* the theorems: besides the types it says which points of the code each   *)
(* call can be at, which command was last put on the bus at each of them,  *)
(* and where the evidence for the value a call returns is kept meanwhile.  *)
(***************************************************************************)
EXTENDS AstI2c, TLAPS

\* Where each operation can be; a call only waits between its statements.
Control ==
  /\ call.op = "none"  => pc = "idle"
  /\ call.op = "probe" => pc \in {"idle", "start", "stop"}
  /\ call.op = "read"  => pc \in {"idle", "start", "addr", "restart", "receive", "stop"}
  /\ call.op = "write" => pc \in {"idle", "start", "addr", "send", "stop"}
  /\ call.op = "slave" => pc \in {"idle"} \cup SlavePoints
  /\ call.op \in {"read", "write"} => call.len \in Nat \ {0}
  /\ pc \in {"idle", "stop", "ctrlc"} => phase = "issue"
  /\ pc \in {"start", "restart"} => i = 0
  /\ pc \in {"receive", "send"} => i < call.len
  /\ pc = "addr" => i < call.alen

\* What a poll returned is kept only until the caller has looked at it.
StatusInv == phase \in {"issue", "poll"} => status = {}

\* The bus b has been through real_i2c_init and is still the current one.
Initialised(b) ==
  /\ i2c_bus_base_addr = BusBase(b) /\ ready[BusBase(b)]
  /\ b >= 2 => 14 + b \in scu90
  /\ b \in 9..12 => 0 \notin scu90

PortInv ==
  /\ pc # "idle" => ~i2c_init_pending
  /\ ~i2c_init_pending => \E b \in Buses : Initialised(b)

\* The bytes before index i are in the buffer unless the call has failed.
BufferInv ==
  call.op = "read" =>
    /\ pc \in {"start", "addr", "restart"} => ret = 0 /\ filled = {}
    /\ pc = "receive" /\ ret = 0 => filled = 0..(i - 1)
    /\ pc \in {"stop", "idle"} /\ ret = 0 => filled = 0..(call.len - 1)

\* The last command on the current bus, before and after the call's own.
OrderInv ==
  LET previous == last[i2c_bus_base_addr]
  IN  IF phase = "issue"
        THEN /\ pc \in {"addr", "restart", "send"} => previous \in {"startW", "tx"}
             /\ pc = "receive" => previous = (IF i = 0 THEN "startR" ELSE "rx")
             /\ pc = "stop" => previous \in {"startW", "tx", "rxlast"}
        ELSE /\ pc = "start" => previous = "startW"
             /\ pc \in {"addr", "send"} => previous = "tx"
             /\ pc = "restart" => previous = "startR"
             /\ pc = "receive" => previous = ReceiveCommand

\* A probe that found no command unanswered has no ACK to see, and no command
\* that may still bring one, until its own START is acknowledged.
ProbeInv ==
  call.op = "probe" /\ quiet /\ "ACK" \notin answers =>
    /\ pc = "start" /\ phase = "issue" => cmd[i2c_bus_base_addr] \notin SendCommands
    /\ pc = "start" => "ACK" \notin isr[i2c_bus_base_addr]
    /\ pc = "start" => "ACK" \notin status
    /\ pc \in {"stop", "idle"} => ret # 0

\* Nothing is pending at a controller that was never initialised, so whatever a
\* call has got beyond its START was polled at one that was.
PolledInv ==
  /\ \A w \in Windows : ~ready[w] => isr[w] = {}
  /\ call.op # "none" => i2c_bus_num \in Buses
  /\ \/ status # {}
     \/ call.op = "probe"
     \/ call.op \in {"read", "write"} /\ pc \notin {"start", "idle"}
     \/ call.op \in {"read", "write"} /\ pc = "idle" /\ ret = 0
     => ready[BusBase(i2c_bus_num)]

\* A command byte that do_slaverw may still read has not been replied to.
ReplyInv ==
  /\ replies <= heard
  /\ pc \in SlavePoints => byte # CommandByte
  /\ /\ \/ pc \in {"ctrlc", "slave_receive"}
        \/ pc = "reply1" /\ phase = "eval"
     /\ "RX" \in isr[i2c_bus_base_addr]
     /\ trbb[i2c_bus_base_addr] = CommandByte
     => replies < heard
  /\ /\ pc = "slave_receive" /\ phase \in {"clear", "eval"}
     /\ "RX" \in status
     /\ trbb[i2c_bus_base_addr] = CommandByte
     => replies < heard

IInv == /\ TypeOK /\ Control /\ StatusInv /\ PortInv
        /\ BufferInv /\ OrderInv /\ ProbeInv /\ PolledInv /\ ReplyInv

-----------------------------------------------------------------------------
(***************************************************************************)
(* Types.                                                                  *)
(***************************************************************************)

USE DEF AST_I2C_REG_BASE, CommandByte, NoBus, NoBase

\* BusBase tells buses apart, and none has the address no bus was given.
LEMMA BusBaseInjective ==
  \A a, b \in 0..13 : /\ BusBase(a) \in Nat \ {NoBase}
                      /\ BusBase(a) = BusBase(b) => a = b
BY DEF BusBase

\* Lengths are natural numbers.
LEMMA LensAreNats == \A n \in Lens \cup {0, 1} : n \in Nat
BY LengthAssumption

LEMMA AlensAreNats == \A n \in Alens \cup {0, 1} : n \in Nat
BY LengthAssumption

\* The first state is well typed.
LEMMA TypeInit == Init => TypeOK
BY BoundAssumption
   DEF Init, TypeOK, StaticsOK, FrameOK, PortsOK, GhostsOK, Bases, Calls

\* Writing a command changes two registers and the phase.
LEMMA TypeWrite ==
  ASSUME TypeOK, NEW c \in MasterCommands \cup {"none", "stx", "srxlast"}, Write(c)
  PROVE  TypeOK'
<1>1. StaticsOK'
  BY DEF TypeOK, StaticsOK, Write, statics
<1>2. FrameOK'
  BY DEF TypeOK, FrameOK, Write
<1>3. PortsOK'
  BY DEF TypeOK, PortsOK, Write
<1>4. GhostsOK'
  BY DEF TypeOK, GhostsOK, Write, ghosts
<1> QED
  BY <1>1, <1>2, <1>3, <1>4 DEF TypeOK

\* Evaluating an answer changes the frame and the count of replies only.
LEMMA TypeEval ==
  ASSUME TypeOK, Eval, FrameOK', replies' \in Nat
  PROVE  TypeOK'
<1>1. StaticsOK'
  BY DEF TypeOK, StaticsOK, Eval, statics
<1>2. PortsOK'
  BY DEF TypeOK, PortsOK, Eval, ports
<1>3. GhostsOK'
  BY DEF TypeOK, GhostsOK, Eval
<1> QED
  BY <1>1, <1>2, <1>3 DEF TypeOK

\* The polling loop counts no further than its limit.
LEMMA TypePoll == TypeOK /\ i2c_interrupt_status => TypeOK'
<1> SUFFICES ASSUME TypeOK, i2c_interrupt_status PROVE TypeOK'
  OBVIOUS
<1> USE DEF i2c_interrupt_status, PollHit, PollMiss, PollTimeout, ClearStatus,
            PollFrame, MorePolls, Count, ClearIsr
<1>1. StaticsOK'
  BY DEF TypeOK, StaticsOK, statics
<1>2. FrameOK'
  <2>1. UNCHANGED <<call, pc, i, ret, filled, byte>>
    OBVIOUS
  <2>2. phase' \in {"issue", "poll", "clear", "eval"} /\ polls' \in 0..PollLimit
    BY BoundAssumption DEF TypeOK, FrameOK
  <2>3. status' \subseteq Events
    BY DEF TypeOK, StaticsOK, PortsOK, FrameOK
  <2> QED
    BY <2>1, <2>2, <2>3 DEF TypeOK, FrameOK
<1>3. PortsOK'
  BY DEF TypeOK, PortsOK
<1>4. GhostsOK'
  BY DEF TypeOK, GhostsOK, ghosts
<1> QED
  BY <1>1, <1>2, <1>3, <1>4 DEF TypeOK

\* The controllers that act are among those an operator can select.
LEMMA LiveAreWindows == LiveWindows \subseteq Windows
BY LiveAssumption DEF LiveWindows, Windows

\* The controllers store event bits and bytes, and count within the bound.
LEMMA TypeHardware == TypeOK /\ Hardware => TypeOK'
<1> SUFFICES ASSUME TypeOK, NEW w \in Windows,
                    \/ \E answer \in Events \ {"RX"} : HwAnswer(w, answer)
                    \/ \E v \in Bytes : HwReceive(w, v) \/ HwSlaveByte(w, v)
             PROVE  TypeOK'
  BY LiveAreWindows DEF Hardware
<1> USE DEF HwAnswer, HwReceive, HwSlaveByte, ByteIn, HwFrame
<1>1. StaticsOK'
  BY DEF TypeOK, StaticsOK, statics
<1>2. FrameOK'
  <2>1. UNCHANGED frame
    OBVIOUS
  <2> QED
    BY <2>1 DEF TypeOK, FrameOK, frame
<1>3. PortsOK'
  BY BytesAssumption DEF TypeOK, PortsOK, Events
<1>4. GhostsOK'
  <2>1. answers' \subseteq Events
    BY DEF TypeOK, GhostsOK
  <2>2. heard' \in 0..MaxHeard /\ UNCHANGED <<quiet, replies>>
    BY DEF TypeOK, GhostsOK
  <2> QED
    BY <2>1, <2>2 DEF TypeOK, GhostsOK
<1> QED
  BY <1>1, <1>2, <1>3, <1>4 DEF TypeOK

\* Initialising a bus keeps the statics and the registers well typed.
LEMMA TypeInitialise ==
  ASSUME TypeOK, NEW b \in Buses, InitIfPending(b) \/ real_i2c_init(b)
  PROVE  /\ i2c_init_pending' \in BOOLEAN /\ i2c_bus_base_addr' \in Bases
         /\ scu90' \subseteq 0..27 /\ ready' \in [Bases -> BOOLEAN]
         /\ isr' \in [Bases -> SUBSET Events]
<1>1. BusBase(b) \in Bases
  BY DEF Bases, Windows
<1>2. PinFunctions(b) \subseteq 0..27
  BY BusesAssumption DEF PinFunctions, TypeOK, StaticsOK
<1> QED
  BY <1>1, <1>2 DEF InitIfPending, real_i2c_init, ClearIsr, TypeOK, StaticsOK, PortsOK

\* So does entering a call of any lengths.
LEMMA TypeEnter ==
  ASSUME TypeOK, NEW op \in {"probe", "read", "write"},
         NEW a \in Alens \cup {0, 1}, NEW n \in Lens \cup {0, 1}, Enter(op, a, n)
  PROVE  /\ FrameOK' /\ GhostsOK'
         /\ UNCHANGED <<cmd, last, trbb>>
<1>1. FrameOK'
  <2>1. call' \in Calls
    BY DEF Enter, Calls
  <2> QED
    BY <2>1 DEF Enter, TypeOK, FrameOK, CallPoints
<1> QED
  BY <1>1 DEF Enter, TypeOK, GhostsOK

\* Every entry point starts from a well-typed frame.
LEMMA TypeOperator == TypeOK /\ Operator => TypeOK'
<1> SUFFICES ASSUME TypeOK, Operator PROVE TypeOK'
  OBVIOUS
<1>1. CASE i2c_probe
  <2>1. i2c_bus_num \in Buses /\ i2c_bus_num' \in Buses
    BY <1>1 DEF i2c_probe, BusSelected, TypeOK, StaticsOK
  <2> QED
    BY <1>1, <2>1, TypeInitialise, TypeEnter
       DEF i2c_probe, TypeOK, StaticsOK, PortsOK
<1>2. ASSUME NEW a \in Alens, NEW n \in Lens, i2c_read(a, n) \/ i2c_write(a, n)
      PROVE  TypeOK'
  <2>1. i2c_bus_num \in Buses /\ i2c_bus_num' \in Buses
    BY <1>2 DEF i2c_read, i2c_write, BusSelected, TypeOK, StaticsOK
  <2> QED
    BY <1>2, <2>1, TypeInitialise, TypeEnter
       DEF i2c_read, i2c_write, TypeOK, StaticsOK, PortsOK
<1>3. ASSUME NEW b \in Buses, do_masterrw(b)
      PROVE  TypeOK'
  BY <1>3, TypeInitialise, TypeEnter DEF do_masterrw, TypeOK, StaticsOK, PortsOK
<1>4. ASSUME NEW b \in Buses, do_slaverw(b)
      PROVE  TypeOK'
  <2>1. StaticsOK' /\ PortsOK'
    BY <1>4, TypeInitialise DEF do_slaverw, TypeOK, StaticsOK, PortsOK
  <2>2. call' \in Calls
    BY <1>4 DEF do_slaverw, Calls
  <2>3. FrameOK' /\ GhostsOK'
    BY <1>4, <2>2, BoundAssumption
       DEF do_slaverw, TypeOK, FrameOK, GhostsOK, SlavePoints
  <2> QED
    BY <2>1, <2>3 DEF TypeOK
<1>5. CASE SlaveBreak \/ SlaveListen
  <2>1. /\ UNCHANGED <<statics, ports, quiet, answers>>
        /\ UNCHANGED <<call, phase, i, polls, status, ret, filled>>
        /\ pc' \in {"idle", "slave_receive"}
        /\ byte' \in {0, byte} /\ heard' \in {0, heard} /\ replies' \in {0, replies}
    BY <1>5 DEF SlaveBreak, SlaveListen, ghosts
  <2>2. StaticsOK' /\ PortsOK'
    BY <2>1 DEF TypeOK, StaticsOK, PortsOK, statics, ports
  <2>3. FrameOK' /\ GhostsOK'
    BY <2>1, BoundAssumption DEF TypeOK, FrameOK, GhostsOK, SlavePoints
  <2> QED
    BY <2>2, <2>3 DEF TypeOK
<1> QED
  BY <1>1, <1>2, <1>3, <1>4, <1>5 DEF Operator

\* Every step of the driver, a controller or the operator keeps the types.
LEMMA TypeStep == TypeOK /\ [Next]_vars => TypeOK'
<1> SUFFICES ASSUME TypeOK, [Next]_vars PROVE TypeOK'
  OBVIOUS
<1>1. CASE UNCHANGED vars
  BY <1>1 DEF vars, statics, frame, ports, ghosts, TypeOK, StaticsOK, FrameOK,
              PortsOK, GhostsOK
<1>2. CASE i2c_start \/ i2c_send_byte \/ i2c_receive_byte
  BY <1>2, TypeWrite DEF i2c_start, i2c_send_byte, i2c_receive_byte,
                         ReceiveCommand, MasterCommands
<1>3. CASE i2c_stop
  BY <1>3 DEF i2c_stop, statics, ghosts, TypeOK, StaticsOK, FrameOK, PortsOK, GhostsOK
<1>4. CASE StartDone \/ ProbeDone \/ AddressDone \/ RestartDone \/ ReplyDone
  <2>1. Eval /\ UNCHANGED <<byte, filled, replies>>
    BY <1>4 DEF StartDone, ProbeDone, AddressDone, RestartDone, ReplyDone,
                GoTo, GiveUp
  <2>2. i' \in Nat /\ ret' \in {0, 1}
    BY <1>4 DEF StartDone, ProbeDone, AddressDone, RestartDone, ReplyDone,
                GoTo, GiveUp, Loop, TypeOK, FrameOK
  <2>3. pc' \in {"idle"} \cup CallPoints \cup SlavePoints
    BY <1>4 DEF StartDone, ProbeDone, AddressDone, RestartDone, ReplyDone,
                GoTo, GiveUp, Loop, AfterAddress, CallPoints, SlavePoints
  <2> QED
    BY <2>1, <2>2, <2>3, TypeEval DEF Eval, TypeOK, FrameOK, GhostsOK
<1>5. CASE SendDone \/ ReceiveDone
  <2>1. Eval /\ UNCHANGED <<byte, replies>>
    BY <1>5 DEF SendDone, ReceiveDone
  <2>2. i' \in Nat /\ ret' \in {0, 1}
    BY <1>5 DEF SendDone, ReceiveDone, Loop, RetAfter, TypeOK, FrameOK
  <2>3. filled' \subseteq Nat
    BY <1>5 DEF SendDone, ReceiveDone, TypeOK, FrameOK
  <2>4. pc' \in CallPoints
    BY <1>5 DEF SendDone, ReceiveDone, Loop, CallPoints
  <2> QED
    BY <2>1, <2>2, <2>3, <2>4, TypeEval DEF Eval, TypeOK, FrameOK, GhostsOK
<1>6. CASE SlaveReceiveDone
  <2>1. Received \in 0..255
    BY DEF Received, TypeOK, FrameOK, PortsOK, StaticsOK
  <2>2. Eval /\ FrameOK' /\ replies' \in Nat
    BY <1>6, <2>1 DEF SlaveReceiveDone, Eval, NextByte, TypeOK, FrameOK,
                      GhostsOK, SlavePoints
  <2> QED
    BY <2>2, TypeEval
<1> QED
  BY <1>1, <1>2, <1>3, <1>4, <1>5, <1>6, TypePoll, TypeHardware, TypeOperator
     DEF Next, CallStep

\* Every reachable state is well typed.
THEOREM TypeCorrect == Spec => []TypeOK
BY TypeInit, TypeStep, PTL DEF Spec

-----------------------------------------------------------------------------
(***************************************************************************)
(* Control and initialisation.                                             *)
(***************************************************************************)

\* Steps of a call between its statements, and steps of the controllers.
InPlace == \/ i2c_start \/ i2c_send_byte \/ i2c_receive_byte
           \/ i2c_interrupt_status \/ Hardware \/ UNCHANGED vars

\* Commands, polling and the hardware leave the call where it is.
LEMMA InPlaceKeeps ==
  InPlace => UNCHANGED <<statics, call, pc, i, ret, filled, byte, replies>>
<1>1. i2c_start \/ i2c_send_byte \/ i2c_receive_byte
        => UNCHANGED <<statics, call, pc, i, ret, filled, byte, replies>>
  BY DEF i2c_start, i2c_send_byte, i2c_receive_byte, Write, ghosts
<1>2. i2c_interrupt_status
        => UNCHANGED <<statics, call, pc, i, ret, filled, byte, replies>>
  BY DEF i2c_interrupt_status, PollHit, PollMiss, PollTimeout, ClearStatus,
         PollFrame, ghosts
<1>3. Hardware => UNCHANGED <<statics, call, pc, i, ret, filled, byte, replies>>
  BY DEF Hardware, HwAnswer, HwReceive, HwSlaveByte, ByteIn, HwFrame, frame
<1> QED
  BY <1>1, <1>2, <1>3 DEF InPlace, vars, frame, ghosts

\* They move the phase only from a point at which something is polled.
LEMMA InPlacePhase ==
  InPlace /\ phase' # phase => /\ pc \notin {"idle", "stop", "ctrlc"} \/ phase # "issue"
                               /\ phase' # "issue"
<1>1. i2c_start \/ i2c_send_byte \/ i2c_receive_byte
        => pc \notin {"idle", "stop", "ctrlc"} /\ phase' = "poll"
  BY DEF i2c_start, i2c_send_byte, i2c_receive_byte, Write
<1>2. i2c_interrupt_status => phase # "issue" /\ phase' \in {"poll", "clear", "eval"}
  BY DEF i2c_interrupt_status, PollHit, PollMiss, PollTimeout, ClearStatus
<1>3. Hardware => UNCHANGED phase
  BY DEF Hardware, HwAnswer, HwReceive, HwSlaveByte, ByteIn, HwFrame, frame
<1> QED
  BY <1>1, <1>2, <1>3 DEF InPlace, vars, frame

\* Loop indexes stay below the lengths, and each point has its phases.
LEMMA ControlStep == TypeOK /\ TypeOK' /\ Control /\ [Next]_vars => Control'
<1> SUFFICES ASSUME TypeOK, TypeOK', Control, [Next]_vars PROVE Control'
  OBVIOUS
<1>1. CASE InPlace
  BY <1>1, InPlaceKeeps, InPlacePhase DEF Control
<1>2. CASE i2c_stop
  BY <1>2 DEF i2c_stop, Control
<1>3. CASE StartDone \/ AddressDone
  <2>1. call.op \in {"read", "write"} /\ call.len \in Nat \ {0}
    BY <1>3 DEF StartDone, AddressDone, Control, SlavePoints, TypeOK, FrameOK, Calls
  <2>2. UNCHANGED call /\ phase' = "issue" /\ i \in Nat
    BY <1>3 DEF StartDone, AddressDone, Eval, TypeOK, FrameOK
  <2>3. \/ pc' = "idle"
        \/ pc' = "addr" /\ i' < call.alen
        \/ pc' = AfterAddress /\ i' = 0
    BY <1>3, <2>2, AlensAreNats
       DEF StartDone, AddressDone, GoTo, GiveUp, Loop, Control, TypeOK, FrameOK, Calls
  <2> QED
    BY <2>1, <2>2, <2>3 DEF AfterAddress, Control
<1>4. CASE ProbeDone \/ RestartDone \/ ReplyDone
  <2>1. call' = call /\ (i' = i \/ pc' = "idle")
    BY <1>4 DEF ProbeDone, RestartDone, ReplyDone, Eval, GoTo, GiveUp
  <2>2. /\ phase' = "issue"
        /\ \/ call.op = "probe" /\ pc' = "stop"
           \/ call.op = "read" /\ i = 0 /\ pc' \in {"receive", "idle"}
           \/ call.op = "slave" /\ pc' \in {"reply1", "ctrlc"}
    BY <1>4 DEF ProbeDone, RestartDone, ReplyDone, Eval, GoTo, GiveUp, Control,
                SlavePoints, TypeOK, FrameOK, Calls
  <2> QED
    BY <2>1, <2>2 DEF Control, SlavePoints
<1>5. CASE SendDone \/ ReceiveDone
  BY <1>5 DEF SendDone, ReceiveDone, Eval, Loop, Control, SlavePoints, TypeOK, FrameOK
<1>6. CASE SlaveReceiveDone
  BY <1>6 DEF SlaveReceiveDone, Eval, Control, SlavePoints
<1>7. CASE i2c_probe \/ (\E a \in Alens, n \in Lens : i2c_read(a, n) \/ i2c_write(a, n))
  BY <1>7, LengthAssumption DEF i2c_probe, i2c_read, i2c_write, Enter, Control
<1>8. CASE \E b \in Buses : do_masterrw(b) \/ do_slaverw(b)
  BY <1>8 DEF do_masterrw, do_slaverw, Enter, Control, SlavePoints
<1>9. CASE SlaveBreak \/ SlaveListen
  BY <1>9 DEF SlaveBreak, SlaveListen, Control, SlavePoints
<1> QED
  BY <1>1, <1>2, <1>3, <1>4, <1>5, <1>6, <1>7, <1>8, <1>9
     DEF Next, CallStep, Operator, InPlace

\* real_i2c_init leaves the selected bus ready.
LEMMA InitialisedAfter ==
  ASSUME TypeOK, NEW b \in Buses, real_i2c_init(b)
  PROVE  Initialised(b)' /\ ~i2c_init_pending'
BY BusesAssumption
   DEF real_i2c_init, Initialised, PinFunctions, TypeOK, StaticsOK, Bases, Windows

\* A bus once made ready stays so: nothing gives its pins away while in use.
LEMMA PortStep == TypeOK /\ PortInv /\ [Next]_vars => PortInv'
<1> SUFFICES ASSUME TypeOK, PortInv, [Next]_vars PROVE PortInv'
  OBVIOUS
<1>1. CASE UNCHANGED statics /\ (pc' # "idle" => pc # "idle")
  BY <1>1 DEF PortInv, Initialised, statics
<1>2. ASSUME NEW b \in Buses, InitIfPending(b) \/ real_i2c_init(b)
      PROVE  PortInv'
  <2>1. CASE real_i2c_init(b)
    BY <2>1, InitialisedAfter DEF PortInv
  <2>2. CASE ~i2c_init_pending
             /\ UNCHANGED <<i2c_bus_base_addr, scu90, isr, ready, i2c_init_pending>>
    BY <2>2 DEF PortInv, Initialised
  <2> QED
    BY <1>2, <2>1, <2>2 DEF InitIfPending
<1>3. CASE InPlace
  BY <1>3, <1>1, InPlaceKeeps DEF statics
<1>4. CASE \/ i2c_stop \/ StartDone \/ ProbeDone \/ AddressDone \/ RestartDone
           \/ SendDone \/ ReceiveDone \/ SlaveReceiveDone \/ ReplyDone
           \/ SlaveBreak \/ SlaveListen
  BY <1>4, <1>1 DEF i2c_stop, StartDone, ProbeDone, AddressDone, RestartDone,
              SendDone, ReceiveDone, SlaveReceiveDone, ReplyDone, SlaveBreak,
              SlaveListen, Eval
<1>5. CASE i2c_probe \/ (\E a \in Alens, n \in Lens : i2c_read(a, n) \/ i2c_write(a, n))
  <2>1. i2c_bus_num \in Buses
    BY <1>5 DEF i2c_probe, i2c_read, i2c_write, BusSelected, TypeOK, StaticsOK
  <2> QED
    BY <1>5, <1>2, <2>1 DEF i2c_probe, i2c_read, i2c_write
<1>6. CASE \E b \in Buses : do_masterrw(b) \/ do_slaverw(b)
  BY <1>6, <1>2 DEF do_masterrw, do_slaverw
<1> QED
  BY <1>3, <1>4, <1>5, <1>6 DEF Next, CallStep, Operator, InPlace

-----------------------------------------------------------------------------
(***************************************************************************)
(* The buffer of i2c_read.                                                 *)
(***************************************************************************)

\* One turn of the receive loop adds the byte at its index or a failure.
LEMMA BufferReceive ==
  TypeOK /\ Control /\ BufferInv /\ ReceiveDone => BufferInv'
<1> SUFFICES ASSUME TypeOK, Control, BufferInv, ReceiveDone, call.op = "read",
                    ret' = 0
             PROVE  /\ pc' = "receive" => filled' = 0..(i' - 1)
                    /\ pc' \in {"stop", "idle"} => filled' = 0..(call.len - 1)
  BY DEF BufferInv, ReceiveDone, Eval, Loop
<1>1. i \in Nat /\ call.len \in Nat /\ i < call.len
  BY DEF Control, ReceiveDone, TypeOK, FrameOK
<1>2. Answered({"RX"}) /\ ret = 0
  BY DEF ReceiveDone, RetAfter
<1>3. filled' = (0..(i - 1)) \cup {i}
  BY <1>2 DEF ReceiveDone, BufferInv
<1>4. filled' = 0..i
  BY <1>1, <1>3
<1>5. \/ pc' = "receive" /\ i' = i + 1
      \/ pc' = "stop" /\ i + 1 = call.len
  BY <1>1 DEF ReceiveDone, Loop
<1> QED
  BY <1>1, <1>4, <1>5

\* No other step touches the buffer of a running i2c_read.
LEMMA BufferStep == TypeOK /\ Control /\ BufferInv /\ [Next]_vars => BufferInv'
<1> SUFFICES ASSUME TypeOK, Control, BufferInv, [Next]_vars PROVE BufferInv'
  OBVIOUS
<1>1. CASE InPlace
  BY <1>1, InPlaceKeeps DEF BufferInv
<1>2. CASE i2c_stop
  BY <1>2 DEF i2c_stop, BufferInv
<1>3. CASE StartDone
  <2>1. call' = call /\ filled' = filled /\ pc = "start"
    BY <1>3 DEF StartDone, Eval, GoTo, GiveUp
  <2>2. CASE Answered({"ACK"})
    <3>1. ret' = ret /\ pc' \in {"addr", AfterAddress}
      BY <1>3, <2>2 DEF StartDone, GoTo
    <3> QED
      BY <2>1, <3>1 DEF BufferInv, AfterAddress
  <2>3. CASE ~Answered({"ACK"})
    BY <1>3, <2>1, <2>3 DEF StartDone, GiveUp, BufferInv
  <2> QED
    BY <2>2, <2>3
<1>4. CASE RestartDone
  <2>1. call' = call /\ filled' = filled /\ pc = "restart" /\ i = 0
    BY <1>4 DEF RestartDone, Eval, GoTo, GiveUp, Control
  <2>2. CASE Answered({"ACK"})
    <3>1. ret' = ret /\ i' = i /\ pc' = "receive"
      BY <1>4, <2>2 DEF RestartDone, GoTo
    <3> QED
      BY <2>1, <3>1 DEF BufferInv
  <2>3. CASE ~Answered({"ACK"})
    BY <1>4, <2>1, <2>3 DEF RestartDone, GiveUp, BufferInv
  <2> QED
    BY <2>2, <2>3
<1>5. CASE AddressDone
  <2>1. UNCHANGED <<call, filled>> /\ pc = "addr"
    BY <1>5 DEF AddressDone, Eval, GiveUp
  <2>2. \/ pc' = "idle" /\ ret' = 1
        \/ ret' = ret /\ pc' \in {"addr", AfterAddress}
    BY <1>5 DEF AddressDone, GiveUp, Loop
  <2> QED
    BY <2>1, <2>2 DEF BufferInv, AfterAddress
<1>6. CASE ReceiveDone
  BY <1>6, BufferReceive
<1>7. CASE ProbeDone \/ SendDone \/ SlaveReceiveDone \/ ReplyDone
  <2>1. call.op # "read"
    BY <1>7 DEF ProbeDone, SendDone, SlaveReceiveDone, ReplyDone, Control
  <2>2. call' = call
    BY <1>7 DEF ProbeDone, SendDone, SlaveReceiveDone, ReplyDone, Eval
  <2> QED
    BY <2>1, <2>2 DEF BufferInv
<1>8. CASE i2c_probe \/ (\E a \in Alens, n \in Lens : i2c_read(a, n) \/ i2c_write(a, n))
  BY <1>8 DEF i2c_probe, i2c_read, i2c_write, Enter, BufferInv
<1>9. CASE \E b \in Buses : do_masterrw(b) \/ do_slaverw(b)
  BY <1>9 DEF do_masterrw, do_slaverw, Enter, BufferInv
<1>10. CASE SlaveBreak \/ SlaveListen
  <2>1. call.op # "read" /\ call' = call
    BY <1>10 DEF SlaveBreak, SlaveListen, Control
  <2> QED
    BY <2>1 DEF BufferInv
<1> QED
  BY <1>1, <1>2, <1>3, <1>4, <1>5, <1>6, <1>7, <1>8, <1>9, <1>10
     DEF Next, CallStep, Operator, InPlace

-----------------------------------------------------------------------------
(***************************************************************************)
(* The order of commands on a bus.                                         *)
(***************************************************************************)

\* The last command on the bus is the one the point of the call writes.
LEMMA OrderWrite ==
  TypeOK /\ Control /\ OrderInv /\ (i2c_start \/ i2c_send_byte \/ i2c_receive_byte)
    => OrderInv'
<1> SUFFICES ASSUME TypeOK, NEW c, Write(c),
                    \/ pc = "start" /\ c = "startW"
                    \/ pc = "restart" /\ c = "startR"
                    \/ pc \in {"addr", "send"} /\ c = "tx"
                    \/ pc = "receive" /\ c = ReceiveCommand
                    \/ pc \in SlavePoints
             PROVE  OrderInv'
  BY DEF i2c_start, i2c_send_byte, i2c_receive_byte, SlavePoints
<1>1. UNCHANGED <<i2c_bus_base_addr, call, pc, i>> /\ phase' = "poll"
  BY DEF Write, statics
<1>2. pc \notin SlavePoints => last'[i2c_bus_base_addr] = c
  BY DEF Write, ReceiveCommand, MasterCommands, TypeOK, StaticsOK, PortsOK, SlavePoints
<1> QED
  BY <1>1, <1>2 DEF OrderInv, ReceiveCommand, SlavePoints

\* An answer moves the call to a point that this command allows.
LEMMA OrderEval ==
  ASSUME TypeOK, Control, OrderInv, Eval, pc # "receive",
         \/ pc' \in {"idle", "ctrlc", "reply0", "reply1"}
         \/ pc' = "addr" /\ pc \in {"start", "addr"}
         \/ pc' \in {"restart", "send", "stop"} /\ pc \in {"start", "addr", "send"}
         \/ pc' = "receive" /\ i' = 0 /\ pc = "restart"
  PROVE  OrderInv'
<1>1. UNCHANGED <<i2c_bus_base_addr, last>> /\ phase = "eval" /\ phase' = "issue"
  BY DEF Eval, statics, ports
<1> QED
  BY <1>1 DEF OrderInv

\* The receive loop ends after the byte flagged as the last.
LEMMA OrderReceive == TypeOK /\ Control /\ OrderInv /\ ReceiveDone => OrderInv'
<1> SUFFICES ASSUME TypeOK, Control, OrderInv, ReceiveDone PROVE OrderInv'
  OBVIOUS
<1>1. UNCHANGED <<i2c_bus_base_addr, last>> /\ phase' = "issue"
  BY DEF ReceiveDone, Eval, statics, ports
<1>2. last[i2c_bus_base_addr] = ReceiveCommand
  BY DEF ReceiveDone, Eval, OrderInv
<1>3. i \in Nat /\ call.len \in Nat /\ i < call.len
  <2>1. call.len \in Lens \cup {0, 1}
    BY DEF TypeOK, FrameOK, Calls
  <2>2. call.len \in Nat
    BY <2>1, LensAreNats
  <2> QED
    BY <2>2 DEF Control, ReceiveDone, TypeOK, FrameOK
<1>4. \/ pc' = "receive" /\ i' = i + 1 /\ i + 1 < call.len
      \/ pc' = "stop" /\ i + 1 = call.len
  BY <1>3 DEF ReceiveDone, Loop
<1> QED
  BY <1>1, <1>2, <1>3, <1>4 DEF OrderInv, ReceiveCommand

\* The order of commands is kept by every step.
LEMMA OrderStep == TypeOK /\ Control /\ OrderInv /\ [Next]_vars => OrderInv'
<1> SUFFICES ASSUME TypeOK, Control, OrderInv, [Next]_vars PROVE OrderInv'
  OBVIOUS
<1>1. CASE i2c_start \/ i2c_send_byte \/ i2c_receive_byte
  BY <1>1, OrderWrite
<1>2. CASE i2c_interrupt_status
  <2>1. phase # "issue" /\ phase' # "issue"
        /\ UNCHANGED <<i2c_bus_base_addr, call, pc, i, last>>
    BY <1>2 DEF i2c_interrupt_status, PollHit, PollMiss, PollTimeout, ClearStatus,
                PollFrame, statics
  <2> QED
    BY <2>1 DEF OrderInv, ReceiveCommand
<1>3. CASE Hardware \/ UNCHANGED vars
  <2>1. UNCHANGED <<i2c_bus_base_addr, call, pc, phase, i, last>>
    BY <1>3 DEF Hardware, HwAnswer, HwReceive, HwSlaveByte, ByteIn, HwFrame,
                vars, statics, frame, ports
  <2> QED
    BY <2>1 DEF OrderInv, ReceiveCommand
<1>4. CASE i2c_stop
  <2>1. pc' = "idle" /\ phase' = "issue"
    BY <1>4 DEF i2c_stop, Control
  <2> QED
    BY <2>1 DEF OrderInv
<1>5. CASE StartDone \/ ProbeDone
  <2>1. pc' \in {"idle", "addr", "restart", "send", "stop"} /\ pc = "start" /\ Eval
    BY <1>5 DEF StartDone, ProbeDone, GoTo, GiveUp, AfterAddress
  <2> QED
    BY <2>1, OrderEval
<1>6. CASE AddressDone \/ SendDone
  <2>1. pc \in {"addr", "send"} /\ Eval
        /\ (pc' \in {"idle", "restart", "send", "stop"} \/ (pc' = "addr" /\ pc = "addr"))
    BY <1>6 DEF AddressDone, SendDone, GiveUp, Loop, AfterAddress
  <2> QED
    BY <2>1, OrderEval
<1>7. CASE RestartDone \/ SlaveReceiveDone \/ ReplyDone
  <2>1. Eval /\ pc # "receive"
        /\ \/ pc' \in {"idle", "ctrlc", "reply0", "reply1"}
           \/ pc' = "receive" /\ i' = 0 /\ pc = "restart"
    BY <1>7 DEF RestartDone, SlaveReceiveDone, ReplyDone, GoTo, GiveUp, Control
  <2> QED
    BY <2>1, OrderEval
<1>8. CASE ReceiveDone
  BY <1>8, OrderReceive
<1>9. CASE Operator
  <2>1. phase' = "issue" /\ pc' \in {"start", "ctrlc", "idle", "slave_receive"}
    BY <1>9 DEF Operator, i2c_probe, i2c_read, i2c_write, do_masterrw, do_slaverw,
                SlaveBreak, SlaveListen, Enter, Control
  <2> QED
    BY <2>1 DEF OrderInv
<1> QED
  BY <1>1, <1>2, <1>3, <1>4, <1>5, <1>6, <1>7, <1>8, <1>9 DEF Next, CallStep

-----------------------------------------------------------------------------
(***************************************************************************)
(* The ACK a probe reports.                                                *)
(***************************************************************************)

\* What polling has read is forgotten at the next command.
LEMMA StatusStep == Control /\ StatusInv /\ [Next]_vars => StatusInv'
<1> SUFFICES ASSUME Control, StatusInv, [Next]_vars PROVE StatusInv'
  OBVIOUS
<1>1. CASE i2c_start \/ i2c_send_byte \/ i2c_receive_byte
  BY <1>1 DEF i2c_start, i2c_send_byte, i2c_receive_byte, Write, StatusInv
<1>2. CASE i2c_interrupt_status
  BY <1>2 DEF i2c_interrupt_status, PollHit, PollMiss, PollTimeout, ClearStatus,
              StatusInv
<1>3. CASE Hardware \/ i2c_stop \/ UNCHANGED vars
  <2>1. UNCHANGED <<phase, status>>
    BY <1>3 DEF Hardware, HwAnswer, HwReceive, HwSlaveByte, ByteIn, HwFrame, i2c_stop,
                vars, frame
  <2> QED
    BY <2>1 DEF StatusInv
<1>4. CASE \/ StartDone \/ ProbeDone \/ AddressDone \/ RestartDone
           \/ SendDone \/ ReceiveDone \/ SlaveReceiveDone \/ ReplyDone
  BY <1>4 DEF StartDone, ProbeDone, AddressDone, RestartDone, SendDone, ReceiveDone,
              SlaveReceiveDone, ReplyDone, Eval, StatusInv
<1>5. CASE Operator
  BY <1>5 DEF Operator, i2c_probe, i2c_read, i2c_write, do_masterrw, do_slaverw,
              SlaveBreak, SlaveListen, Enter, Control, StatusInv
<1> QED
  BY <1>1, <1>2, <1>3, <1>4, <1>5 DEF Next, CallStep

\* The step that enters a probe clears the status, and a quiet bus owes none.
LEMMA ProbeEnter ==
  ASSUME TypeOK, Control, StatusInv, i2c_probe, quiet'
  PROVE  /\ pc' = "start" /\ phase' = "issue"
         /\ cmd'[i2c_bus_base_addr'] \notin SendCommands
         /\ isr'[i2c_bus_base_addr'] = {} /\ status' = {}
<1>1. /\ i2c_bus_num \in Buses /\ pc' = "start" /\ phase' = "issue"
      /\ UNCHANGED <<cmd, status>> /\ cmd[i2c_bus_base_addr'] \notin SendCommands
  BY DEF i2c_probe, Enter, BusSelected, TypeOK, StaticsOK
<1>2. isr'[i2c_bus_base_addr'] = {}
  BY <1>1 DEF i2c_probe, real_i2c_init, ClearIsr, TypeOK, PortsOK, Bases, Windows
<1>3. status = {}
  BY DEF i2c_probe, Enter, Control, StatusInv
<1> QED
  BY <1>1, <1>2, <1>3

\* Until the START is written a quiet bus has no command to answer; after it,
\* an answer on the probe's own bus is one of the probe's.
LEMMA ProbeHardware ==
  TypeOK /\ ProbeInv /\ Hardware => ProbeInv'
<1> SUFFICES ASSUME TypeOK, ProbeInv, NEW w \in Windows,
                    \/ \E answer \in Events \ {"RX"} : HwAnswer(w, answer)
                    \/ \E v \in Bytes : HwReceive(w, v) \/ HwSlaveByte(w, v),
                    call'.op = "probe", quiet', "ACK" \notin answers'
             PROVE  /\ pc' = "start" /\ phase' = "issue"
                         => cmd'[i2c_bus_base_addr'] \notin SendCommands
                    /\ pc' = "start" => "ACK" \notin isr'[i2c_bus_base_addr']
                    /\ pc' = "start" => "ACK" \notin status'
                    /\ pc' \in {"stop", "idle"} => ret' # 0
  BY LiveAreWindows DEF Hardware, ProbeInv
<1>1. /\ UNCHANGED <<call, pc, phase, i2c_bus_base_addr, status, ret, quiet>>
      /\ answers \subseteq answers'
      /\ \A b \in Bases : cmd'[b] \in {cmd[b], "none"}
  BY DEF HwAnswer, HwReceive, HwSlaveByte, ByteIn, HwFrame, statics, frame, TypeOK,
         PortsOK
<1>2. i2c_bus_base_addr \in Bases
  BY DEF TypeOK, StaticsOK
<1>3. /\ pc = "start" /\ phase = "issue" => cmd[i2c_bus_base_addr] \notin SendCommands
      /\ pc = "start" => "ACK" \notin isr[i2c_bus_base_addr]
      /\ pc = "start" => "ACK" \notin status
      /\ pc \in {"stop", "idle"} => ret # 0
  BY <1>1 DEF ProbeInv
<1>4. ASSUME pc = "start"
      PROVE  "ACK" \notin isr'[i2c_bus_base_addr]
  <2>1. CASE \E v \in Bytes : HwReceive(w, v) \/ HwSlaveByte(w, v)
    BY <1>2, <1>3, <1>4, <2>1 DEF HwReceive, HwSlaveByte, ByteIn, TypeOK, PortsOK
  <2>2. ASSUME NEW answer \in Events \ {"RX"}, HwAnswer(w, answer)
        PROVE  "ACK" \notin isr'[i2c_bus_base_addr]
    <3>1. CASE w = i2c_bus_base_addr
      <4>1. OwnCommand(w)
        BY <1>3, <1>4, <2>2, <3>1 DEF OwnCommand, HwAnswer, CallPoints
      <4>2. answer # "ACK"
        BY <2>2, <4>1 DEF HwAnswer
      <4> QED
        BY <1>2, <1>3, <1>4, <2>2, <4>2 DEF HwAnswer, TypeOK, PortsOK
    <3>2. CASE w # i2c_bus_base_addr
      BY <1>2, <1>3, <1>4, <2>2, <3>2 DEF HwAnswer, TypeOK, PortsOK
    <3> QED
      BY <3>1, <3>2
  <2> QED
    BY <2>1, <2>2
<1> QED
  BY <1>1, <1>2, <1>3, <1>4 DEF SendCommands

\* No other step lets a probe see an ACK that its own START did not bring.
LEMMA ProbeStep ==
  TypeOK /\ Control /\ StatusInv /\ ProbeInv /\ [Next]_vars => ProbeInv'
<1> SUFFICES ASSUME TypeOK, Control, StatusInv, ProbeInv, [Next]_vars PROVE ProbeInv'
  OBVIOUS
<1>1. CASE i2c_start \/ i2c_send_byte \/ i2c_receive_byte
  <2>1. /\ UNCHANGED <<call, pc, isr, i2c_bus_base_addr, status, ret, quiet, answers>>
        /\ phase' = "poll"
    BY <1>1 DEF i2c_start, i2c_send_byte, i2c_receive_byte, Write, statics, ghosts
  <2> QED
    BY <2>1 DEF ProbeInv
<1>2. CASE i2c_interrupt_status
  <2>1. /\ UNCHANGED <<call, pc, i2c_bus_base_addr, ret, quiet, answers>>
        /\ phase' # "issue"
    BY <1>2 DEF i2c_interrupt_status, PollHit, PollMiss, PollTimeout, ClearStatus,
                PollFrame, statics, ghosts
  <2>2. status' \in {status, isr[i2c_bus_base_addr], {}}
    BY <1>2 DEF i2c_interrupt_status, PollHit, PollMiss, PollTimeout, ClearStatus
  <2>3. isr' = isr \/ isr'[i2c_bus_base_addr] = {}
    BY <1>2 DEF i2c_interrupt_status, PollHit, PollMiss, PollTimeout, ClearStatus,
                ClearIsr, TypeOK, StaticsOK, PortsOK
  <2> QED
    BY <2>1, <2>2, <2>3 DEF ProbeInv
<1>3. CASE Hardware
  BY <1>3, ProbeHardware
<1>4. CASE i2c_stop
  <2>1. UNCHANGED <<call, ret, quiet, answers>> /\ pc = "stop" /\ pc' = "idle"
    BY <1>4 DEF i2c_stop, ghosts
  <2> QED
    BY <2>1 DEF ProbeInv
<1>5. CASE ProbeDone
  BY <1>5 DEF ProbeDone, Eval, Answered, ProbeInv
<1>6. CASE \/ StartDone \/ AddressDone \/ RestartDone \/ SendDone \/ ReceiveDone
           \/ SlaveReceiveDone \/ ReplyDone \/ SlaveBreak \/ SlaveListen
  <2>1. call' = call
    BY <1>6 DEF StartDone, AddressDone, RestartDone, SendDone, ReceiveDone,
                SlaveReceiveDone, ReplyDone, SlaveBreak, SlaveListen, Eval
  <2>2. call.op # "probe"
    BY <1>6 DEF StartDone, AddressDone, RestartDone, SendDone, ReceiveDone,
                SlaveReceiveDone, ReplyDone, SlaveBreak, SlaveListen, Control,
                SlavePoints
  <2> QED
    BY <2>1, <2>2 DEF ProbeInv
<1>7. CASE i2c_probe
  BY <1>7, ProbeEnter DEF ProbeInv
<1>8. CASE \/ \E a \in Alens, n \in Lens : i2c_read(a, n) \/ i2c_write(a, n)
           \/ \E b \in Buses : do_masterrw(b) \/ do_slaverw(b)
  <2>1. call'.op # "probe"
    BY <1>8 DEF i2c_read, i2c_write, do_masterrw, do_slaverw, Enter
  <2> QED
    BY <2>1 DEF ProbeInv
<1>9. CASE UNCHANGED vars
  BY <1>9 DEF ProbeInv, vars, statics, frame, ports, ghosts
<1> QED
  BY <1>1, <1>2, <1>3, <1>4, <1>5, <1>6, <1>7, <1>8, <1>9 DEF Next, CallStep, Operator

-----------------------------------------------------------------------------
(***************************************************************************)
(* The controller a call polls.                                            *)
(***************************************************************************)

\* Only an initialised controller can have an interrupt pending.
LEMMA PendingStep ==
  TypeOK /\ PolledInv /\ [Next]_vars
    => \A w \in Windows : /\ ready[w] => ready'[w]
                          /\ ~ready'[w] => isr'[w] = {}
<1> SUFFICES ASSUME TypeOK, PolledInv, [Next]_vars, NEW w \in Windows
             PROVE  (ready[w] => ready'[w]) /\ (~ready'[w] => isr'[w] = {})
  OBVIOUS
<1>0. w \in Bases /\ (~ready[w] => isr[w] = {})
  BY DEF PolledInv, Bases
<1>1. CASE UNCHANGED <<ready, isr>>
  BY <1>0, <1>1
<1>2. CASE i2c_interrupt_status
  <2>1. ready' = ready /\ (isr' = isr \/ isr' = ClearIsr(i2c_bus_base_addr))
    BY <1>2 DEF i2c_interrupt_status, PollHit, PollMiss, PollTimeout, ClearStatus,
                PollFrame, statics
  <2> QED
    BY <1>0, <2>1 DEF ClearIsr, TypeOK, PortsOK
<1>3. CASE Hardware
  <2>1. PICK u : /\ ready[u] /\ ready' = ready
                 /\ \E e : isr' = [isr EXCEPT ![u] = @ \cup {e}]
    BY <1>3 DEF Hardware, HwAnswer, HwReceive, HwSlaveByte, ByteIn, HwFrame, statics
  <2> QED
    BY <1>0, <2>1 DEF TypeOK, PortsOK
<1>4. ASSUME NEW b \in Int, InitIfPending(b) \/ real_i2c_init(b)
      PROVE  (ready[w] => ready'[w]) /\ (~ready'[w] => isr'[w] = {})
  <2>1. \/ ready' = ready /\ isr' = isr
        \/ /\ ready' = [ready EXCEPT ![BusBase(b)] = TRUE]
           /\ isr' = [isr EXCEPT ![BusBase(b)] = {}]
    BY <1>4 DEF InitIfPending, real_i2c_init, ClearIsr
  <2> QED
    BY <1>0, <2>1 DEF TypeOK, StaticsOK, PortsOK
<1>5. CASE \/ i2c_probe \/ \E a \in Alens, n \in Lens : i2c_read(a, n) \/ i2c_write(a, n)
           \/ \E b \in Buses : do_masterrw(b) \/ do_slaverw(b)
  <2>1. \E b \in Int : InitIfPending(b) \/ real_i2c_init(b)
    BY <1>5, BusesAssumption
       DEF i2c_probe, i2c_read, i2c_write, do_masterrw, do_slaverw, BusSelected,
           TypeOK, StaticsOK
  <2> QED
    BY <1>4, <2>1
<1>6. CASE \/ i2c_start \/ i2c_send_byte \/ i2c_receive_byte \/ i2c_stop
           \/ StartDone \/ ProbeDone \/ AddressDone \/ RestartDone
           \/ SendDone \/ ReceiveDone \/ SlaveReceiveDone \/ ReplyDone
           \/ SlaveBreak \/ SlaveListen \/ UNCHANGED vars
  <2>1. UNCHANGED <<ready, isr>>
    BY <1>6 DEF i2c_start, i2c_send_byte, i2c_receive_byte, Write, i2c_stop,
                StartDone, ProbeDone, AddressDone, RestartDone, SendDone, ReceiveDone,
                SlaveReceiveDone, ReplyDone, Eval, SlaveBreak, SlaveListen, vars,
                statics, ports
  <2> QED
    BY <1>1, <2>1
<1> QED
  BY <1>2, <1>3, <1>5, <1>6 DEF Next, CallStep, Operator

\* What a call has got beyond its START by.
Polled == \/ status # {}
          \/ call.op = "probe"
          \/ call.op \in {"read", "write"} /\ pc \notin {"start", "idle"}
          \/ call.op \in {"read", "write"} /\ pc = "idle" /\ ret = 0

\* A step that makes a call one of these polled an initialised controller.
LEMMA PolledKept ==
  ASSUME TypeOK, PolledInv, [Next]_vars, i2c_bus_num' = i2c_bus_num,
         call'.op # "none" => i2c_bus_num \in Buses,
         Polled' => i2c_bus_num \in Buses /\ ready[BusBase(i2c_bus_num)]
  PROVE  PolledInv'
<1>1. \A w \in Windows : /\ ready[w] => ready'[w]
                         /\ ~ready'[w] => isr'[w] = {}
  BY PendingStep
<1>2. ASSUME Polled' PROVE ready'[BusBase(i2c_bus_num')]
  <2>1. BusBase(i2c_bus_num) \in Windows /\ ready[BusBase(i2c_bus_num)]
    BY <1>2 DEF Windows
  <2>2. BusBase(i2c_bus_num') = BusBase(i2c_bus_num)
    OBVIOUS
  <2> QED
    BY <1>1, <2>1, <2>2
<1> QED
  BY <1>1, <1>2 DEF PolledInv, Polled

\* An interrupt that was seen was pending, so its controller was initialised.
LEMMA PolledStep ==
  TypeOK /\ Control /\ StatusInv /\ PolledInv /\ [Next]_vars => PolledInv'
<1> SUFFICES ASSUME TypeOK, Control, StatusInv, PolledInv, [Next]_vars PROVE PolledInv'
  OBVIOUS
<1>0. /\ call.op # "none" => i2c_bus_num \in Buses
      /\ pc # "idle" \/ phase # "issue" => call.op # "none"
      /\ Polled => ready[BusBase(i2c_bus_num)]
      /\ Polled => i2c_bus_num \in Buses
  BY DEF PolledInv, Polled, Control, StatusInv
<1>1. CASE i2c_start \/ i2c_send_byte \/ i2c_receive_byte \/ Hardware \/ UNCHANGED vars
  <2>1. UNCHANGED <<i2c_bus_num, call, pc, ret, status>>
    BY <1>1 DEF i2c_start, i2c_send_byte, i2c_receive_byte, Write, Hardware, HwAnswer,
                HwReceive, HwSlaveByte, ByteIn, HwFrame, vars, statics, frame
  <2>2. Polled' => Polled
    BY <2>1 DEF Polled
  <2> QED
    BY <1>0, <2>1, <2>2, PolledKept
<1>2. CASE i2c_interrupt_status
  <2>1. UNCHANGED <<i2c_bus_num, call, pc, ret>> /\ phase # "issue"
    BY <1>2 DEF i2c_interrupt_status, PollHit, PollMiss, PollTimeout, ClearStatus,
                PollFrame, statics
  <2>2. i2c_bus_num \in Buses
    BY <1>0, <2>1
  <2>3. CASE PollHit
    <3>1. ready[BusBase(i2c_bus_num)]
      BY <2>2, <2>3 DEF PollHit, Disr, PolledInv, Windows
    <3> QED
      BY <2>1, <2>2, <3>1, PolledKept
  <2>4. CASE ~PollHit
    <3>1. status' \in {status, {}}
      BY <1>2, <2>4 DEF i2c_interrupt_status, PollMiss, PollTimeout, ClearStatus
    <3>2. Polled' => Polled
      BY <2>1, <3>1 DEF Polled
    <3> QED
      BY <1>0, <2>1, <2>2, <3>2, PolledKept
  <2> QED
    BY <2>3, <2>4
<1>3. CASE i2c_stop
  <2>1. UNCHANGED <<i2c_bus_num, call, ret, status>> /\ pc = "stop" /\ pc' = "idle"
    BY <1>3 DEF i2c_stop, statics
  <2>2. Polled' => Polled
    BY <2>1 DEF Polled
  <2> QED
    BY <1>0, <2>1, <2>2, PolledKept
<1>4. CASE \/ StartDone \/ ProbeDone \/ AddressDone \/ RestartDone
           \/ SendDone \/ ReceiveDone \/ SlaveReceiveDone \/ ReplyDone
  <2>1. UNCHANGED <<i2c_bus_num, call>> /\ status' = {} /\ phase = "eval"
    BY <1>4 DEF StartDone, ProbeDone, AddressDone, RestartDone, SendDone, ReceiveDone,
                SlaveReceiveDone, ReplyDone, Eval, statics
  <2>2. ASSUME call.op \in {"read", "write"}, pc = "start",
               ~(pc' = "idle" /\ ret' = 1)
        PROVE  status # {}
    BY <1>4, <2>2 DEF StartDone, ProbeDone, AddressDone, RestartDone, SendDone,
                ReceiveDone, SlaveReceiveDone, ReplyDone, GiveUp, Answered
  <2>3. pc # "idle"
    BY <2>1 DEF Control
  <2>4. Polled' => Polled
    BY <2>1, <2>2, <2>3 DEF Polled
  <2> QED
    BY <1>0, <2>1, <2>4, PolledKept
<1>5. CASE \E a \in Alens, n \in Lens : i2c_read(a, n) \/ i2c_write(a, n)
  <2>1. /\ i2c_bus_num \in Buses /\ i2c_bus_num' = i2c_bus_num /\ pc' = "start"
        /\ call'.op \in {"read", "write"} /\ status' = {}
    BY <1>5 DEF i2c_read, i2c_write, BusSelected, Enter, TypeOK, StaticsOK, Control,
                StatusInv
  <2>2. ~Polled'
    BY <2>1 DEF Polled
  <2> QED
    BY <2>1, <2>2, PolledKept
<1>6. CASE \/ i2c_probe \/ \E b \in Buses : do_masterrw(b) \/ do_slaverw(b)
  <2>1. /\ i2c_bus_num' \in Buses /\ status' = {}
        /\ \/ call'.op = "read" /\ pc' = "start"
           \/ call'.op = "slave"
           \/ call'.op = "probe" /\ real_i2c_init(i2c_bus_num')
    BY <1>6 DEF i2c_probe, do_masterrw, do_slaverw, BusSelected, Enter, TypeOK,
                StaticsOK, Control, StatusInv
  <2>2. real_i2c_init(i2c_bus_num') => ready'[BusBase(i2c_bus_num')]
    BY <2>1 DEF real_i2c_init, TypeOK, StaticsOK, Bases, Windows
  <2>3. \A w \in Windows : ~ready'[w] => isr'[w] = {}
    BY PendingStep
  <2> QED
    BY <2>1, <2>2, <2>3 DEF PolledInv
<1>7. CASE SlaveBreak \/ SlaveListen
  <2>1. UNCHANGED <<i2c_bus_num, call, ret, status>> /\ call.op = "slave"
    BY <1>7 DEF SlaveBreak, SlaveListen, statics, Control, TypeOK, FrameOK, Calls
  <2>2. Polled' => Polled
    BY <2>1 DEF Polled
  <2> QED
    BY <1>0, <2>1, <2>2, PolledKept
<1> QED
  BY <1>1, <1>2, <1>3, <1>4, <1>5, <1>6, <1>7 DEF Next, CallStep, Operator

-----------------------------------------------------------------------------
(***************************************************************************)
(* Replies of do_slaverw.                                                  *)
(***************************************************************************)

\* Points where a command byte in the buffer has not been looked at.
MayRead == pc \in {"ctrlc", "slave_receive"} \/ (pc = "reply1" /\ phase = "eval")

\* An unread command byte leaves a reply owed.
Owed == trbb[i2c_bus_base_addr] = CommandByte => replies < heard

\* ReplyInv in the form the steps below use.
LEMMA ReplyInvParts ==
  ReplyInv <=> /\ replies <= heard
               /\ pc \in SlavePoints => byte # CommandByte
               /\ MayRead /\ "RX" \in isr[i2c_bus_base_addr] => Owed
               /\ pc = "slave_receive" /\ phase \in {"clear", "eval"} /\ "RX" \in status
                    => Owed
BY DEF ReplyInv, MayRead, Owed

\* A byte that arrives at a point of a slave session is counted if it is a
\* command byte; one that arrives elsewhere leaves the buffer in use alone.
LEMMA ReplyHardware == TypeOK /\ Control /\ ReplyInv /\ Hardware => ReplyInv'
<1> SUFFICES ASSUME TypeOK, Control, ReplyInv, NEW w \in Windows,
                    \/ \E answer \in Events \ {"RX"} : HwAnswer(w, answer)
                    \/ \E v \in Bytes : HwReceive(w, v) \/ HwSlaveByte(w, v)
             PROVE  ReplyInv'
  BY LiveAreWindows DEF Hardware
<1>1. UNCHANGED <<call, pc, phase, status, byte, replies, i2c_bus_base_addr>>
  BY DEF HwAnswer, HwReceive, HwSlaveByte, ByteIn, HwFrame, frame, statics
<1>2. /\ replies \in Nat /\ heard \in Nat /\ heard' \in Nat
      /\ replies <= heard /\ heard <= heard'
  BY DEF TypeOK, GhostsOK, ReplyInv, HwAnswer, HwReceive, HwSlaveByte, ByteIn
<1>3. CASE \E answer \in Events \ {"RX"} : HwAnswer(w, answer)
  <2>1. UNCHANGED <<trbb, heard>>
        /\ ("RX" \in isr'[i2c_bus_base_addr] => "RX" \in isr[i2c_bus_base_addr])
    BY <1>3 DEF HwAnswer, TypeOK, StaticsOK, PortsOK
  <2> QED
    BY <1>1, <2>1, ReplyInvParts DEF ReplyInv
<1>4. CASE \E v \in Bytes : HwReceive(w, v) \/ HwSlaveByte(w, v)
  <2>1. PICK v \in Bytes : ByteIn(w, v)
    BY <1>4 DEF HwReceive, HwSlaveByte
  <2>2. CASE w # i2c_bus_base_addr
    <3>1. heard' = heard
          /\ isr'[i2c_bus_base_addr] = isr[i2c_bus_base_addr]
          /\ trbb'[i2c_bus_base_addr] = trbb[i2c_bus_base_addr]
      BY <2>1, <2>2 DEF ByteIn, TypeOK, StaticsOK, PortsOK
    <3> QED
      BY <1>1, <3>1 DEF ReplyInv
  <2>3. CASE w = i2c_bus_base_addr
    <3>1. trbb'[i2c_bus_base_addr] = v
      BY <2>1, <2>3 DEF ByteIn, TypeOK, StaticsOK, PortsOK
    <3>2. ASSUME pc \in SlavePoints, v = CommandByte
          PROVE  replies < heard'
      <4>1. call.op = "slave" /\ pc # "idle"
        BY <3>2 DEF Control, SlavePoints, TypeOK, FrameOK, Calls
      <4> QED
        BY <1>2, <2>1, <2>3, <3>2, <4>1 DEF ByteIn
    <3>3. pc \in SlavePoints => Owed'
      BY <1>1, <3>1, <3>2 DEF Owed
    <3>4. MayRead' => pc \in SlavePoints
      BY <1>1 DEF MayRead, SlavePoints
    <3>5. /\ replies' <= heard'
          /\ pc' \in SlavePoints => byte' # CommandByte
      BY <1>1, <1>2 DEF ReplyInv
    <3> QED
      BY <1>1, <3>3, <3>4, <3>5 DEF ReplyInv, MayRead, Owed, SlavePoints
  <2> QED
    BY <2>2, <2>3
<1> QED
  BY <1>3, <1>4

\* Polling neither loses nor invents a reply owed.
LEMMA ReplyPoll ==
  TypeOK /\ Control /\ ReplyInv /\ i2c_interrupt_status => ReplyInv'
<1> SUFFICES ASSUME TypeOK, Control, ReplyInv, i2c_interrupt_status PROVE ReplyInv'
  OBVIOUS
<1>1. UNCHANGED <<pc, byte, replies, heard, trbb, i2c_bus_base_addr>>
  BY DEF i2c_interrupt_status, PollHit, PollMiss, PollTimeout, ClearStatus,
         PollFrame, statics, ghosts
<1>2. CASE PollHit \/ PollMiss \/ PollTimeout
  <2>1. isr' = isr /\ phase = "poll" /\ phase' \in {"poll", "clear"}
        /\ (phase' = "clear" => status' \in {isr[i2c_bus_base_addr], {}})
    BY <1>2 DEF PollHit, PollMiss, PollTimeout
  <2> QED
    BY <1>1, <2>1 DEF ReplyInv
<1>3. CASE ClearStatus
  <2>1. /\ isr'[i2c_bus_base_addr] = {} /\ status' = status
        /\ phase = "clear" /\ phase' = "eval"
    BY <1>3 DEF ClearStatus, ClearIsr, TypeOK, StaticsOK, PortsOK
  <2> QED
    BY <1>1, <2>1 DEF ReplyInv
<1> QED
  BY <1>2, <1>3 DEF i2c_interrupt_status

\* A command byte received is replied to once and forgotten.
LEMMA ReplyReceive ==
  TypeOK /\ ReplyInv /\ SlaveReceiveDone => ReplyInv'
<1> SUFFICES ASSUME TypeOK, ReplyInv, SlaveReceiveDone PROVE ReplyInv'
  OBVIOUS
<1>1. /\ UNCHANGED <<heard, trbb, isr, i2c_bus_base_addr>>
      /\ pc = "slave_receive" /\ phase = "eval" /\ phase' = "issue"
  BY DEF SlaveReceiveDone, Eval, statics, ports
<1>2. byte' # CommandByte
  BY DEF SlaveReceiveDone, NextByte
<1>3. CASE Received = CommandByte
  <2>1. "RX" \in status /\ trbb[i2c_bus_base_addr] = CommandByte
    BY <1>1, <1>3 DEF Received, Answered, ReplyInv, SlavePoints
  <2>2. replies < heard
    BY <1>1, <2>1 DEF ReplyInv
  <2>3. pc' = "reply0" /\ replies' = replies + 1 /\ replies \in Nat /\ heard \in Nat
    BY <1>3 DEF SlaveReceiveDone, TypeOK, GhostsOK
  <2> QED
    BY <1>1, <1>2, <2>2, <2>3 DEF ReplyInv
<1>4. CASE Received # CommandByte
  <2>1. pc' = "ctrlc" /\ replies' = replies
    BY <1>4 DEF SlaveReceiveDone
  <2> QED
    BY <1>1, <1>2, <2>1 DEF ReplyInv
<1> QED
  BY <1>3, <1>4

\* Calls other than a slave session stay away from its loop.
LEMMA ReplyElsewhere ==
  ASSUME ReplyInv, pc' \in {"idle"} \cup CallPoints, UNCHANGED <<replies, heard>>
  PROVE  ReplyInv'
BY DEF ReplyInv, CallPoints, SlavePoints

\* No step leaves a command byte that could be replied to twice.
LEMMA ReplyStep == TypeOK /\ TypeOK' /\ Control /\ ReplyInv /\ [Next]_vars => ReplyInv'
<1> SUFFICES ASSUME TypeOK, TypeOK', Control, ReplyInv, [Next]_vars PROVE ReplyInv'
  OBVIOUS
<1>1. CASE i2c_start \/ i2c_send_byte \/ i2c_receive_byte \/ UNCHANGED vars
  <2>1. /\ UNCHANGED <<pc, byte, replies, heard, trbb, isr, i2c_bus_base_addr, status>>
        /\ phase' \in {phase, "poll"}
    BY <1>1 DEF i2c_start, i2c_send_byte, i2c_receive_byte, Write, statics, ghosts,
                vars, frame, ports
  <2> QED
    BY <2>1 DEF ReplyInv, SlavePoints
<1>2. CASE i2c_interrupt_status
  BY <1>2, ReplyPoll
<1>3. CASE Hardware
  BY <1>3, ReplyHardware
<1>4. CASE i2c_stop
  BY <1>4, ReplyElsewhere DEF i2c_stop, ghosts
<1>5. CASE \/ StartDone \/ ProbeDone \/ AddressDone \/ RestartDone
           \/ SendDone \/ ReceiveDone
  <2>1. pc' \in {"idle"} \cup CallPoints
    BY <1>5 DEF StartDone, ProbeDone, AddressDone, RestartDone, SendDone,
                ReceiveDone, GoTo, GiveUp, Loop, AfterAddress, CallPoints
  <2>2. UNCHANGED <<replies, heard>>
    BY <1>5 DEF StartDone, ProbeDone, AddressDone, RestartDone, SendDone,
                ReceiveDone, GoTo, GiveUp, Eval
  <2> QED
    BY <2>1, <2>2, ReplyElsewhere
<1>6. CASE SlaveReceiveDone
  BY <1>6, ReplyReceive
<1>7. CASE ReplyDone
  <2>1. /\ UNCHANGED <<byte, replies, heard, trbb, isr, i2c_bus_base_addr>>
        /\ phase = "eval" /\ phase' = "issue"
        /\ (pc = "reply0" /\ pc' = "reply1") \/ (pc = "reply1" /\ pc' = "ctrlc")
    BY <1>7 DEF ReplyDone, Eval, GoTo, statics, ports
  <2> QED
    BY <2>1 DEF ReplyInv, SlavePoints
<1>8. CASE i2c_probe \/ (\E a \in Alens, n \in Lens : i2c_read(a, n) \/ i2c_write(a, n))
  BY <1>8, ReplyElsewhere DEF i2c_probe, i2c_read, i2c_write, Enter, CallPoints
<1>9. CASE \E b \in Buses : do_masterrw(b)
  BY <1>9, ReplyElsewhere DEF do_masterrw, Enter, CallPoints
<1>10. ASSUME NEW b \in Buses, do_slaverw(b)
       PROVE  ReplyInv'
  <2>1. isr'[i2c_bus_base_addr'] = {}
    BY <1>10 DEF do_slaverw, real_i2c_init, ClearIsr, TypeOK, PortsOK, Bases, Windows
  <2>2. /\ pc' = "ctrlc" /\ byte' = 0 /\ heard' = 0 /\ replies' = 0
    BY <1>10 DEF do_slaverw
  <2> QED
    BY <2>1, <2>2 DEF ReplyInv
<1>11. CASE SlaveBreak
  BY <1>11 DEF SlaveBreak, ReplyInv
<1>12. CASE SlaveListen
  <2>1. /\ UNCHANGED <<byte, replies, heard, trbb, isr, i2c_bus_base_addr, phase>>
        /\ pc = "ctrlc" /\ pc' = "slave_receive" /\ phase = "issue"
    BY <1>12 DEF SlaveListen, Control, statics, ports, ghosts
  <2> QED
    BY <2>1 DEF ReplyInv, SlavePoints
<1> QED
  BY <1>1, <1>2, <1>3, <1>4, <1>5, <1>6, <1>7, <1>8, <1>9, <1>10, <1>11, <1>12
     DEF Next, CallStep, Operator

-----------------------------------------------------------------------------
(***************************************************************************)
(* The invariant and what follows from it.                                 *)
(***************************************************************************)

\* The inductive invariant holds at first ...
LEMMA InvInit == Init => IInv
<1> SUFFICES ASSUME Init PROVE IInv
  OBVIOUS
<1>1. TypeOK
  BY TypeInit
<1>2. Control /\ StatusInv /\ PortInv
  BY DEF Init, Control, StatusInv, PortInv, SlavePoints
<1>3. BufferInv /\ OrderInv /\ ProbeInv /\ PolledInv /\ ReplyInv
  BY DEF Init, BufferInv, OrderInv, ProbeInv, PolledInv, ReplyInv, SlavePoints, Bases
<1> QED
  BY <1>1, <1>2, <1>3 DEF IInv

\* ... and is kept by every step.
LEMMA InvStep == IInv /\ [Next]_vars => IInv'
BY TypeStep, ControlStep, StatusStep, PortStep, BufferStep, OrderStep, ProbeStep,
   PolledStep, ReplyStep DEF IInv

\* The inductive invariant of the driver and its controllers.
THEOREM Invariance == Spec => []IInv
BY InvInit, InvStep, PTL DEF Spec

\* The registers a running call writes belong to an initialised controller with
\* its pins selected.
THEOREM PortsReady == Spec => []PortReady
<1>1. IInv => PortReady
  BY DEF IInv, PortInv, PortReady, Initialised
<1> QED
  BY <1>1, Invariance, PTL

\* i2c_read does not report success over a buffer with a hole in it.
THEOREM BufferFilled == Spec => []SuccessFillsBuffer
<1>1. IInv => SuccessFillsBuffer
  BY DEF IInv, BufferInv, SuccessFillsBuffer
<1> QED
  BY <1>1, Invariance, PTL

\* i2c_read flags no byte as the last while it has others to ask for.
THEOREM OpenRead == Spec => []ReadStaysOpen
<1>1. IInv => ReadStaysOpen
  BY DEF IInv, OrderInv, ReadStaysOpen
<1> QED
  BY <1>1, Invariance, PTL

\* A call for a bus that was never initialised does not succeed, though its
\* commands go to the registers of another one, whose controller answers.
THEOREM SuccessReady == Spec => []SuccessOnReadyBus
<1>1. IInv => SuccessOnReadyBus
  BY DEF IInv, PolledInv, SuccessOnReadyBus
<1> QED
  BY <1>1, Invariance, PTL

\* i2c_probe does not report a chip for a status that earlier calls left behind:
\* if none of their commands was left unanswered, its own START was acknowledged.
THEOREM ProbeSound == Spec => []ProbeFindsChip
<1>1. IInv => ProbeFindsChip
  BY DEF IInv, ProbeInv, ProbeFindsChip
<1> QED
  BY <1>1, Invariance, PTL

\* do_slaverw replies at most once to each command byte it was sent.
THEOREM RepliesOwed == Spec => []NoPhantomReply
<1>1. IInv => NoPhantomReply
  BY DEF IInv, ReplyInv, NoPhantomReply
<1> QED
  BY <1>1, Invariance, PTL

-----------------------------------------------------------------------------
(***************************************************************************)
(* A call comes to its end.                                                *)
(***************************************************************************)

\* A command takes n steps; s of those of the present one have been taken.
LEMMA CommandSpent ==
  ASSUME NEW c \in Nat, NEW d \in Nat, d < c, NEW n \in Nat, NEW s \in 0..n - 1
  PROVE  d * n \in 0..(c * n - s) - 1
<1>1. PICK e \in Nat : c = d + 1 + e
  <2>1. c - d - 1 \in Nat /\ c = d + 1 + (c - d - 1)
    OBVIOUS
  <2> QED
    BY <2>1
<1>2. d * n \in Nat /\ e * n \in Nat
  OBVIOUS
<1>3. c * n = d * n + n + e * n
  BY <1>1
<1> QED
  BY <1>2, <1>3

LEMMA StepSpent ==
  ASSUME NEW c \in Nat, c > 0, NEW n \in Nat, NEW s \in Nat, NEW t \in 0..n - 1, s < t
  PROVE  c * n - t \in 0..(c * n - s) - 1
<1>1. PICK e \in Nat : c = 1 + e
  <2>1. c - 1 \in Nat /\ c = 1 + (c - 1)
    OBVIOUS
  <2> QED
    BY <2>1
<1>2. e * n \in Nat
  OBVIOUS
<1>3. c * n = n + e * n
  BY <1>1
<1> QED
  BY <1>2, <1>3

\* There is a command left wherever a call polls, and none where it waits.
LEMMA CommandsCounted ==
  ASSUME TypeOK, Control
  PROVE  /\ CommandsLeft \in Nat
         /\ pc \notin {"idle", "ctrlc"} => CommandsLeft > 0
<1>1. call.alen \in Nat /\ call.len \in Nat /\ i \in Nat
  BY AlensAreNats, LensAreNats DEF TypeOK, FrameOK, Calls
<1>2. pc \in {"idle", "start", "addr", "restart", "receive", "send", "stop",
              "ctrlc", "slave_receive", "reply0", "reply1"}
  BY DEF TypeOK, FrameOK, CallPoints, SlavePoints
<1>3. CASE pc = "addr"
  BY <1>1, <1>3 DEF CommandsLeft, Control
<1>4. CASE pc \in {"receive", "send"}
  BY <1>1, <1>4 DEF CommandsLeft, Control
<1>5. CASE pc \in {"start", "restart"}
  BY <1>1, <1>5 DEF CommandsLeft
<1>6. CASE pc \in {"idle", "stop", "ctrlc", "slave_receive", "reply0", "reply1"}
  BY <1>6 DEF CommandsLeft
<1> QED
  BY <1>2, <1>3, <1>4, <1>5, <1>6

LEMMA CommandsCountedNext ==
  ASSUME TypeOK', Control'
  PROVE  CommandsLeft' \in Nat
<1>1. call.alen' \in Nat /\ call.len' \in Nat /\ i' \in Nat
  BY AlensAreNats, LensAreNats DEF TypeOK, FrameOK, Calls
<1>2. CASE pc' = "addr"
  BY <1>1, <1>2 DEF CommandsLeft, Control
<1>3. CASE pc' \in {"receive", "send"}
  BY <1>1, <1>3 DEF CommandsLeft, Control
<1>4. CASE pc' \in {"start", "restart"}
  BY <1>1, <1>4 DEF CommandsLeft
<1>5. CASE pc' \notin {"start", "addr", "restart", "receive", "send"}
  BY <1>5 DEF CommandsLeft
<1> QED
  BY <1>2, <1>3, <1>4, <1>5

LEMMA StepsCounted ==
  ASSUME TypeOK
  PROVE  StepsTaken \in 0..PollLimit + 3
  BY BoundAssumption DEF TypeOK, FrameOK, StepsTaken

\* What is made of an answer always takes a command off those left.
LEMMA EvalSpends ==
  ASSUME TypeOK, TypeOK', Control, Control',
         \/ StartDone \/ ProbeDone \/ AddressDone \/ RestartDone
         \/ SendDone \/ ReceiveDone \/ SlaveReceiveDone \/ ReplyDone
  PROVE  /\ phase = "eval" /\ phase' = "issue"
         /\ CommandsLeft' < CommandsLeft
<1>0. /\ phase = "eval" /\ phase' = "issue" /\ call' = call
      /\ call.alen \in Nat /\ call.len \in Nat /\ i \in Nat /\ i' \in Nat
  BY AlensAreNats, LensAreNats
     DEF StartDone, ProbeDone, AddressDone, RestartDone, SendDone, ReceiveDone,
         SlaveReceiveDone, ReplyDone, Eval, TypeOK, FrameOK, Calls
<1>1. CASE StartDone
  <2>1. /\ pc = "start" /\ call.op \in {"read", "write"}
        /\ pc' \in {"addr", "restart", "send", "idle"}
        /\ pc' \in {"addr", "send"} => i' = 0
    BY <1>1 DEF StartDone, GoTo, GiveUp, AfterAddress, Control
  <2> QED
    BY <1>0, <2>1 DEF CommandsLeft
<1>2. CASE ProbeDone
  BY <1>0, <1>2 DEF ProbeDone, CommandsLeft
<1>3. CASE AddressDone
  <2>1. /\ pc = "addr" /\ i < call.alen
        /\ \/ pc' = "addr" /\ i' = i + 1
           \/ pc' \in {"restart", "send"} /\ i' = 0
           \/ pc' = "idle"
    BY <1>3 DEF AddressDone, Loop, GiveUp, AfterAddress, Control
  <2> QED
    BY <1>0, <2>1 DEF CommandsLeft
<1>4. CASE RestartDone
  <2>1. pc = "restart" /\ pc' \in {"receive", "idle"} /\ (pc' = "receive" => i' = i)
    BY <1>4 DEF RestartDone, GoTo, GiveUp
  <2> QED
    BY <1>0, <2>1 DEF CommandsLeft
<1>5. CASE SendDone \/ ReceiveDone
  <2>1. /\ pc \in {"receive", "send"} /\ i < call.len
        /\ \/ pc' = pc /\ i' = i + 1
           \/ pc' = "stop"
    BY <1>5 DEF SendDone, ReceiveDone, Loop, Control
  <2> QED
    BY <1>0, <2>1 DEF CommandsLeft
<1>6. CASE SlaveReceiveDone
  BY <1>0, <1>6 DEF SlaveReceiveDone, CommandsLeft
<1>7. CASE ReplyDone
  BY <1>0, <1>7 DEF ReplyDone, GoTo, CommandsLeft
<1> QED
  BY <1>0, <1>1, <1>2, <1>3, <1>4, <1>5, <1>6, <1>7

\* The steps that leave the call at its command take one of that one's.
LEMMA InPlaceSpends ==
  ASSUME TypeOK, Control,
         i2c_start \/ i2c_send_byte \/ i2c_receive_byte \/ i2c_interrupt_status
  PROVE  /\ pc \notin {"idle", "ctrlc"} /\ CommandsLeft' = CommandsLeft
         /\ StepsTaken < StepsTaken'
<1>1. UNCHANGED <<call, pc, i>>
  BY InPlaceKeeps DEF InPlace
<1>2. CommandsLeft' = CommandsLeft
  BY <1>1 DEF CommandsLeft
<1>3. CASE i2c_start \/ i2c_send_byte \/ i2c_receive_byte
  <2>1. /\ phase = "issue" /\ phase' = "poll" /\ polls' = polls
        /\ pc \notin {"idle", "ctrlc"}
    BY <1>3 DEF i2c_start, i2c_send_byte, i2c_receive_byte, Write
  <2> QED
    BY <1>2, <2>1 DEF StepsTaken, TypeOK, FrameOK
<1>4. CASE i2c_interrupt_status
  <2>1. \/ phase = "poll" /\ phase' = "clear"
        \/ phase = "poll" /\ phase' = "poll" /\ polls' = polls + 1
        \/ phase = "clear" /\ phase' = "eval"
    BY <1>4 DEF i2c_interrupt_status, PollHit, PollMiss, PollTimeout, ClearStatus, Count
  <2>2. pc \notin {"idle", "ctrlc"}
    BY <2>1 DEF Control
  <2> QED
    BY <1>2, <2>1, <2>2, BoundAssumption DEF StepsTaken, TypeOK, FrameOK
<1> QED
  BY <1>3, <1>4

LEMMA CallStepSpends ==
  ASSUME IInv, IInv', CallStep
  PROVE  StepsLeft' \in 0..StepsLeft - 1
<1> DEFINE n == PollLimit + 4
<1>0. /\ TypeOK /\ Control /\ TypeOK' /\ Control' /\ n \in Nat
      /\ StepsTaken \in 0..n - 1 /\ StepsTaken' \in 0..n - 1
      /\ CommandsLeft \in Nat /\ CommandsLeft' \in Nat
      /\ pc \notin {"idle", "ctrlc"} => CommandsLeft > 0
  <2>1. TypeOK /\ Control /\ TypeOK' /\ Control' /\ n \in Nat /\ n - 1 = PollLimit + 3
    BY BoundAssumption DEF IInv
  <2>2. StepsTaken \in 0..n - 1
    BY <2>1, StepsCounted
  <2>3. StepsTaken' \in 0..n - 1
    BY <2>1, BoundAssumption DEF TypeOK, FrameOK, StepsTaken
  <2> QED
    BY <2>1, <2>2, <2>3, CommandsCounted, CommandsCountedNext
<1>1. CASE i2c_stop
  <2>1. pc = "stop" /\ pc' = "idle" /\ phase = "issue" /\ phase' = "issue"
    BY <1>0, <1>1 DEF i2c_stop, Control
  <2>2. CommandsLeft = 1 /\ CommandsLeft' = 0 /\ StepsTaken = 0 /\ StepsTaken' = 0
    BY <2>1 DEF CommandsLeft, StepsTaken
  <2> QED
    BY <2>2, BoundAssumption DEF StepsLeft
<1>2. CASE i2c_start \/ i2c_send_byte \/ i2c_receive_byte \/ i2c_interrupt_status
  <2>1. /\ pc \notin {"idle", "ctrlc"} /\ CommandsLeft' = CommandsLeft
        /\ StepsTaken < StepsTaken'
    BY <1>0, <1>2, InPlaceSpends
  <2> HIDE DEF n
  <2>2. PICK c \in Nat : c = CommandsLeft /\ c > 0
    BY <1>0, <2>1
  <2>3. PICK s \in Nat : s = StepsTaken
    BY <1>0
  <2>4. PICK t \in 0..n - 1 : t = StepsTaken' /\ s < t
    BY <1>0, <2>1, <2>3
  <2>5. c * n - t \in 0..(c * n - s) - 1
    BY <1>0, <2>2, <2>4, StepSpent
  <2> QED
    BY <2>1, <2>2, <2>3, <2>4, <2>5 DEF StepsLeft, n
<1>3. CASE \/ StartDone \/ ProbeDone \/ AddressDone \/ RestartDone
           \/ SendDone \/ ReceiveDone \/ SlaveReceiveDone \/ ReplyDone
  <2>1. phase' = "issue" /\ CommandsLeft' < CommandsLeft
    BY <1>0, <1>3, EvalSpends
  <2>2. StepsTaken' = 0
    BY <2>1 DEF StepsTaken
  <2> HIDE DEF n
  <2>3. CommandsLeft' * n \in 0..(CommandsLeft * n - StepsTaken) - 1
    BY <1>0, <2>1, CommandSpent
  <2>4. CommandsLeft' * n - 0 = CommandsLeft' * n
    BY <1>0
  <2> QED
    BY <2>2, <2>3, <2>4 DEF StepsLeft, n
<1> QED
  BY <1>1, <1>2, <1>3 DEF CallStep

\* Every step of a call lowers a number that starts at no more than
\* (alen + len + 3) * (PollLimit + 4): whatever the controllers do, no call
\* runs for ever, and no wait is longer than the loop's limit.
THEOREM CallsAreBounded == Spec => CallComesToEnd
<1>1. IInv /\ [Next]_vars => [CallStep => StepsLeft' \in 0..StepsLeft - 1]_vars
  BY InvStep, CallStepSpends
<1> QED
  BY <1>1, Invariance, PTL DEF Spec, CallComesToEnd

-----------------------------------------------------------------------------
(***************************************************************************)
(* AstI2c implements I2cMasterPort.                                        *)
(***************************************************************************)

Last == [w \in Windows |-> last[w]]

Outcome == IF call.op \in {"none", "slave"} THEN "none"
           ELSE IF pc # "idle" THEN "busy"
           ELSE IF ret = 0 THEN "ok" ELSE "fail"

InCall == call.op \in {"probe", "read", "write"} /\ pc # "idle"

\* Steps that touch none of these variables are stutters of the port.
LEMMA MapUnchanged ==
  ASSUME UNCHANGED <<i2c_bus_base_addr, last, call, ret>>,
         (pc = "idle") <=> (pc' = "idle")
  PROVE  UNCHANGED Port!portVars
<1>1. UNCHANGED <<i2c_bus_base_addr, Last, Outcome>>
  BY DEF Last, Outcome
<1> QED
  BY <1>1 DEF Port!portVars, Last, Outcome

\* The first state maps to a first state of the port.
LEMMA MapInit == Init => Port!Init
<1> SUFFICES ASSUME Init PROVE Port!Init
  OBVIOUS
<1>1. NoBase \notin Windows
  BY BusesAssumption, BusBaseInjective DEF Windows
<1>2. [w \in Windows |-> last[w]] = [w \in Windows |-> "none"]
  BY DEF Init, Bases
<1> QED
  BY <1>1, <1>2 DEF Init, Port!Init

\* A running call drives a controller that exists.
LEMMA BusyPort == IInv /\ pc # "idle" => i2c_bus_base_addr \in Windows
BY DEF IInv, PortInv, Initialised, Windows

\* A command of a call is put on the port after one it may follow.
LEMMA MapPut ==
  ASSUME IInv, InCall, NEW c \in MasterCommands,
         UNCHANGED <<i2c_bus_base_addr, call, pc>>,
         last' = [last EXCEPT ![i2c_bus_base_addr] = c],
         last[i2c_bus_base_addr] \in Port!Follows[c]
  PROVE  Port!Next
<1>1. i2c_bus_base_addr \in Windows
  BY BusyPort DEF InCall
<1>2. Last' = [Last EXCEPT ![i2c_bus_base_addr] = c] /\ Last[i2c_bus_base_addr] = last[i2c_bus_base_addr]
  BY <1>1 DEF Last, IInv, TypeOK, PortsOK, Bases
<1>3. Outcome = "busy" /\ Outcome' = "busy"
  BY DEF Outcome, InCall
<1>4. c \in Port!Commands \ {"none", "stop"}
  BY DEF MasterCommands, Port!Commands
<1>5. Port!Put(c) /\ Outcome' = Outcome
  BY <1>1, <1>2, <1>3 DEF Port!Put, Last, Outcome
<1> QED
  BY <1>4, <1>5 DEF Port!Next, Outcome

\* A command of a call is a Put of the port.
LEMMA MapWrite ==
  ASSUME IInv, i2c_start \/ i2c_send_byte \/ i2c_receive_byte
  PROVE  Port!Next \/ UNCHANGED Port!portVars
<1>1. PICK c : /\ Write(c)
               /\ \/ pc = "start" /\ c = "startW"
                  \/ pc = "restart" /\ c = "startR"
                  \/ pc \in {"addr", "send"} /\ c = "tx"
                  \/ pc = "receive" /\ c = ReceiveCommand
                  \/ pc \in SlavePoints /\ c \in {"stx", "srxlast", "none"}
  BY DEF i2c_start, i2c_send_byte, i2c_receive_byte, SlavePoints
<1>2. UNCHANGED <<i2c_bus_base_addr, call, pc, ret>> /\ phase = "issue"
  BY <1>1 DEF Write, statics
<1>3. CASE pc \in SlavePoints
  <2>1. last' = last
    BY <1>1, <1>3 DEF Write, MasterCommands, SlavePoints
  <2> QED
    BY <1>2, <2>1, MapUnchanged
<1>4. CASE pc \notin SlavePoints
  <2>1. c \in MasterCommands /\ last' = [last EXCEPT ![i2c_bus_base_addr] = c]
    BY <1>1, <1>4 DEF Write, MasterCommands, ReceiveCommand
  <2>2. InCall
    BY <1>1, <1>4 DEF InCall, IInv, Control, SlavePoints, TypeOK, FrameOK, Calls
  <2>3. last[i2c_bus_base_addr] \in MasterCommands \cup {"none", "stop"}
    BY DEF IInv, TypeOK, StaticsOK, PortsOK
  <2>4. last[i2c_bus_base_addr] \in Port!Follows[c]
    BY <1>1, <1>2, <1>4, <2>3
       DEF IInv, OrderInv, ReceiveCommand, Port!Follows, Port!Commands, MasterCommands
  <2> QED
    BY <1>2, <2>1, <2>2, <2>4, MapPut
<1> QED
  BY <1>3, <1>4

\* The STOP of a call finishes it.
LEMMA MapStop == IInv /\ i2c_stop => Port!Next
<1> SUFFICES ASSUME IInv, i2c_stop PROVE Port!Next
  OBVIOUS
<1>1. i2c_bus_base_addr \in Windows
  BY BusyPort DEF i2c_stop
<1>2. UNCHANGED <<i2c_bus_base_addr, call, ret>> /\ pc = "stop" /\ pc' = "idle"
      /\ last' = [last EXCEPT ![i2c_bus_base_addr] = "stop"]
  BY DEF i2c_stop, statics
<1>3. Last' = [Last EXCEPT ![i2c_bus_base_addr] = "stop"]
      /\ Last[i2c_bus_base_addr] = last[i2c_bus_base_addr]
  BY <1>1, <1>2 DEF Last, IInv, TypeOK, PortsOK, Bases
<1>4. call.op \in {"probe", "read", "write"} /\ phase = "issue" /\ ret \in {0, 1}
  BY <1>2 DEF IInv, Control, SlavePoints, TypeOK, FrameOK, Calls
<1>5. Outcome = "busy" /\ Outcome' \in {"ok", "fail"}
  BY <1>2, <1>4 DEF Outcome
<1>6. last[i2c_bus_base_addr] \in Port!Follows["stop"]
  BY <1>2, <1>4 DEF IInv, OrderInv, Port!Follows, Port!Commands
<1>7. Port!Finish
  BY <1>1, <1>2, <1>3, <1>5, <1>6 DEF Port!Finish, Port!Put, Last, Outcome
<1> QED
  BY <1>7 DEF Port!Next

\* What follows an answer is a stutter, or gives up where the port may.
LEMMA MapEval ==
  ASSUME IInv, IInv',
         \/ StartDone \/ ProbeDone \/ AddressDone \/ RestartDone
         \/ SendDone \/ ReceiveDone \/ SlaveReceiveDone \/ ReplyDone
  PROVE  Port!Next \/ UNCHANGED Port!portVars
<1>1. UNCHANGED <<i2c_bus_base_addr, last, call>> /\ phase = "eval" /\ pc # "idle"
  <2>1. Eval
    BY DEF StartDone, ProbeDone, AddressDone, RestartDone, SendDone, ReceiveDone,
           SlaveReceiveDone, ReplyDone
  <2> QED
    BY <2>1 DEF Eval, statics, ports, IInv, Control
<1>2. CASE pc' = "idle"
  <2>1. pc \in {"start", "addr", "restart"} /\ ret' = 1
    BY <1>1, <1>2 DEF StartDone, ProbeDone, AddressDone, RestartDone, SendDone,
              ReceiveDone, SlaveReceiveDone, ReplyDone, GoTo, GiveUp, Loop,
              AfterAddress
  <2>2. call.op \in {"probe", "read", "write"}
    BY <2>1 DEF IInv, Control, SlavePoints, TypeOK, FrameOK, Calls
  <2>3. Outcome = "busy" /\ Outcome' = "fail"
    BY <1>1, <1>2, <2>1, <2>2 DEF Outcome
  <2>4. i2c_bus_base_addr \in Windows
    BY <1>1, BusyPort
  <2>5. Last[i2c_bus_base_addr] \in {"startW", "tx", "startR"}
    BY <1>1, <2>1, <2>4 DEF Last, IInv, OrderInv
  <2>6. Last' = Last
    BY <1>1 DEF Last
  <2>7. Port!Abandon
    BY <1>1, <2>3, <2>4, <2>5, <2>6 DEF Port!Abandon, Last, Outcome
  <2> QED
    BY <2>7 DEF Port!Next
<1>3. CASE pc' # "idle"
  <2>1. UNCHANGED <<i2c_bus_base_addr, Last, Outcome>>
    BY <1>1, <1>3 DEF Last, Outcome
  <2> QED
    BY <2>1 DEF Port!portVars, Last, Outcome
<1> QED
  BY <1>2, <1>3

\* Starting a call or a slave session selects the port.
LEMMA MapOperator ==
  ASSUME IInv, IInv', Operator
  PROVE  Port!Next \/ UNCHANGED Port!portVars
<1>1. CASE SlaveBreak \/ SlaveListen
  <2>1. UNCHANGED <<i2c_bus_base_addr, last, call>> /\ call.op = "slave"
    BY <1>1 DEF SlaveBreak, SlaveListen, statics, ports, IInv, Control, TypeOK,
                FrameOK, Calls
  <2>2. UNCHANGED <<i2c_bus_base_addr, Last, Outcome>>
    BY <2>1 DEF Last, Outcome
  <2> QED
    BY <2>2 DEF Port!portVars, Last, Outcome
<1>2. CASE \/ i2c_probe \/ \E b \in Buses : do_masterrw(b) \/ do_slaverw(b)
           \/ \E a \in Alens, n \in Lens : i2c_read(a, n) \/ i2c_write(a, n)
  <2>1. pc = "idle" /\ UNCHANGED last /\ pc' # "idle"
    BY <1>2 DEF i2c_probe, i2c_read, i2c_write, do_masterrw, do_slaverw, Enter
  <2>2. call'.op \in {"probe", "read", "write", "slave"}
    BY <1>2 DEF i2c_probe, i2c_read, i2c_write, do_masterrw, do_slaverw, Enter
  <2>3. Outcome # "busy" /\ Outcome' \in {"none", "busy"}
    BY <2>1, <2>2 DEF Outcome
  <2>4. i2c_bus_base_addr' \in Windows
    BY <2>1 DEF IInv, PortInv, Initialised, Windows
  <2>5. Last' = Last
    BY <2>1 DEF Last
  <2>6. Port!Select
    BY <2>3, <2>4, <2>5 DEF Port!Select, Last, Outcome
  <2> QED
    BY <2>6 DEF Port!Next
<1> QED
  BY <1>1, <1>2 DEF Operator

\* Every step is a step of the port or a stutter.
LEMMA MapStep ==
  IInv /\ IInv' /\ [Next]_vars => [Port!Next]_(Port!portVars)
<1> SUFFICES ASSUME IInv, IInv', [Next]_vars
             PROVE  Port!Next \/ UNCHANGED Port!portVars
  OBVIOUS
<1>1. CASE i2c_interrupt_status \/ Hardware \/ UNCHANGED vars
  <2>1. UNCHANGED <<i2c_bus_base_addr, last, call, ret, pc>>
    BY <1>1 DEF i2c_interrupt_status, PollHit, PollMiss, PollTimeout, ClearStatus,
                PollFrame, Hardware, HwAnswer, HwReceive, HwSlaveByte, ByteIn,
                HwFrame, vars, statics, frame, ports
  <2> QED
    BY <2>1, MapUnchanged
<1> QED
  BY <1>1, MapWrite, MapStop, MapEval, MapOperator DEF Next, CallStep

\* The order of commands and the meaning of return values are the abstract ones.
THEOREM Implements == Spec => CommandOrder
<1> QED
  BY MapInit, MapStep, InvInit, InvStep, Invariance, PTL DEF Spec, CommandOrder, Port!Spec

\* The port keeps its promise for the end of a call: nothing is put on a bus
\* outside calls, and Finish and Abandon say what is on it at their end.
LEMMA AfterCallStep ==
  ASSUME TypeOK, Port!BusAfterCall, [Port!Next]_(Port!portVars)
  PROVE  Port!BusAfterCall'
<1> DEFINE B == i2c_bus_base_addr
<1>0. /\ Port!BusAfterCall <=>
            /\ Outcome = "ok" => Last[B] = "stop"
            /\ Outcome = "fail" => Last[B] \in {"startW", "tx", "startR", "stop"}
      /\ Port!BusAfterCall' <=>
            /\ Outcome' = "ok" => Last'[B'] = "stop"
            /\ Outcome' = "fail" => Last'[B'] \in {"startW", "tx", "startR", "stop"}
  BY DEF Port!BusAfterCall, Last, Outcome
<1>1. CASE Port!Select
  <2>1. Outcome' \in {"none", "busy"}
    BY <1>1 DEF Port!Select, Outcome
  <2> QED
    BY <1>0, <2>1
<1>2. ASSUME NEW c, Port!Put(c), Outcome' = Outcome
      PROVE  Port!BusAfterCall'
  <2>1. Outcome = "busy"
    BY <1>2 DEF Port!Put, Outcome
  <2> QED
    BY <1>0, <1>2, <2>1
<1>3. CASE Port!Finish
  <2>1. B \in Windows /\ B' = B /\ Last' = [Last EXCEPT ![B] = "stop"]
    BY <1>3 DEF Port!Finish, Port!Put, Last
  <2>2. Last'[B'] = "stop"
    BY <2>1 DEF Last
  <2> QED
    BY <1>0, <2>2
<1>4. CASE Port!Abandon
  <2>1. Outcome' = "fail" /\ B' = B /\ Last' = Last
        /\ Last[B] \in {"startW", "tx", "startR"}
    BY <1>4 DEF Port!Abandon, Last, Outcome
  <2> QED
    BY <1>0, <2>1
<1>5. CASE UNCHANGED Port!portVars
  <2>1. B' = B /\ Last' = Last /\ Outcome' = Outcome
    BY <1>5 DEF Port!portVars, Last, Outcome
  <2> QED
    BY <1>0, <2>1
<1>6. ASSUME Port!Next PROVE Port!BusAfterCall'
  <2>1. \/ Port!Select \/ Port!Finish \/ Port!Abandon
        \/ \E c : Port!Put(c) /\ Outcome' = Outcome
    BY <1>6 DEF Port!Next, Outcome
  <2> QED
    BY <1>1, <1>2, <1>3, <1>4, <2>1
<1> QED
  BY <1>5, <1>6

\* A call that succeeds leaves its bus free, and one that fails not in the middle
\* of a read (i2c_read, i2c_write, i2c_probe): it follows from the refinement,
\* whatever goes on at the registers.
THEOREM CallsFreeTheBus == Spec => []BusFreeAfterCall
<1>1. Init => Port!BusAfterCall
  <2> SUFFICES ASSUME Init PROVE Port!BusAfterCall
    OBVIOUS
  <2>1. Outcome = "none"
    BY DEF Init, Outcome
  <2> QED
    BY <2>1 DEF Port!BusAfterCall, Outcome
<1>2. IInv /\ IInv' /\ Port!BusAfterCall /\ [Next]_vars => Port!BusAfterCall'
  BY MapStep, AfterCallStep DEF IInv
<1> QED
  BY <1>1, <1>2, Invariance, PTL DEF Spec, BusFreeAfterCall
=============================================================================
