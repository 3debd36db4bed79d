------------------------------- MODULE UartLcd -------------------------------
(***************************************************************************)
(* linux_app/uart_lcd_control: the program that switches the page of an    *)
(* LCD on a serial line, or prints what the LCD sends, started from any    *)
(* number of terminals at a time.  A run opens the line, sets it up, which *)
(* throws away what was received, and then writes a command and its        *)
(* terminator in two calls, or reads for ever.  A write may be cut short,  *)
(* which the program only prints.  A page name is two units of the line,   *)
(* so that a write can be cut inside it.                                   *)
(***************************************************************************)
EXTENDS Integers, Sequences

CONSTANTS
  Terminals,  \* where the program is started, one run at a time each
  RevSize,    \* size of the receive buffer (128 in the code)
  MaxInbox,   \* bound: bytes from the LCD that wait to be read
  Bytes       \* the bytes it sends

NUL == "nul"

ASSUME ByteAssumption == NUL \in Bytes
ASSUME BoundAssumption == RevSize \in Nat \ {0} /\ MaxInbox \in Nat

FF  == "ff"
Options == {"key", "main", "recv", "other"}
Pages   == {"key", "main"}

SameCommand(page) == <<"page", "main">>

Command(page) == <<"page", page>>

over == <<FF, FF, FF>>

VARIABLES
  pc, opt,    \* each terminal's run: where it is, and its argument
  configured, \* the line has the options of set_opt
  lcd,        \* the LCD: what it holds of a command, FFs after that, its page
  inbox,      \* bytes from the LCD that nobody has read
  rev, size,  \* each run's receive buffer and the value of its read
  sole,       \* sole[t]: how much of its command t has put on the line, and
              \* nobody anything after it: the "whole" on an idle LCD, "part" of
              \* it at least, or "no" unit
  shown,      \* the page of the last run that was whole to its end, "idle" if
              \* only its terminator was, "none" once another one writes
  exact,      \* exact[t]: t alone receives, and nothing has spoilt it
  owed        \* bytes the LCD has sent, but that run has not printed

runs   == <<pc, opt, rev, size>>
ghosts == <<sole, shown, exact, owed>>
vars   == <<runs, configured, lcd, inbox, ghosts>>

Cleared == [k \in 1..RevSize |-> NUL]

Init ==
  /\ pc = [t \in Terminals |-> "shell"]
  /\ opt = [t \in Terminals |-> "other"]
  /\ configured = FALSE
  /\ lcd = [held |-> <<>>, ffs |-> 0, screen |-> "boot"]
  /\ inbox = <<>>
  /\ rev = [t \in Terminals |-> Cleared]
  /\ size = [t \in Terminals |-> 0]
  /\ sole = [t \in Terminals |-> "no"] /\ shown = "none"
  /\ exact = [t \in Terminals |-> FALSE] /\ owed = <<>>

\* A run that ends leaves nothing behind but the line.
Step(t, here, next) ==
  /\ pc[t] = here /\ pc' = [pc EXCEPT ![t] = next]
  /\ opt' = IF next = "shell" THEN [opt EXCEPT ![t] = "other"] ELSE opt

-----------------------------------------------------------------------------
(***************************************************************************)
(* main up to its option: a wrong number of arguments, or no device, ends  *)
(* the run before anything happens and is left out.                        *)
(***************************************************************************)

open_uart_dev(t, o) ==
  /\ pc[t] = "shell" /\ pc' = [pc EXCEPT ![t] = "set_opt"]
  /\ opt' = [opt EXCEPT ![t] = o]
  /\ UNCHANGED <<configured, lcd, inbox, rev, size, ghosts>>

\* The branch for the option; an unknown one prints the usage and ends.
AfterSetup(o) ==
  CASE o \in Pages  -> "command"
    [] o = "recv"   -> "read"
    [] o = "other"  -> "shell"

Flushed == <<>>

\* What goes unread from here on is for the receiver alone, if t is to be one.
Receiver(t) ==
  IF opt[t] = "recv"
    THEN /\ exact' = [u \in Terminals |-> u = t /\ inbox' = <<>>]
         /\ owed' = <<>>
    ELSE /\ exact' = [u \in Terminals |-> exact[u] /\ inbox' = inbox]
         /\ UNCHANGED owed

\* set_opt up to its flush; tcgetattr may fail, which main ignores.
set_opt(t) ==
  /\ \/ Step(t, "set_opt", AfterSetup(opt[t])) /\ UNCHANGED inbox
     \/ Step(t, "set_opt", "set_attr") /\ inbox' = Flushed
  /\ Receiver(t)
  /\ UNCHANGED <<configured, lcd, rev, size, sole, shown>>

\* Its tcsetattr, which may fail too; what has come since the flush stays.
SetAttributes(t) ==
  /\ Step(t, "set_attr", AfterSetup(opt[t]))
  /\ configured' \in {configured, TRUE}
  /\ UNCHANGED <<lcd, inbox, rev, size, ghosts>>

-----------------------------------------------------------------------------
(***************************************************************************)
(* The LCD, external: it takes one unit after the other, and at the third  *)
(* FF in a row looks at what it holds, which it forgets if it is no        *)
(* command.  What cannot become a command any more is held as Junk.        *)
(***************************************************************************)

Junk == <<"junk">>

Partial == {<<>>, <<"page">>} \cup {Command(page) : page \in Pages}

Hold(l, unit) ==
  IF l.ffs = 0 /\ Append(l.held, unit) \in Partial THEN Append(l.held, unit) ELSE Junk

ScreenAfter(l) ==
  IF \E page \in Pages : l.held = Command(page) THEN l.held[2] ELSE l.screen

LcdTakes(l, unit) ==
  IF unit # FF THEN [held |-> Hold(l, unit), ffs |-> 0, screen |-> l.screen]
  ELSE IF l.ffs < 2 THEN [held |-> l.held, ffs |-> l.ffs + 1, screen |-> l.screen]
  ELSE [held |-> <<>>, ffs |-> 0, screen |-> ScreenAfter(l)]

\* The first n units of a write, three at most.
LcdAfter(l, units, n) ==
  LET one == IF n > 0 THEN LcdTakes(l, units[1]) ELSE l
      two == IF n > 1 THEN LcdTakes(one, units[2]) ELSE one
  IN  IF n > 2 THEN LcdTakes(two, units[3]) ELSE two

-----------------------------------------------------------------------------
(***************************************************************************)
(* Switching the page.                                                     *)
(***************************************************************************)

LcdIdle == lcd.held = <<>> /\ lcd.ffs = 0

\* A write that takes all of "units" or, cut short, the first n of them.
Write(t, units, n) ==
  /\ n \in 0..Len(units)
  /\ lcd' = LcdAfter(lcd, units, n)
  /\ UNCHANGED <<configured, inbox, rev, size, exact, owed>>

WriteCommand(t) ==
  /\ Step(t, "command", "over")
  /\ \E n \in 0..2 :
       /\ Write(t, Command(opt[t]), n)
       /\ sole' = [u \in Terminals |-> IF u # t \/ n = 0 THEN "no"
                                      ELSE IF n = 2 /\ LcdIdle THEN "whole" ELSE "part"]
  /\ shown' = "none"

ShortTerminator == <<FF, FF>>

Terminator == over

\* Sent also after a command that was cut short.
WriteOver(t) ==
  /\ Step(t, "over", "shell")
  /\ \E n \in 0..3 :
       /\ Write(t, Terminator, n)
       /\ shown' = IF n < Len(Terminator) \/ sole[t] = "no" THEN "none"
                   ELSE IF sole[t] = "whole" THEN opt[t] ELSE "idle"
  /\ sole' = [u \in Terminals |-> "no"]

-----------------------------------------------------------------------------
(***************************************************************************)
(* Printing what the LCD sends.  Unless set_opt has set the line up, a     *)
(* read waits for a line end, which the LCD never sends.                   *)
(***************************************************************************)

StaleBuffer(t, bytes) ==
  [k \in 1..RevSize |-> IF k <= Len(bytes) THEN bytes[k] ELSE rev[t][k]]

TerminatedBuffer(t, bytes) ==
  [k \in 1..RevSize \cup {Len(bytes) + 1} |->
     IF k <= Len(bytes) THEN bytes[k] ELSE NUL]

\* The buffer is cleared before each read.
Buffer(t, bytes) ==
  [k \in 1..RevSize |-> IF k <= Len(bytes) THEN bytes[k] ELSE NUL]

\* Returns with what there is, after a time also with nothing.
Read(t) ==
  /\ Step(t, "read", "print") /\ configured
  /\ LET n == IF Len(inbox) < RevSize THEN Len(inbox) ELSE RevSize
         bytes == SubSeq(inbox, 1, n)
     IN  /\ rev' = [rev EXCEPT ![t] = Buffer(t, bytes)]
         /\ size' = [size EXCEPT ![t] = n]
         /\ inbox' = SubSeq(inbox, n + 1, Len(inbox))
         /\ exact' = [u \in Terminals |->
                        IF u = t THEN exact[t] /\ n < RevSize
                                      /\ \A k \in 1..n : bytes[k] # NUL
                                 ELSE exact[u] /\ n = 0]
  /\ UNCHANGED <<configured, lcd, sole, shown, owed>>

\* What %s prints: up to the first NUL, or past the buffer if it has none.
Printable(buffer) ==
  LET ends == {k \in 1..RevSize : buffer[k] = NUL}
  IN  IF ends = {} THEN {buffer \o rest : rest \in {<<>>, <<"?">>}}
      ELSE {SubSeq(buffer, 1, k - 1) : k \in {e \in ends : \A d \in ends : e <= d}}

\* What is owed after "text"; a text that was not owed stays to be seen.
Unprinted(text) ==
  IF Len(text) <= Len(owed) /\ SubSeq(owed, 1, Len(text)) = text
    THEN SubSeq(owed, Len(text) + 1, Len(owed))
    ELSE owed \o text

PrintRev(t) ==
  /\ Step(t, "print", "read")
  /\ IF size[t] > 0
       THEN \E text \in Printable(rev[t]) :
              owed' = IF exact[t] THEN Unprinted(text) ELSE owed
       ELSE UNCHANGED owed
  /\ UNCHANGED <<configured, lcd, inbox, rev, size, sole, shown, exact>>

\* Typed at the terminal; the reading loop has no other end.
Interrupt(t) ==
  /\ \E here \in {"read", "print"} : Step(t, here, "shell")
  /\ rev' = [rev EXCEPT ![t] = Cleared] /\ size' = [size EXCEPT ![t] = 0]
  /\ exact' = [exact EXCEPT ![t] = FALSE]
  /\ owed' = IF exact[t] THEN <<>> ELSE owed
  /\ UNCHANGED <<configured, lcd, inbox, sole, shown>>

RunStep(t) == \/ \E o \in Options : open_uart_dev(t, o)
              \/ set_opt(t) \/ SetAttributes(t)
              \/ WriteCommand(t) \/ WriteOver(t) \/ Read(t) \/ PrintRev(t) \/ Interrupt(t)

-----------------------------------------------------------------------------
\* A byte that comes before the line has its options is read as the old ones
\* say, and no run is held to it.
LcdSends(byte) ==
  /\ Len(inbox) < MaxInbox
  /\ \E t \in Terminals : pc[t] \in {"set_attr", "read", "print"}
  /\ inbox' = Append(inbox, byte)
  /\ exact' = [t \in Terminals |-> exact[t] /\ configured]
  /\ owed' = IF \E t \in Terminals : exact'[t] THEN Append(owed, byte) ELSE <<>>
  /\ UNCHANGED <<runs, configured, lcd, sole, shown>>

Next == \/ \E t \in Terminals : RunStep(t)
        \/ \E byte \in Bytes : LcdSends(byte)

Spec == Init /\ [][Next]_vars

-----------------------------------------------------------------------------
(***************************************************************************)
(* Properties.                                                             *)
(***************************************************************************)

\* Type invariant.
TypeOK ==
  /\ pc \in [Terminals -> {"shell", "set_opt", "set_attr", "command", "over",
                        "read", "print"}]
  /\ opt \in [Terminals -> Options] /\ configured \in BOOLEAN
  /\ lcd \in [held : Partial \cup {Junk}, ffs : 0..2, screen : Pages \cup {"boot"}]
  /\ inbox \in Seq(Bytes) /\ Len(inbox) <= MaxInbox
  /\ rev \in [Terminals -> [1..RevSize -> Bytes]]
  /\ size \in [Terminals -> 0..RevSize]
  /\ sole \in [Terminals -> {"no", "part", "whole"}]
  /\ shown \in Pages \cup {"none", "idle"}
  /\ exact \in [Terminals -> BOOLEAN] /\ owed \in Seq(Bytes \cup {"?"})

\* After a run whose two writes were whole, met an idle LCD and had no other
\* run's write between them, the LCD shows its page, until another run writes.
PageShown == shown \in Pages => lcd.screen = shown

\* What other runs have cut short or mixed up is over after one that got a unit
\* of its command and all of its terminator through, with no other run's write
\* between them: it may fail to show its page, but leaves the LCD idle for the
\* next.  (The unit ends what FFs there were; without it three more leave some.)
LcdRecovers == shown # "none" => LcdIdle

\* What a run has read and not yet printed.
Unread(t) == IF pc[t] = "print" THEN SubSeq(rev[t], 1, size[t]) ELSE <<>>

\* A receiving run prints what the LCD sends, byte for byte and nothing twice,
\* as long as no other run throws input away or reads, no byte comes before the
\* line has its options, no NUL ends a print early, and no read fills the
\* buffer, which has no end for %s then.
PrintsWhatWasSent ==
  \A t \in Terminals :
    exact[t] => owed = Unread(t) \o inbox
=============================================================================
