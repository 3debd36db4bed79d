-------------------------------- MODULE AdcTdd --------------------------------
(***************************************************************************)
(* The ADC driver written test-first, linux_driver/ADC_TDD.  Its file      *)
(* operations have no ioctl yet: the calls of adc_ioctl are those of the   *)
(* tests, which adc_mod_init runs one after the other on one page of       *)
(* memory in place of the registers, and never clears in between.  Here    *)
(* the tests are any sequence of the calls they are made of.  A register   *)
(* is the set of its bits that are one.                                    *)
(***************************************************************************)
EXTENDS Integers

CONSTANTS
  Channels,   \* channels the tests name
  Words       \* what they store: divisors and stub values

\* AST2500 has channels 0..13, two to a data register.
ASSUME ChannelAssumption == Channels \subseteq 0..13
ASSUME WordAssumption    == Words \subseteq SUBSET (0..31)

Bits == 0..31
ADC_DIVISOR_OF_ADC_CLOCK == 0..9     \* 0x3ff
HalfWord                 == 0..15    \* u16
DefaultDivisor           == {6}      \* 0x40

VARIABLES
  module,                  \* "unloaded", "testing" inside adc_mod_init, "loaded"
  engine, clock, data,     \* registers of the page adc_reg_base points to
  request,                 \* command, Address and Data of the last call
  answer                   \* adc_ioctl's value, and Data as it leaves it

page == <<engine, clock, data>>
vars == <<module, page, request, answer>>

\* The tests clear the argument first, so Data is zero if nothing sets it.
Request(what, c, word) == [what |-> what, chan |-> c, word |-> word]
Answer(ret, word)      == [ret |-> ret, word |-> word]
NoRequest == Request("reset", 0, {})
NoAnswer  == Answer(0, {})

\* What the tests set Data to for IOCTL_ENABLE_ADC, and another value.
Enables == {{}, {0}, {1}}            \* 0, 1 and 2

Init ==
  /\ module = "unloaded"
  /\ engine = {} /\ clock = {} /\ data = [k \in 0..6 |-> {}]
  /\ request = NoRequest /\ answer = NoAnswer

-----------------------------------------------------------------------------
(***************************************************************************)
(* The product code.                                                       *)
(***************************************************************************)

ShiftUp(word)   == {k + 16 : k \in word}
ShiftDown(word) == {k \in HalfWord : k + 16 \in word}

adc_get_chan_status(c) == c \in engine

adc_get_clock_divisor == clock \cap ADC_DIVISOR_OF_ADC_CLOCK

DivisorOnTop(word, divisor) == word \cup divisor

\* A divisor wider than its field gets into the bits above, to stay there.
WithDivisor(word, divisor) == (word \ ADC_DIVISOR_OF_ADC_CLOCK) \cup divisor

ChannelOnTop(word, c, enable) == IF enable = {0} THEN word \cup {c} ELSE word

\* Any other value of "enable" than one disables.
WithChannel(word, c, enable) == (word \ {c}) \cup {k \in {c} : enable = {0}}

UnmaskedHalf(word, c) == IF c % 2 # 0 THEN ShiftDown(word) ELSE word \cap HalfWord

Half(word, c) ==
  IF c % 2 # 0 THEN ShiftDown(word) \cap 0..9 ELSE word \cap 0..9

adc_measure(c) == Half(data[c \div 2], c)

IOCTL_SET_ADC_CLOCK(word) ==
  /\ module = "testing"
  /\ clock' = WithDivisor(clock, word)
  /\ request' = Request("clock", 0, word) /\ answer' = NoAnswer
  /\ UNCHANGED <<module, engine, data>>

IOCTL_ADC_MEASURE(c) ==
  /\ module = "testing"
  /\ \/ ~adc_get_chan_status(c) /\ answer' = Answer(-1, {})
     \/ adc_get_chan_status(c) /\ answer' = Answer(0, adc_measure(c))
  /\ request' = Request("measure", c, {})
  /\ UNCHANGED <<module, page>>

IOCTL_ENABLE_ADC(c, enable) ==
  /\ module = "testing"
  /\ engine' = WithChannel(engine, c, enable)
  /\ request' = Request("enable", c, enable) /\ answer' = NoAnswer
  /\ UNCHANGED <<module, clock, data>>

UnknownCommand ==
  /\ module = "testing"
  /\ request' = Request("other", 0, {}) /\ answer' = Answer(-1, {})
  /\ UNCHANGED <<module, page>>

-----------------------------------------------------------------------------
(***************************************************************************)
(* adc_mod_init and what the tests add.                                    *)
(***************************************************************************)

\* A new page, cleared by test_setup; then adc_init.
adc_mod_init ==
  /\ module = "unloaded" /\ module' = "testing"
  /\ engine' = {} /\ data' = [k \in 0..6 |-> {}]
  /\ clock' = WithDivisor({}, DefaultDivisor)
  /\ request' = NoRequest /\ answer' = NoAnswer

TestsEnd ==
  /\ module = "testing" /\ module' = "loaded"
  /\ UNCHANGED <<page, request, answer>>

\* Does nothing: the page is not freed, nor found again by the next load.
adc_mod_cleanup ==
  /\ module = "loaded" /\ module' = "unloaded"
  /\ UNCHANGED <<page, request, answer>>

WholeRegister(word, c, stubval) == IF c % 2 = 0 THEN stubval ELSE ShiftUp(stubval)

\* A stub value wider than ten bits gets beyond its field, within its half.
WithStubval(word, c, stubval) ==
  IF c % 2 = 0 THEN (word \ 0..9) \cup stubval
               ELSE (word \ 16..25) \cup ShiftUp(stubval)

adc_set_stubval(c, word) ==
  /\ module = "testing"
  /\ data' = [data EXCEPT ![c \div 2] = WithStubval(@, c, word \cap HalfWord)]
  /\ request' = Request("convert", c, word)
  /\ UNCHANGED <<module, engine, clock, answer>>

Next ==
  \/ adc_mod_init \/ TestsEnd \/ adc_mod_cleanup
  \/ \E word \in Words : IOCTL_SET_ADC_CLOCK(word)
  \/ \E c \in Channels : \/ IOCTL_ADC_MEASURE(c)
                         \/ \E enable \in Enables : IOCTL_ENABLE_ADC(c, enable)
                         \/ \E word \in Words : adc_set_stubval(c, word)
  \/ UnknownCommand

Spec == Init /\ [][Next]_vars

-----------------------------------------------------------------------------
(***************************************************************************)
(* Properties.                                                             *)
(***************************************************************************)

\* Type invariant; a measurement has ten bits, also when a stub value had more.
TypeOK ==
  /\ module \in {"unloaded", "testing", "loaded"}
  /\ engine \subseteq Bits /\ clock \subseteq Bits
  /\ data \in [0..6 -> SUBSET Bits]
  /\ request \in [what : {"reset", "clock", "measure", "enable", "convert", "other"},
                  chan : 0..13, word : SUBSET Bits]
  /\ answer \in [ret : {0, -1}, word : SUBSET (0..9)]

\* Whatever the tests store and in whatever order they call, the page behaves
\* as AdcDevice: no call and no stub value changes what is read of another
\* channel, of its neighbour in the same register or of the divisor, and the
\* last call for a channel decides whether it can be measured.
Device == INSTANCE AdcDevice WITH
            Default <- DefaultDivisor,
            on <- engine \cap Channels,
            value <- [c \in Channels |-> adc_measure(c)],
            divisor <- adc_get_clock_divisor

BehavesAsDevice == Device!Spec
=============================================================================
