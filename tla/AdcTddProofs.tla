----------------------------- MODULE AdcTddProofs -----------------------------
(***************************************************************************)
(* Proofs about AdcTdd for any channels of the chip and any words the      *)
(* tests store: that its registers behave as AdcDevice.  The registers are *)
(* sets of bits, so what a mask and a shift do is set arithmetic.          *)
(***************************************************************************)
EXTENDS AdcTdd, TLAPS

-----------------------------------------------------------------------------
(***************************************************************************)
(* The two halves of a data register.                                      *)
(***************************************************************************)

\* Shifting a half word up takes it to the upper half.
LEMMA ShiftUpRange ==
  ASSUME NEW stubval \in SUBSET HalfWord
  PROVE  \A k \in ShiftUp(stubval) : k \in 16..31
<1> SUFFICES ASSUME NEW k \in ShiftUp(stubval) PROVE k \in 16..31
  OBVIOUS
<1>1. PICK j \in stubval : k = j + 16
  BY DEF ShiftUp
<1> QED
  BY <1>1 DEF HalfWord

\* Shifting a half word up and down again gives it back.
LEMMA ShiftBack ==
  ASSUME NEW stubval \in SUBSET HalfWord
  PROVE  ShiftDown(ShiftUp(stubval)) = stubval
<1>1. ASSUME NEW k \in HalfWord PROVE k + 16 \in ShiftUp(stubval) <=> k \in stubval
  <2>1. ASSUME k + 16 \in ShiftUp(stubval) PROVE k \in stubval
    <3>1. PICK j \in stubval : k + 16 = j + 16
      BY <2>1 DEF ShiftUp
    <3> QED
      BY <3>1 DEF HalfWord
  <2> QED
    BY <2>1 DEF ShiftUp
<1> QED
  BY <1>1 DEF ShiftDown

\* A channel's half has ten bits.
LEMMA HalfRange == \A word, c : Half(word, c) \subseteq 0..9
  BY DEF Half

\* A stored stub value is what is read of its channel, up to ten bits.
LEMMA HalfWritten ==
  ASSUME NEW word, NEW c \in 0..13, NEW stubval \in SUBSET HalfWord
  PROVE  Half(WithStubval(word, c, stubval), c) = stubval \cap 0..9
<1>1. CASE c % 2 = 0
  BY <1>1 DEF Half, WithStubval
<1>2. CASE c % 2 # 0
  <2>1. ShiftDown(ShiftUp(stubval)) = stubval
    BY ShiftBack
  <2>2. ShiftDown((word \ 16..25) \cup ShiftUp(stubval)) \cap 0..9
          = ShiftDown(ShiftUp(stubval)) \cap 0..9
    BY DEF ShiftDown, ShiftUp, HalfWord
  <2> QED
    BY <1>2, <2>1, <2>2 DEF Half, WithStubval
<1> QED
  BY <1>1, <1>2

\* A stub value, however wide, leaves the neighbour's half alone.
LEMMA HalfKept ==
  ASSUME NEW word, NEW c \in 0..13, NEW d \in 0..13, c % 2 # d % 2,
         NEW stubval \in SUBSET HalfWord
  PROVE  Half(WithStubval(word, c, stubval), d) = Half(word, d)
<1>1. CASE c % 2 = 0
  <2>1. d % 2 # 0
    BY <1>1
  <2>2. ShiftDown((word \ 0..9) \cup stubval) = ShiftDown(word)
    BY DEF ShiftDown, HalfWord
  <2> QED
    BY <1>1, <2>1, <2>2 DEF Half, WithStubval
<1>2. CASE c % 2 # 0
  <2>1. d % 2 = 0
    BY <1>2
  <2>2. ((word \ 16..25) \cup ShiftUp(stubval)) \cap 0..9 = word \cap 0..9
    BY DEF ShiftUp, HalfWord
  <2> QED
    BY <1>2, <2>1, <2>2 DEF Half, WithStubval
<1> QED
  BY <1>1, <1>2

\* Masks and shifts stay within the register.
LEMMA StubvalRange ==
  ASSUME NEW word \in SUBSET Bits, NEW c \in 0..13, NEW stubval \in SUBSET HalfWord
  PROVE  WithStubval(word, c, stubval) \in SUBSET Bits
<1>1. stubval \subseteq Bits
  BY DEF HalfWord, Bits
<1>2. ShiftUp(stubval) \subseteq Bits
  BY ShiftUpRange DEF Bits
<1> QED
  BY <1>1, <1>2 DEF WithStubval

-----------------------------------------------------------------------------
(***************************************************************************)
(* Type correctness.                                                       *)
(***************************************************************************)

Requests == [what : {"reset", "clock", "measure", "enable", "convert", "other"},
             chan : 0..13, word : SUBSET Bits]
Answers  == [ret : {0, -1}, word : SUBSET (0..9)]

LEMMA AnswerType ==
  /\ NoAnswer \in Answers
  /\ \A word \in SUBSET (0..9), ret \in {0, -1} : Answer(ret, word) \in Answers
  BY DEF NoAnswer, Answer, Answers

LEMMA RequestType ==
  /\ NoRequest \in Requests
  /\ Request("other", 0, {}) \in Requests
  /\ \A word \in Words : Request("clock", 0, word) \in Requests
  /\ \A c \in Channels : Request("measure", c, {}) \in Requests
  /\ \A c \in Channels, word \in Enables : Request("enable", c, word) \in Requests
  /\ \A c \in Channels, word \in Words : Request("convert", c, word) \in Requests
  BY ChannelAssumption, WordAssumption DEF NoRequest, Request, Requests, Enables, Bits

LEMMA TypeInit == Init => TypeOK
  BY AnswerType, RequestType DEF Init, TypeOK, Bits, Requests, Answers

LEMMA TypeStep == TypeOK /\ [Next]_vars => TypeOK'
<1> SUFFICES ASSUME TypeOK, [Next]_vars PROVE TypeOK'
  OBVIOUS
<1> USE ChannelAssumption, WordAssumption, AnswerType, RequestType
        DEF Requests, Answers
<1>1. CASE adc_mod_init
  BY <1>1 DEF adc_mod_init, TypeOK, WithDivisor, DefaultDivisor, Bits
<1>2. CASE TestsEnd
  BY <1>2 DEF TestsEnd, page, TypeOK
<1>3. CASE adc_mod_cleanup
  BY <1>3 DEF adc_mod_cleanup, page, TypeOK
<1>4. CASE \E word \in Words : IOCTL_SET_ADC_CLOCK(word)
  <2>1. PICK word \in Words : IOCTL_SET_ADC_CLOCK(word)
    BY <1>4
  <2>2. WithDivisor(clock, word) \subseteq Bits
    BY DEF WithDivisor, TypeOK, Bits
  <2>3. request' \in Requests /\ answer' \in Answers
    BY <2>1 DEF IOCTL_SET_ADC_CLOCK
  <2> QED
    BY <2>1, <2>2, <2>3 DEF IOCTL_SET_ADC_CLOCK, TypeOK
<1>5. ASSUME NEW c \in Channels, IOCTL_ADC_MEASURE(c) PROVE TypeOK'
  <2>1. adc_measure(c) \in SUBSET (0..9)
    BY HalfRange DEF adc_measure
  <2> QED
    BY <1>5, <2>1 DEF IOCTL_ADC_MEASURE, page, TypeOK
<1>6. ASSUME NEW c \in Channels, NEW enable \in Enables, IOCTL_ENABLE_ADC(c, enable)
      PROVE  TypeOK'
  <2>1. c \in Bits /\ engine \subseteq Bits
    BY DEF TypeOK, Bits
  <2>2. WithChannel(engine, c, enable) \subseteq Bits
    BY <2>1 DEF WithChannel
  <2> QED
    BY <1>6, <2>2 DEF IOCTL_ENABLE_ADC, TypeOK
<1>7. ASSUME NEW c \in Channels, NEW word \in Words, adc_set_stubval(c, word)
      PROVE  TypeOK'
  <2>1. c \div 2 \in 0..6 /\ data[c \div 2] \in SUBSET Bits
    BY DEF TypeOK
  <2>2. WithStubval(data[c \div 2], c, word \cap HalfWord) \in SUBSET Bits
    BY <2>1, StubvalRange
  <2> QED
    BY <1>7, <2>1, <2>2 DEF adc_set_stubval, TypeOK
<1>8. CASE UnknownCommand
  BY <1>8 DEF UnknownCommand, page, TypeOK
<1>9. CASE UNCHANGED vars
  BY <1>9 DEF vars, page, TypeOK
<1> QED
  BY <1>1, <1>2, <1>3, <1>4, <1>5, <1>6, <1>7, <1>8, <1>9 DEF Next

\* The registers keep their width, and a measurement has ten bits, whatever
\* the tests store.
THEOREM TypeCorrect == Spec => []TypeOK
<1> QED
  BY TypeInit, TypeStep, PTL DEF Spec

-----------------------------------------------------------------------------
(***************************************************************************)
(* The driver implements AdcDevice.                                        *)
(***************************************************************************)

Values == [c \in Channels |-> adc_measure(c)]

LEMMA InitMaps == Init => Device!Init
<1> SUFFICES ASSUME Init PROVE Device!Init
  OBVIOUS
<1>1. Values = [c \in Channels |-> {}]
  <2>1. \A c : Half({}, c) = {}
    BY DEF Half, ShiftDown
  <2> QED
    BY <2>1, ChannelAssumption DEF Values, adc_measure, Init
<1> QED
  BY <1>1 DEF Init, Device!Init, Device!Done, NoAnswer, Answer, NoRequest, Request,
              Values, adc_get_clock_divisor

\* A stub value changes what is read of its own channel and of no other.
LEMMA StubMaps ==
  ASSUME TypeOK, NEW c \in Channels, NEW word \in Words, adc_set_stubval(c, word)
  PROVE  Values' = [Values EXCEPT ![c] = word \cap 0..9]
<1>0. PICK stored \in SUBSET HalfWord : stored = word \cap HalfWord
  OBVIOUS
<1>1. c \in 0..13 /\ stored \cap 0..9 = word \cap 0..9
  BY <1>0, ChannelAssumption DEF HalfWord
<1>2. data' = [data EXCEPT ![c \div 2] = WithStubval(data[c \div 2], c, stored)]
  BY <1>0 DEF adc_set_stubval
<1>3. SUFFICES ASSUME NEW d \in Channels
               PROVE  adc_measure(d)' = IF d = c THEN word \cap 0..9 ELSE adc_measure(d)
  BY DEF Values
<1>4. d \in 0..13 /\ d \div 2 \in 0..6 /\ c \div 2 \in 0..6
  BY <1>1, ChannelAssumption
<1>5. CASE d = c
  <2>1. data'[c \div 2] = WithStubval(data[c \div 2], c, stored)
    BY <1>2, <1>4 DEF TypeOK
  <2>2. Half(WithStubval(data[c \div 2], c, stored), c) = stored \cap 0..9
    <3>1. c \in 0..13
      BY <1>1
    <3>2. \A w : Half(WithStubval(w, c, stored), c) = stored \cap 0..9
      BY <3>1, HalfWritten
    <3> QED
      BY <3>2
  <2> QED
    BY <1>1, <1>5, <2>1, <2>2 DEF adc_measure
<1>6. CASE d # c /\ d \div 2 = c \div 2
  <2>1. c % 2 # d % 2
    BY <1>1, <1>4, <1>6
  <2>2. Half(WithStubval(data[c \div 2], c, stored), d) = Half(data[c \div 2], d)
    BY <1>1, <1>4, <2>1, HalfKept
  <2> QED
    BY <1>2, <1>4, <1>6, <2>2 DEF adc_measure, TypeOK
<1>7. CASE d \div 2 # c \div 2
  BY <1>2, <1>4, <1>7 DEF adc_measure, TypeOK
<1> QED
  BY <1>5, <1>6, <1>7

\* Where the data registers stay, so do all values.
LEMMA ValuesKept == data' = data => Values' = Values
  BY DEF Values, adc_measure

LEMMA StepMaps ==
  TypeOK /\ [Next]_vars => [Device!Next]_Device!adcVars
<1> SUFFICES ASSUME TypeOK, [Next]_vars
             PROVE  Device!Next \/ UNCHANGED Device!adcVars
  OBVIOUS
<1> DEFINE on == engine \cap Channels
           divisor == adc_get_clock_divisor
<1> USE DEF Values
<1>1. CASE adc_mod_init
  <2>1. Values' = [c \in Channels |-> {}]
    <3>1. \A c : Half({}, c) = {}
      BY DEF Half, ShiftDown
    <3>2. \A c \in Channels : c \div 2 \in 0..6
      BY ChannelAssumption
    <3> QED
      BY <1>1, <3>1, <3>2 DEF adc_mod_init, adc_measure
  <2>2. divisor' = DefaultDivisor
    BY <1>1 DEF adc_mod_init, adc_get_clock_divisor, WithDivisor, DefaultDivisor,
                ADC_DIVISOR_OF_ADC_CLOCK
  <2>3. Device!Reset
    BY <1>1, <2>1, <2>2 DEF adc_mod_init, Device!Reset, Device!Ask, Device!Done,
                      NoAnswer, Answer, NoRequest, Request
  <2> QED
    BY <2>3 DEF Device!Next
<1>2. CASE TestsEnd \/ adc_mod_cleanup \/ UNCHANGED vars
  <2>1. UNCHANGED <<page, request, answer>>
    BY <1>2 DEF TestsEnd, adc_mod_cleanup, vars
  <2>2. Values' = Values
    BY <2>1, ValuesKept DEF page
  <2> QED
    BY <2>1, <2>2 DEF page, Device!adcVars, adc_get_clock_divisor
<1>3. ASSUME NEW word \in Words, IOCTL_SET_ADC_CLOCK(word)
      PROVE  Device!Next
  <2>1. Values' = Values /\ UNCHANGED engine
    BY <1>3, ValuesKept DEF IOCTL_SET_ADC_CLOCK
  <2>2. divisor' = word \cap 0..9
    BY <1>3 DEF IOCTL_SET_ADC_CLOCK, adc_get_clock_divisor, WithDivisor,
                ADC_DIVISOR_OF_ADC_CLOCK
  <2>3. Device!SetClock(word)
    BY <1>3, <2>1, <2>2
       DEF IOCTL_SET_ADC_CLOCK, Device!SetClock, Device!Done, Device!TenBits,
           Device!Ask, NoAnswer, Answer, Request
  <2> QED
    BY <2>3 DEF Device!Next
<1>4. ASSUME NEW c \in Channels, IOCTL_ADC_MEASURE(c)
      PROVE  Device!Next
  <2>1. Values' = Values /\ UNCHANGED <<engine, clock>>
    BY <1>4, ValuesKept DEF IOCTL_ADC_MEASURE, page
  <2>2. Device!Measure(c)
    BY <1>4, <2>1
       DEF IOCTL_ADC_MEASURE, adc_get_chan_status, adc_get_clock_divisor,
           Device!Measure, Device!Value, Device!Refused, Device!Ask, Answer, Request
  <2> QED
    BY <2>2 DEF Device!Next
<1>5. ASSUME NEW c \in Channels, NEW enable \in Enables, IOCTL_ENABLE_ADC(c, enable)
      PROVE  Device!Next
  <2>1. Values' = Values /\ UNCHANGED clock
    BY <1>5, ValuesKept DEF IOCTL_ENABLE_ADC
  <2>2. on' = IF enable = {0} THEN on \cup {c} ELSE on \ {c}
    BY <1>5 DEF IOCTL_ENABLE_ADC, WithChannel
  <2>3. Device!Switch(c, enable)
    BY <1>5, <2>1, <2>2
       DEF IOCTL_ENABLE_ADC, adc_get_clock_divisor, Device!Switch, Device!One,
           Device!Done, Device!Ask, NoAnswer, Answer, Request
  <2>4. enable \in {{}, Device!One, {1}}
    BY DEF Enables, Device!One
  <2> QED
    BY <2>3, <2>4 DEF Device!Next
<1>6. ASSUME NEW c \in Channels, NEW word \in Words, adc_set_stubval(c, word)
      PROVE  Device!Next
  <2>1. Values' = [Values EXCEPT ![c] = word \cap 0..9]
    BY <1>6, StubMaps
  <2>2. UNCHANGED <<engine, clock, answer>> /\ request' = Request("convert", c, word)
    BY <1>6 DEF adc_set_stubval
  <2>3. Device!Convert(c, word)
    BY <2>1, <2>2 DEF Device!Convert, Device!TenBits, Device!Ask, Request,
                      adc_get_clock_divisor
  <2> QED
    BY <2>3 DEF Device!Next
<1>7. CASE UnknownCommand
  <2>1. Values' = Values /\ UNCHANGED <<engine, clock>>
    BY <1>7, ValuesKept DEF UnknownCommand, page
  <2>2. Device!Refuse
    BY <1>7, <2>1
       DEF UnknownCommand, adc_get_clock_divisor, Device!Refuse, Device!Refused,
           Device!Ask, Answer, Request
  <2> QED
    BY <2>2 DEF Device!Next
<1> QED
  BY <1>1, <1>2, <1>3, <1>4, <1>5, <1>6, <1>7 DEF Next

\* Masks, shifts and shared registers do not show: the driver behaves as a
\* device with a value per channel, whatever the tests store and in whatever
\* order they call.
THEOREM Implements == Spec => BehavesAsDevice
<1>1. Spec => Device!Spec
  BY InitMaps, StepMaps, TypeCorrect, PTL DEF Spec, Device!Spec
<1> QED
  BY <1>1 DEF BehavesAsDevice
=============================================================================
