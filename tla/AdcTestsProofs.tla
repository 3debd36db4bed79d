--------------------------- MODULE AdcTestsProofs ---------------------------
(***************************************************************************)
(* Proofs about AdcTests for any lists of tests and any calls of new ones: *)
(* that a load makes only calls AdcTdd knows, that no test that sets up    *)
(* what it asserts fails, and what the nine tests do without new ones.     *)
(***************************************************************************)
EXTENDS AdcTests, AdcTddProofs

-----------------------------------------------------------------------------
(***************************************************************************)
(* The statements of the tests.                                            *)
(***************************************************************************)

LEMMA Bodies ==
  /\ Body["all_chan_disable"] = <<IsOff(0), IsOff(1)>>
  /\ Body["clock_divisor_0x40"] = <<Divisor(DefaultDivisor)>>
  /\ Body["reg_chardev"] = <<>>
  /\ Body["ioctl_set_clock"] = <<Clock(xA5), Divisor(xA5)>>
  /\ Body["before_enable"] = <<Measure(1), Returned(-1)>>
  /\ Body["after_enable_status_on"] = <<Disable(2), Enable(2), IsOn(2)>>
  /\ Body["after_disable_status_off"] = <<Enable(3), Disable(3), IsOff(3)>>
  /\ Body["when_chan_enable"]
       = <<Stub(4, xA5), Enable(4), Measure(4), Returned(0), Measured(xA5)>>
  /\ Body["when_chan_disable"]
       = <<Enable(5), Measure(5), Returned(0), Disable(5), Measure(5), Returned(-1)>>
  BY DEF Body, Tests

\* What each kind of statement does when it is called.
LEMMA Calls ==
  ASSUME NEW c, NEW word
  PROVE  /\ Call(Clock(word)) => IOCTL_SET_ADC_CLOCK(word)
         /\ Call(Enable(c)) => IOCTL_ENABLE_ADC(c, {0})
         /\ Call(Disable(c)) => IOCTL_ENABLE_ADC(c, {})
         /\ Call(Measure(c)) => IOCTL_ADC_MEASURE(c)
         /\ Call(Stub(c, word)) => adc_set_stubval(c, word)
  BY DEF Call, Statement, Clock, Enable, Disable, Measure, Stub

\* Assertions call nothing, and calls assert nothing.
LEMMA NoCalls ==
  ASSUME NEW c, NEW word, NEW ret
  PROVE  /\ ~Call(IsOn(c)) /\ ~Call(IsOff(c)) /\ ~Call(Divisor(word))
         /\ ~Call(Returned(ret)) /\ ~Call(Measured(word))
  BY DEF Call, Statement, IsOn, IsOff, Divisor, Returned, Measured

LEMMA NoAssertions ==
  ASSUME NEW c, NEW word
  PROVE  /\ Clock(word).what \notin Assertions /\ Enable(c).what \notin Assertions
         /\ Disable(c).what \notin Assertions /\ Measure(c).what \notin Assertions
         /\ Stub(c, word).what \notin Assertions
  BY DEF Assertions, Statement, Clock, Enable, Disable, Measure, Stub

\* What each kind of assertion asserts.
LEMMA Asserted ==
  ASSUME NEW c, NEW word, NEW ret
  PROVE  /\ c \in engine => Holds(IsOn(c))
         /\ c \notin engine => Holds(IsOff(c))
         /\ adc_get_clock_divisor = word => Holds(Divisor(word))
         /\ answer.ret = ret => Holds(Returned(ret))
         /\ answer.word = word => Holds(Measured(word))
  BY DEF Holds, adc_get_chan_status, Statement, IsOn, IsOff, Divisor, Returned, Measured

\* The statements a call step of a test may be at.
Calling ==
  {Clock(xA5), Measure(1), Disable(2), Enable(2), Enable(3), Disable(3), Stub(4, xA5),
   Enable(4), Measure(4), Enable(5), Measure(5), Disable(5)}

LEMMA TestCalls ==
  ASSUME NEW t \in Tests, NEW n \in 1..Len(Body[t]), Call(Body[t][n])
  PROVE  Body[t][n] \in Calling
<1>0. /\ ~Call(IsOff(0)) /\ ~Call(IsOff(1)) /\ ~Call(Divisor(DefaultDivisor))
      /\ ~Call(Divisor(xA5)) /\ ~Call(Returned(-1)) /\ ~Call(IsOn(2)) /\ ~Call(IsOff(3))
      /\ ~Call(Returned(0)) /\ ~Call(Measured(xA5))
  BY NoCalls
<1> USE <1>0, Bodies DEF Calling
<1>1. CASE t = "all_chan_disable"
  <2>1. n \in 1..2 /\ Body[t] = <<IsOff(0), IsOff(1)>>
    BY <1>1
  <2> QED
    BY <2>1
<1>2. CASE t = "clock_divisor_0x40"
  <2>1. n = 1 /\ Body[t] = <<Divisor(DefaultDivisor)>>
    BY <1>2
  <2> QED
    BY <2>1
<1>3. CASE t = "reg_chardev"
  BY <1>3
<1>4. CASE t = "ioctl_set_clock"
  <2>1. n \in 1..2 /\ Body[t] = <<Clock(xA5), Divisor(xA5)>>
    BY <1>4
  <2> QED
    BY <2>1
<1>5. CASE t = "before_enable"
  <2>1. n \in 1..2 /\ Body[t] = <<Measure(1), Returned(-1)>>
    BY <1>5
  <2> QED
    BY <2>1
<1>6. CASE t = "after_enable_status_on"
  <2>1. n \in 1..3 /\ Body[t] = <<Disable(2), Enable(2), IsOn(2)>>
    BY <1>6
  <2> QED
    BY <2>1
<1>7. CASE t = "after_disable_status_off"
  <2>1. n \in 1..3 /\ Body[t] = <<Enable(3), Disable(3), IsOff(3)>>
    BY <1>7
  <2> QED
    BY <2>1
<1>8. CASE t = "when_chan_enable"
  <2>1. /\ n \in 1..5
        /\ Body[t] = <<Stub(4, xA5), Enable(4), Measure(4), Returned(0), Measured(xA5)>>
    BY <1>8
  <2> QED
    BY <2>1
<1>9. CASE t = "when_chan_disable"
  <2>1. n \in 1..6
    BY <1>9
  <2> QED
    BY <1>9, <2>1
<1> QED
  BY <1>1, <1>2, <1>3, <1>4, <1>5, <1>6, <1>7, <1>8, <1>9 DEF Tests

-----------------------------------------------------------------------------
(***************************************************************************)
(* A load makes only calls of AdcTdd.                                      *)
(***************************************************************************)

SuiteType ==
  /\ list \in Seq(Tests \cup {"new"})
  /\ place \in Nat \ {0} /\ line \in Nat \ {0}
  /\ failed \subseteq Tests

LEMMA SuiteTypeInit == SuiteInit => SuiteType
  BY DEF SuiteInit, SuiteType

LEMMA SuiteTypeStep == SuiteType /\ [SuiteNext]_suiteVars => SuiteType'
<1> SUFFICES ASSUME SuiteType, [SuiteNext]_suiteVars PROVE SuiteType'
  OBVIOUS
<1>1. CASE TEST_BEGIN
  BY <1>1, ListAssumption DEF TEST_BEGIN, SuiteType
<1>2. CASE CallStep
  BY <1>2 DEF CallStep, SuiteType
<1>3. CASE TEST_ASSERT
  BY <1>3 DEF TEST_ASSERT, NextTest, SuiteType
<1>4. CASE TestReturns \/ NewTestReturns
  BY <1>4 DEF TestReturns, NewTestReturns, NextTest, SuiteType
<1>5. CASE NewTestCalls \/ TEST_END \/ Unload \/ UNCHANGED suiteVars
  BY <1>5 DEF NewTestCalls, TEST_END, Unload, suiteVars, suite, SuiteType
<1> QED
  BY <1>1, <1>2, <1>3, <1>4, <1>5 DEF SuiteNext

LEMMA CallKnown ==
  ASSUME NEW s \in Calling, Call(s)
  PROVE  Next
<1>1. 1..5 \subseteq Channels /\ xA5 \in Words /\ {} \in Enables /\ {0} \in Enables
  BY TestWords DEF Enables
<1>2. CASE s = Clock(xA5)
  BY <1>1, <1>2, Calls DEF Next
<1>3. ASSUME NEW c \in 1..5, s = Enable(c) \/ s = Disable(c)
      PROVE  Next
  <2>1. c \in Channels
    BY <1>1
  <2>2. IOCTL_ENABLE_ADC(c, {0}) \/ IOCTL_ENABLE_ADC(c, {})
    BY <1>3, Calls
  <2> QED
    BY <1>1, <2>1, <2>2 DEF Next
<1>4. ASSUME NEW c \in 1..5, s = Measure(c)
      PROVE  Next
  <2>1. c \in Channels
    BY <1>1
  <2>2. IOCTL_ADC_MEASURE(c)
    BY <1>4, Calls
  <2> QED
    BY <1>1, <2>1, <2>2 DEF Next
<1>5. CASE s = Stub(4, xA5)
  <2>1. adc_set_stubval(4, xA5)
    BY <1>5, Calls
  <2> QED
    BY <1>1, <2>1 DEF Next
<1> QED
  BY <1>2, <1>3, <1>4, <1>5 DEF Calling

LEMMA SuiteStepMaps ==
  SuiteType /\ [SuiteNext]_suiteVars => [Next]_vars
<1> SUFFICES ASSUME SuiteType, [SuiteNext]_suiteVars PROVE Next \/ UNCHANGED vars
  OBVIOUS
<1>1. CASE CallStep
  <2>1. PICK t \in Tests : t = list[place]
    BY <1>1 DEF CallStep
  <2>2. line \in 1..Len(Body[t]) /\ Call(Body[t][line])
    <3>1. Len(Body[t]) \in Nat
      BY Bodies DEF Tests
    <3> QED
      BY <1>1, <2>1, <3>1 DEF CallStep, SuiteType
  <2>3. Body[t][line] \in Calling
    BY <2>2, TestCalls
  <2> QED
    BY <2>2, <2>3, CallKnown
<1>2. CASE NewTestCalls
  BY <1>2, NewAssumption DEF NewTestCalls, Next
<1>3. CASE TEST_BEGIN \/ TEST_END \/ Unload
  BY <1>3 DEF TEST_BEGIN, TEST_END, Unload, Next
<1>4. CASE TEST_ASSERT \/ TestReturns \/ NewTestReturns \/ UNCHANGED suiteVars
  BY <1>4 DEF TEST_ASSERT, TestReturns, NewTestReturns, suiteVars
<1> QED
  BY <1>1, <1>2, <1>3, <1>4 DEF SuiteNext

\* A load of the module, whatever tests it runs, makes only calls AdcTdd knows.
LEMMA LoadCalls == SuiteSpec => Spec
<1>1. SuiteInit => Init
  BY DEF SuiteInit
<1> QED
  BY <1>1, SuiteTypeInit, SuiteTypeStep, SuiteStepMaps, PTL DEF SuiteSpec, Spec

\* So what is proved of any sequence of calls holds of the tests: the registers
\* they share behave as a device with a value for each channel.
THEOREM TestsMeetDevice == SuiteSpec => BehavesAsDevice
  BY LoadCalls, Implements

-----------------------------------------------------------------------------
(***************************************************************************)
(* What a test has set up before each statement of it.                     *)
(***************************************************************************)

Progress(t, n) ==
  /\ t = "ioctl_set_clock" /\ n = 2 => adc_get_clock_divisor = xA5
  /\ t = "after_enable_status_on" /\ n = 3 => 2 \in engine
  /\ t = "after_disable_status_off" /\ n = 3 => 3 \notin engine
  /\ t = "when_chan_enable" =>
       /\ n \in 2..3 => adc_measure(4) = xA5
       /\ n = 3 => 4 \in engine
       /\ n \in 4..5 => answer = Answer(0, xA5)
  /\ t = "when_chan_disable" =>
       /\ n = 2 => 5 \in engine
       /\ n = 3 => answer.ret = 0
       /\ n = 5 => 5 \notin engine
       /\ n = 6 => answer.ret = -1

ProgressInv == Running /\ list[place] \in Tests => Progress(list[place], line)

SuiteInv == TypeOK /\ SuiteType /\ OthersPass /\ ProgressInv

LEMMA FirstStatement == \A t : Progress(t, 1)
  BY DEF Progress

\* What the calls of the tests do.
LEMMA ClockSet ==
  ASSUME IOCTL_SET_ADC_CLOCK(xA5) PROVE adc_get_clock_divisor' = xA5
  BY DEF IOCTL_SET_ADC_CLOCK, adc_get_clock_divisor, WithDivisor,
         ADC_DIVISOR_OF_ADC_CLOCK, xA5

LEMMA SwitchedOn ==
  ASSUME NEW c, IOCTL_ENABLE_ADC(c, {0})
  PROVE  c \in engine' /\ UNCHANGED data
  BY DEF IOCTL_ENABLE_ADC, WithChannel

LEMMA SwitchedOff ==
  ASSUME NEW c, IOCTL_ENABLE_ADC(c, {}) PROVE c \notin engine'
  BY DEF IOCTL_ENABLE_ADC, WithChannel

LEMMA MeasuredOn ==
  ASSUME NEW c, IOCTL_ADC_MEASURE(c), c \in engine
  PROVE  answer' = Answer(0, adc_measure(c)) /\ answer'.ret = 0
  BY DEF IOCTL_ADC_MEASURE, adc_get_chan_status, Answer

LEMMA MeasuredOff ==
  ASSUME NEW c, IOCTL_ADC_MEASURE(c), c \notin engine PROVE answer'.ret = -1
  BY DEF IOCTL_ADC_MEASURE, adc_get_chan_status, Answer

LEMMA Stubbed ==
  ASSUME TypeOK, adc_set_stubval(4, xA5) PROVE adc_measure(4)' = xA5
<1>1. xA5 \in SUBSET HalfWord /\ xA5 \cap HalfWord = xA5 /\ xA5 \cap 0..9 = xA5
  BY DEF xA5, HalfWord
<1>2. data' = [data EXCEPT ![2] = WithStubval(data[2], 4, xA5)]
  <2>1. 4 \div 2 = 2
    OBVIOUS
  <2> QED
    BY <1>1, <2>1 DEF adc_set_stubval
<1>3. data'[2] = WithStubval(data[2], 4, xA5)
  BY <1>2 DEF TypeOK
<1>4. \A w : Half(WithStubval(w, 4, xA5), 4) = xA5 \cap 0..9
  BY <1>1, HalfWritten
<1>5. Half(data'[2], 4) = xA5
  BY <1>1, <1>3, <1>4
<1>6. adc_measure(4)' = Half(data'[2], 4)
  <2>1. 4 \div 2 = 2
    OBVIOUS
  <2> QED
    BY <2>1 DEF adc_measure
<1> QED
  BY <1>5, <1>6

LEMMA MeasureKept == \A c : UNCHANGED data => adc_measure(c)' = adc_measure(c)
  BY DEF adc_measure

-----------------------------------------------------------------------------
(***************************************************************************)
(* The invariant.                                                          *)
(***************************************************************************)

\* A call of a test sets up what its later statements find.
LEMMA CallProgress ==
  ASSUME TypeOK, NEW t \in Tests, NEW n \in 1..Len(Body[t]), Progress(t, n),
         Call(Body[t][n])
  PROVE  Progress(t, n + 1)'
<1>0. n \in Nat /\ ~Call(IsOff(0)) /\ ~Call(IsOff(1)) /\ ~Call(Returned(0))
  BY NoCalls
<1>1. CASE t = "ioctl_set_clock"
  <2>1. n \in 1..2 /\ Body[t] = <<Clock(xA5), Divisor(xA5)>>
    BY <1>1, Bodies
  <2>2. CASE n = 1
    <3>1. IOCTL_SET_ADC_CLOCK(xA5)
      BY <2>1, <2>2, Calls
    <3> QED
      BY <1>1, <2>2, <3>1, ClockSet DEF Progress
  <2>3. CASE n = 2
    BY <1>1, <2>3 DEF Progress
  <2> QED
    BY <2>1, <2>2, <2>3
<1>2. CASE t = "after_enable_status_on"
  <2>1. n \in 1..3 /\ Body[t] = <<Disable(2), Enable(2), IsOn(2)>>
    BY <1>2, Bodies
  <2>2. CASE n = 2
    <3>1. IOCTL_ENABLE_ADC(2, {0})
      BY <2>1, <2>2, Calls
    <3>2. 2 \in engine'
      BY <3>1, SwitchedOn
    <3> QED
      BY <1>2, <2>2, <3>2 DEF Progress
  <2>3. CASE n # 2
    BY <1>0, <1>2, <2>3 DEF Progress
  <2> QED
    BY <2>2, <2>3
<1>3. CASE t = "after_disable_status_off"
  <2>1. n \in 1..3 /\ Body[t] = <<Enable(3), Disable(3), IsOff(3)>>
    BY <1>3, Bodies
  <2>2. CASE n = 2
    <3>1. IOCTL_ENABLE_ADC(3, {})
      BY <2>1, <2>2, Calls
    <3>2. 3 \notin engine'
      BY <3>1, SwitchedOff
    <3> QED
      BY <1>3, <2>2, <3>2 DEF Progress
  <2>3. CASE n # 2
    BY <1>0, <1>3, <2>3 DEF Progress
  <2> QED
    BY <2>2, <2>3
<1>4. CASE t = "when_chan_enable"
  <2>1. n \in 1..5 /\ Body[t] =
          <<Stub(4, xA5), Enable(4), Measure(4), Returned(0), Measured(xA5)>>
    BY <1>4, Bodies
  <2>2. CASE n = 1
    <3>1. adc_set_stubval(4, xA5)
      BY <2>1, <2>2, Calls
    <3>2. adc_measure(4)' = xA5
      BY <3>1, Stubbed
    <3> QED
      BY <1>4, <2>2, <3>2 DEF Progress
  <2>3. CASE n = 2
    <3>1. IOCTL_ENABLE_ADC(4, {0})
      BY <2>1, <2>3, Calls
    <3>2. 4 \in engine' /\ UNCHANGED data
      BY <3>1, SwitchedOn
    <3>3. adc_measure(4)' = adc_measure(4) /\ adc_measure(4) = xA5
      BY <1>4, <2>3, <3>2, MeasureKept DEF Progress
    <3> QED
      BY <1>4, <2>3, <3>2, <3>3 DEF Progress
  <2>4. CASE n = 3
    <3>1. IOCTL_ADC_MEASURE(4)
      BY <2>1, <2>4, Calls
    <3>2. 4 \in engine /\ adc_measure(4) = xA5
      BY <1>4, <2>4 DEF Progress
    <3>3. answer' = Answer(0, xA5)
      BY <3>1, <3>2, MeasuredOn
    <3>4. Answer(0, xA5)' = Answer(0, xA5)
      BY DEF Answer, xA5
    <3> QED
      BY <1>4, <2>4, <3>3, <3>4 DEF Progress
  <2>5. CASE n \in 4..5
    BY <2>1, <2>5, NoCalls
  <2> QED
    BY <2>1, <2>2, <2>3, <2>4, <2>5
<1>5. CASE t = "when_chan_disable"
  <2>1. n \in 1..6 /\ Body[t] =
          <<Enable(5), Measure(5), Returned(0), Disable(5), Measure(5), Returned(-1)>>
    BY <1>5, Bodies
  <2>2. CASE n = 1
    <3>1. IOCTL_ENABLE_ADC(5, {0})
      BY <2>1, <2>2, Calls
    <3>2. 5 \in engine'
      BY <3>1, SwitchedOn
    <3> QED
      BY <1>5, <2>2, <3>2 DEF Progress
  <2>3. CASE n = 2
    <3>1. IOCTL_ADC_MEASURE(5)
      BY <2>1, <2>3, Calls
    <3>2. 5 \in engine
      BY <1>5, <2>3 DEF Progress
    <3>3. answer'.ret = 0
      BY <3>1, <3>2, MeasuredOn
    <3> QED
      BY <1>5, <2>3, <3>3 DEF Progress
  <2>4. CASE n = 4
    <3>1. IOCTL_ENABLE_ADC(5, {})
      BY <2>1, <2>4, Calls
    <3>2. 5 \notin engine'
      BY <3>1, SwitchedOff
    <3> QED
      BY <1>5, <2>4, <3>2 DEF Progress
  <2>5. CASE n = 5
    <3>1. IOCTL_ADC_MEASURE(5)
      BY <2>1, <2>5, Calls
    <3>2. 5 \notin engine
      BY <1>5, <2>5 DEF Progress
    <3>3. answer'.ret = -1
      BY <3>1, <3>2, MeasuredOff
    <3> QED
      BY <1>5, <2>5, <3>3 DEF Progress
  <2>6. CASE n \in {3, 6}
    BY <1>5, <2>6 DEF Progress
  <2> QED
    BY <2>1, <2>2, <2>3, <2>4, <2>5, <2>6
<1> QED
  BY <1>1, <1>2, <1>3, <1>4, <1>5 DEF Progress

\* An assertion of a test that sets up what it asserts holds, and what it has
\* set up for later ones stays.
LEMMA AssertProgress ==
  ASSUME NEW t \in Tests, NEW n \in 1..Len(Body[t]), Progress(t, n),
         Body[t][n].what \in Assertions
  PROVE  /\ Holds(Body[t][n]) \/ t \in FirstTests
         /\ Progress(t, n + 1)
<1>1. CASE t \in FirstTests \/ t = "reg_chardev"
  <2>1. t # "reg_chardev"
    BY Bodies
  <2> QED
    BY <1>1, <2>1 DEF FirstTests, Progress
<1>2. CASE t = "ioctl_set_clock"
  <2>1. n \in 1..2 /\ Body[t] = <<Clock(xA5), Divisor(xA5)>>
    BY <1>2, Bodies
  <2>2. n = 2
    BY <2>1, NoAssertions
  <2> QED
    BY <1>2, <2>1, <2>2, Asserted DEF Progress
<1>3. CASE t = "after_enable_status_on"
  <2>1. n \in 1..3 /\ Body[t] = <<Disable(2), Enable(2), IsOn(2)>>
    BY <1>3, Bodies
  <2>2. n = 3
    BY <2>1, NoAssertions
  <2> QED
    BY <1>3, <2>1, <2>2, Asserted DEF Progress
<1>4. CASE t = "after_disable_status_off"
  <2>1. n \in 1..3 /\ Body[t] = <<Enable(3), Disable(3), IsOff(3)>>
    BY <1>4, Bodies
  <2>2. n = 3
    BY <2>1, NoAssertions
  <2> QED
    BY <1>4, <2>1, <2>2, Asserted DEF Progress
<1>5. CASE t = "when_chan_enable"
  <2>1. n \in 1..5 /\ Body[t] =
          <<Stub(4, xA5), Enable(4), Measure(4), Returned(0), Measured(xA5)>>
    BY <1>5, Bodies
  <2>2. n = 4 \/ n = 5
    BY <2>1, NoAssertions
  <2>3. answer.ret = 0 /\ answer.word = xA5
    BY <1>5, <2>2 DEF Progress, Answer
  <2>4. Progress(t, n + 1)
    BY <1>5, <2>2 DEF Progress
  <2> QED
    BY <2>1, <2>2, <2>3, <2>4, Asserted
<1>6. CASE t = "when_chan_disable"
  <2>1. n \in 1..6 /\ Body[t] =
          <<Enable(5), Measure(5), Returned(0), Disable(5), Measure(5), Returned(-1)>>
    BY <1>6, Bodies
  <2>2. n = 3 \/ n = 6
    BY <2>1, NoAssertions
  <2>3. Progress(t, n + 1)
    BY <1>6, <2>2 DEF Progress
  <2>4. CASE n = 3
    BY <1>6, <2>1, <2>4, <2>3, Asserted DEF Progress
  <2>5. CASE n = 6
    BY <1>6, <2>1, <2>5, <2>3, Asserted DEF Progress
  <2> QED
    BY <2>2, <2>4, <2>5
<1> QED
  BY <1>1, <1>2, <1>3, <1>4, <1>5, <1>6 DEF Tests, FirstTests

LEMMA SuiteInvInit == SuiteInit => SuiteInv
  BY SuiteTypeInit, TypeInit
     DEF SuiteInit, SuiteInv, Init, OthersPass, FirstTests, ProgressInv, Running

LEMMA SuiteInvStep == SuiteInv /\ [SuiteNext]_suiteVars => SuiteInv'
<1> SUFFICES ASSUME SuiteInv, [SuiteNext]_suiteVars PROVE SuiteInv'
  OBVIOUS
<1>1. TypeOK' /\ SuiteType'
  <2>1. TypeOK /\ SuiteType
    BY DEF SuiteInv
  <2> QED
    BY <2>1, SuiteTypeStep, SuiteStepMaps, TypeStep
<1> SUFFICES OthersPass' /\ ProgressInv'
  BY <1>1 DEF SuiteInv
<1>2. CASE TEST_BEGIN
  <2>1. line' = 1 /\ failed' = {}
    BY <1>2 DEF TEST_BEGIN
  <2>2. \A t : Progress(t, 1)'
    BY DEF Progress
  <2> QED
    BY <2>1, <2>2 DEF OthersPass, ProgressInv
<1>3. CASE CallStep
  <2>1. PICK t \in Tests : t = list[place] /\ t = list'[place']
    BY <1>3 DEF CallStep
  <2>2. PICK n \in 1..Len(Body[t]) : n = line
    <3>1. Len(Body[t]) \in Nat
      BY Bodies DEF Tests
    <3> QED
      BY <1>3, <2>1, <3>1 DEF CallStep, SuiteInv, SuiteType
  <2>3. TypeOK /\ Progress(t, n) /\ Call(Body[t][n])
    BY <1>3, <2>1, <2>2 DEF SuiteInv, ProgressInv, CallStep
  <2>4. Progress(t, n + 1)'
    BY <2>3, CallProgress
  <2>5. line' = n + 1 /\ failed' = failed
    BY <1>3, <2>2 DEF CallStep
  <2>6. ProgressInv'
    BY <2>1, <2>4, <2>5 DEF ProgressInv
  <2> QED
    BY <2>5, <2>6 DEF SuiteInv, OthersPass
<1>4. CASE TEST_ASSERT
  <2>1. PICK t \in Tests : t = list[place]
    BY <1>4 DEF TEST_ASSERT
  <2>2. PICK n \in 1..Len(Body[t]) : n = line
    <3>1. Len(Body[t]) \in Nat
      BY Bodies DEF Tests
    <3> QED
      BY <1>4, <2>1, <3>1 DEF TEST_ASSERT, SuiteInv, SuiteType
  <2>3. Progress(t, n) /\ Body[t][n].what \in Assertions
    BY <1>4, <2>1, <2>2 DEF SuiteInv, ProgressInv, TEST_ASSERT
  <2>4. (Holds(Body[t][n]) \/ t \in FirstTests) /\ Progress(t, n + 1)
    BY <2>3, AssertProgress
  <2>5. UNCHANGED vars
    BY <1>4 DEF TEST_ASSERT
  <2>6. CASE Holds(Body[t][n])
    <3>1. line' = n + 1 /\ UNCHANGED <<list, place, failed>>
      BY <1>4, <2>1, <2>2, <2>6 DEF TEST_ASSERT
    <3>2. Progress(t, n + 1)'
      BY <2>4, <2>5 DEF Progress, vars, page, adc_get_clock_divisor, adc_measure, Answer, xA5
    <3>3. ProgressInv'
      BY <2>1, <3>1, <3>2 DEF ProgressInv
    <3> QED
      BY <3>1, <3>3 DEF SuiteInv, OthersPass
  <2>7. CASE ~Holds(Body[t][n])
    <3>1. line' = 1 /\ failed' = failed \cup {t}
      BY <1>4, <2>1, <2>2, <2>7 DEF TEST_ASSERT, NextTest
    <3>2. \A u : Progress(u, 1)'
      BY DEF Progress
    <3> QED
      BY <2>4, <2>7, <3>1, <3>2 DEF SuiteInv, OthersPass, ProgressInv
  <2> QED
    BY <2>6, <2>7
<1>5. CASE TestReturns \/ NewTestReturns
  <2>1. line' = 1 /\ failed' = failed
    BY <1>5 DEF TestReturns, NewTestReturns, NextTest
  <2>2. \A t : Progress(t, 1)'
    BY DEF Progress
  <2> QED
    BY <2>1, <2>2 DEF SuiteInv, OthersPass, ProgressInv
<1>6. CASE NewTestCalls
  <2>1. list[place] = "new" /\ UNCHANGED suite
    BY <1>6 DEF NewTestCalls
  <2>2. list'[place'] \notin Tests
    BY <2>1 DEF suite, Tests
  <2> QED
    BY <2>1, <2>2 DEF suite, SuiteInv, OthersPass, ProgressInv
<1>7. CASE TEST_END \/ Unload
  <2>1. module' # "testing" /\ UNCHANGED suite
    BY <1>7 DEF TEST_END, Unload, TestsEnd, adc_mod_cleanup
  <2> QED
    BY <2>1 DEF suite, SuiteInv, OthersPass, ProgressInv, Running
<1>8. CASE UNCHANGED suiteVars
  BY <1>8 DEF suiteVars, vars, page, suite, SuiteInv, OthersPass, ProgressInv, Running,
              Progress, adc_get_clock_divisor, adc_measure
<1> QED
  BY <1>2, <1>3, <1>4, <1>5, <1>6, <1>7, <1>8 DEF SuiteNext

\* Only the three tests that assert what a new page holds can fail, whatever
\* tests run before them, in whatever order, and whatever those leave behind.
THEOREM OnlyFirstTestsFail == SuiteSpec => []OthersPass
<1>1. SuiteInv => OthersPass
  BY DEF SuiteInv
<1> QED
  BY <1>1, SuiteInvInit, SuiteInvStep, PTL DEF SuiteSpec

-----------------------------------------------------------------------------
(***************************************************************************)
(* What the nine tests leave behind, when no new test runs among them.     *)
(***************************************************************************)

Nine == "new" \notin {list[k] : k \in 1..Len(list)}
Past == {list[k] : k \in 1..place - 1}

\* The test that runs is t.
Current(t) == place <= Len(list) /\ list[place] = t

\* Channels are on only within their test, but for 2 and 4, that stay on.
EngineLeft ==
  /\ engine \subseteq {2, 3, 4, 5}
  /\ 3 \in engine => Current("after_disable_status_off") /\ line = 2
  /\ 5 \in engine => Current("when_chan_disable") /\ line \in 2..4
  /\ Current("after_enable_status_on") /\ line >= 3 => 2 \in engine
  /\ Current("when_chan_enable") /\ line >= 3 => 4 \in engine
  /\ "after_enable_status_on" \in Past =>
       2 \in engine \/ (Current("after_enable_status_on") /\ line = 2)
  /\ "when_chan_enable" \in Past => 4 \in engine

\* Only the test of the ioctl changes the divisor.
ClockLeft == module = "testing" =>
  \/ adc_get_clock_divisor = DefaultDivisor
  \/ "ioctl_set_clock" \in Past
  \/ Current("ioctl_set_clock")

RefusedBefore == Current("before_enable") /\ line = 2 => answer.ret = -1

Failures ==
  /\ failed \subseteq {"clock_divisor_0x40"}
  /\ failed # {} => \E j, k \in 1..Len(list) :
       j < k /\ list[j] = "ioctl_set_clock" /\ list[k] = "clock_divisor_0x40"

Ended == module # "testing" => place > Len(list)

NineInv == Ended /\ (Nine => EngineLeft /\ ClockLeft /\ RefusedBefore /\ Failures)

LEMMA NineInvInit == SuiteInit => NineInv
  BY DEF SuiteInit, Init, NineInv, Nine, Ended, EngineLeft, ClockLeft, RefusedBefore,
         Failures, Past, Current

\* What the calls of each test do to the registers.
LEMMA CallEffect ==
  ASSUME NEW t \in Tests, NEW n \in 1..Len(Body[t]), Call(Body[t][n])
  PROVE  /\ t = "after_enable_status_on" =>
              \/ n = 1 /\ engine' = engine \ {2}
              \/ n = 2 /\ engine' = engine \cup {2}
         /\ t = "after_disable_status_off" =>
              \/ n = 1 /\ engine' = engine \cup {3}
              \/ n = 2 /\ engine' = engine \ {3}
         /\ t = "when_chan_enable" =>
              \/ n \in {1, 3} /\ engine' = engine
              \/ n = 2 /\ engine' = engine \cup {4}
         /\ t = "when_chan_disable" =>
              \/ n = 1 /\ engine' = engine \cup {5}
              \/ n \in {2, 5} /\ engine' = engine
              \/ n = 4 /\ engine' = engine \ {5}
         /\ t \in {"ioctl_set_clock", "before_enable"} => n = 1 /\ engine' = engine
         /\ t = "before_enable" /\ 1 \notin engine => answer'.ret = -1
         /\ t # "ioctl_set_clock" => clock' = clock
         /\ t \notin {"all_chan_disable", "clock_divisor_0x40", "reg_chardev"}
<1>0. /\ ~Call(IsOff(0)) /\ ~Call(IsOff(1)) /\ ~Call(Divisor(DefaultDivisor))
      /\ ~Call(Divisor(xA5)) /\ ~Call(Returned(-1)) /\ ~Call(IsOn(2)) /\ ~Call(IsOff(3))
      /\ ~Call(Returned(0)) /\ ~Call(Measured(xA5))
  BY NoCalls
<1>1. ASSUME NEW c, Call(Enable(c)) PROVE engine' = engine \cup {c} /\ clock' = clock
  BY <1>1, Calls DEF IOCTL_ENABLE_ADC, WithChannel
<1>2. ASSUME NEW c, Call(Disable(c)) PROVE engine' = engine \ {c} /\ clock' = clock
  BY <1>2, Calls DEF IOCTL_ENABLE_ADC, WithChannel
<1>3. ASSUME NEW c, Call(Measure(c)) PROVE engine' = engine /\ clock' = clock
  BY <1>3, Calls DEF IOCTL_ADC_MEASURE, page
<1>4. Call(Stub(4, xA5)) => engine' = engine /\ clock' = clock
  BY Calls DEF adc_set_stubval
<1>5. Call(Clock(xA5)) => engine' = engine
  BY Calls DEF IOCTL_SET_ADC_CLOCK
<1>6. CASE t \in {"all_chan_disable", "clock_divisor_0x40", "reg_chardev"}
  <2>1. CASE t = "all_chan_disable"
    <3>1. n \in 1..2 /\ Body[t] = <<IsOff(0), IsOff(1)>>
      BY <2>1, Bodies
    <3> QED
      BY <1>0, <3>1
  <2>2. CASE t = "clock_divisor_0x40"
    <3>1. n = 1 /\ Body[t] = <<Divisor(DefaultDivisor)>>
      BY <2>2, Bodies
    <3> QED
      BY <1>0, <3>1
  <2>3. CASE t = "reg_chardev"
    BY <2>3, Bodies
  <2> QED
    BY <1>6, <2>1, <2>2, <2>3
<1>7. CASE t = "ioctl_set_clock"
  <2>1. n \in 1..2 /\ Body[t] = <<Clock(xA5), Divisor(xA5)>>
    BY <1>7, Bodies
  <2> QED
    BY <1>0, <1>5, <1>7, <2>1
<1>8. CASE t = "before_enable"
  <2>1. n \in 1..2 /\ Body[t] = <<Measure(1), Returned(-1)>>
    BY <1>8, Bodies
  <2>2. n = 1 /\ IOCTL_ADC_MEASURE(1)
    BY <1>0, <2>1, Calls
  <2>3. 1 \notin engine => answer'.ret = -1
    BY <2>2, MeasuredOff
  <2>4. engine' = engine /\ clock' = clock
    BY <1>3, <2>1, <2>2
  <2> QED
    BY <1>8, <2>2, <2>3, <2>4
<1>9. CASE t = "after_enable_status_on"
  <2>1. n \in 1..3 /\ Body[t] = <<Disable(2), Enable(2), IsOn(2)>>
    BY <1>9, Bodies
  <2> QED
    BY <1>0, <1>1, <1>2, <1>9, <2>1
<1>10. CASE t = "after_disable_status_off"
  <2>1. n \in 1..3 /\ Body[t] = <<Enable(3), Disable(3), IsOff(3)>>
    BY <1>10, Bodies
  <2> QED
    BY <1>0, <1>1, <1>2, <1>10, <2>1
<1>11. CASE t = "when_chan_enable"
  <2>1. n \in 1..5 /\ Body[t] =
          <<Stub(4, xA5), Enable(4), Measure(4), Returned(0), Measured(xA5)>>
    BY <1>11, Bodies
  <2> QED
    BY <1>0, <1>1, <1>3, <1>4, <1>11, <2>1
<1>12. CASE t = "when_chan_disable"
  <2>1. n \in 1..6 /\ Body[t] =
          <<Enable(5), Measure(5), Returned(0), Disable(5), Measure(5), Returned(-1)>>
    BY <1>12, Bodies
  <2> QED
    BY <1>0, <1>1, <1>2, <1>3, <1>12, <2>1
<1> QED
  BY <1>6, <1>7, <1>8, <1>9, <1>10, <1>11, <1>12 DEF Tests

\* Where each test asserts.
LEMMA AssertPlaces ==
  ASSUME NEW t \in Tests, NEW n \in 1..Len(Body[t]), Body[t][n].what \in Assertions
  PROVE  /\ t \in {"after_enable_status_on", "after_disable_status_off"} => n = 3
         /\ t = "when_chan_enable" => n \in 4..5
         /\ t = "when_chan_disable" => n \in {3, 6}
         /\ t = "before_enable" => n = 2 /\ Body[t][n] = Returned(-1)
         /\ t = "all_chan_disable" => Body[t][n] \in {IsOff(0), IsOff(1)}
         /\ t = "clock_divisor_0x40" => Body[t][n] = Divisor(DefaultDivisor)
<1>1. CASE t = "after_enable_status_on"
  <2>1. n \in 1..3 /\ Body[t] = <<Disable(2), Enable(2), IsOn(2)>>
    BY <1>1, Bodies
  <2> QED
    BY <1>1, <2>1, NoAssertions
<1>2. CASE t = "after_disable_status_off"
  <2>1. n \in 1..3 /\ Body[t] = <<Enable(3), Disable(3), IsOff(3)>>
    BY <1>2, Bodies
  <2> QED
    BY <1>2, <2>1, NoAssertions
<1>3. CASE t = "when_chan_enable"
  <2>1. n \in 1..5 /\ Body[t] =
          <<Stub(4, xA5), Enable(4), Measure(4), Returned(0), Measured(xA5)>>
    BY <1>3, Bodies
  <2> QED
    BY <1>3, <2>1, NoAssertions
<1>4. CASE t = "when_chan_disable"
  <2>1. n \in 1..6 /\ Body[t] =
          <<Enable(5), Measure(5), Returned(0), Disable(5), Measure(5), Returned(-1)>>
    BY <1>4, Bodies
  <2> QED
    BY <1>4, <2>1, NoAssertions
<1>5. CASE t = "before_enable"
  <2>1. n \in 1..2 /\ Body[t] = <<Measure(1), Returned(-1)>>
    BY <1>5, Bodies
  <2> QED
    BY <1>5, <2>1, NoAssertions
<1>6. CASE t = "all_chan_disable"
  <2>1. n \in 1..2 /\ Body[t] = <<IsOff(0), IsOff(1)>>
    BY <1>6, Bodies
  <2> QED
    BY <1>6, <2>1
<1>7. CASE t = "clock_divisor_0x40"
  <2>1. n = 1 /\ Body[t] = <<Divisor(DefaultDivisor)>>
    BY <1>7, Bodies
  <2> QED
    BY <1>7, <2>1
<1> QED
  BY <1>1, <1>2, <1>3, <1>4, <1>5, <1>6, <1>7

\* Between two tests the one that ends joins those that ran.
LEMMA PastGrows ==
  ASSUME SuiteType, NextTest, place <= Len(list)
  PROVE  Past' = Past \cup {list[place]}
  BY DEF SuiteType, NextTest, Past

LEMMA AfterTest ==
  ASSUME SuiteType, EngineLeft, ClockLeft, NextTest, UNCHANGED <<module, page>>,
         place <= Len(list), 3 \notin engine, 5 \notin engine,
         Current("after_enable_status_on") => 2 \in engine,
         Current("when_chan_enable") => 4 \in engine
  PROVE  EngineLeft' /\ ClockLeft' /\ RefusedBefore'
<1>1. Past' = Past \cup {list[place]} /\ line' = 1 /\ engine' = engine
  BY PastGrows DEF NextTest, page
<1>2. EngineLeft'
  <2>1. "after_enable_status_on" \in Past' => 2 \in engine
    BY <1>1 DEF EngineLeft, Current
  <2>2. "when_chan_enable" \in Past' => 4 \in engine
    BY <1>1 DEF EngineLeft, Current
  <2> QED
    BY <1>1, <2>1, <2>2 DEF EngineLeft, Current
<1>3. ClockLeft'
  BY <1>1 DEF ClockLeft, Current, page, adc_get_clock_divisor
<1> QED
  BY <1>1, <1>2, <1>3 DEF RefusedBefore

\* A call of test t, at its statement n.
LEMMA CallLeft ==
  ASSUME SuiteType, EngineLeft, ClockLeft, Failures, NEW t \in Tests,
         NEW n \in 1..Len(Body[t]), Current(t), line = n, Call(Body[t][n]),
         line' = n + 1, UNCHANGED <<list, place, failed, module>>
  PROVE  EngineLeft' /\ ClockLeft' /\ RefusedBefore' /\ Failures'
<1>1. Past' = Past /\ \A u : Current(u)' <=> u = t
  BY DEF Past, Current
<1>2. \A u : Current(u) <=> u = t
  BY DEF Current
<1>3. n \in Nat
  OBVIOUS
<1>4. /\ t = "after_enable_status_on" =>
           \/ n = 1 /\ engine' = engine \ {2}
           \/ n = 2 /\ engine' = engine \cup {2}
      /\ t = "after_disable_status_off" =>
           \/ n = 1 /\ engine' = engine \cup {3}
           \/ n = 2 /\ engine' = engine \ {3}
      /\ t = "when_chan_enable" =>
           \/ n \in {1, 3} /\ engine' = engine
           \/ n = 2 /\ engine' = engine \cup {4}
      /\ t = "when_chan_disable" =>
           \/ n = 1 /\ engine' = engine \cup {5}
           \/ n \in {2, 5} /\ engine' = engine
           \/ n = 4 /\ engine' = engine \ {5}
      /\ t \in {"ioctl_set_clock", "before_enable"} => n = 1 /\ engine' = engine
      /\ t = "before_enable" /\ 1 \notin engine => answer'.ret = -1
      /\ t # "ioctl_set_clock" => clock' = clock
      /\ t \notin {"all_chan_disable", "clock_divisor_0x40", "reg_chardev"}
  BY CallEffect
<1>5. EngineLeft'
  <2>1. engine' \subseteq {2, 3, 4, 5}
    BY <1>4 DEF EngineLeft, Tests
  <2>2. 3 \in engine' => t = "after_disable_status_off" /\ n = 1
    BY <1>2, <1>4 DEF EngineLeft, Tests
  <2>3. 5 \in engine' => t = "when_chan_disable" /\ n + 1 \in 2..4
    BY <1>2, <1>3, <1>4 DEF EngineLeft, Tests
  <2>4. t = "after_enable_status_on" /\ n + 1 >= 3 => 2 \in engine'
    BY <1>3, <1>4
  <2>5. t = "when_chan_enable" /\ n + 1 >= 3 => 4 \in engine'
    BY <1>2, <1>3, <1>4 DEF EngineLeft
  <2>6. "after_enable_status_on" \in Past =>
          2 \in engine' \/ (t = "after_enable_status_on" /\ n = 1)
    BY <1>2, <1>4 DEF EngineLeft, Tests
  <2>7. "when_chan_enable" \in Past => 4 \in engine'
    BY <1>4 DEF EngineLeft, Tests
  <2> QED
    BY <1>1, <2>1, <2>2, <2>3, <2>4, <2>5, <2>6, <2>7 DEF EngineLeft
<1>6. ClockLeft'
  BY <1>1, <1>2, <1>4 DEF ClockLeft, adc_get_clock_divisor
<1>7. RefusedBefore'
  BY <1>1, <1>4 DEF RefusedBefore, EngineLeft
<1> QED
  BY <1>5, <1>6, <1>7 DEF Failures

\* An assertion of test t, at its statement n.
LEMMA AssertLeft ==
  ASSUME SuiteType, EngineLeft, ClockLeft, RefusedBefore, Failures, NEW t \in Tests,
         NEW n \in 1..Len(Body[t]), Current(t), line = n, module = "testing",
         Progress(t, n), Body[t][n].what \in Assertions, UNCHANGED vars,
         IF Holds(Body[t][n]) THEN line' = n + 1 /\ UNCHANGED <<list, place, failed>>
                              ELSE failed' = failed \cup {t} /\ NextTest
  PROVE  EngineLeft' /\ ClockLeft' /\ RefusedBefore' /\ Failures'
<1>1. \A u : Current(u) <=> u = t
  BY DEF Current
<1>2. /\ t \in {"after_enable_status_on", "after_disable_status_off"} => n = 3
      /\ t = "when_chan_enable" => n \in 4..5
      /\ t = "when_chan_disable" => n \in {3, 6}
      /\ t = "before_enable" => n = 2 /\ Body[t][n] = Returned(-1)
      /\ t = "all_chan_disable" => Body[t][n] \in {IsOff(0), IsOff(1)}
      /\ t = "clock_divisor_0x40" => Body[t][n] = Divisor(DefaultDivisor)
  BY AssertPlaces
<1>3. n \in Nat /\ UNCHANGED <<module, page, engine>>
  BY DEF vars, page
<1>4. 3 \notin engine /\ (5 \in engine => t = "when_chan_disable" /\ n = 3)
  BY <1>1, <1>2 DEF EngineLeft
<1>5. CASE Holds(Body[t][n])
  <2>1. line' = n + 1 /\ UNCHANGED <<list, place, failed>>
    BY <1>5
  <2>2. Past' = Past /\ \A u : Current(u)' <=> u = t
    BY <2>1, <1>1 DEF Past, Current
  <2>3. EngineLeft'
    BY <1>1, <1>2, <1>3, <1>4, <2>1, <2>2 DEF EngineLeft
  <2>4. ClockLeft'
    BY <1>1, <1>3, <2>2 DEF ClockLeft, page, adc_get_clock_divisor
  <2>5. RefusedBefore'
    BY <1>2, <2>1, <2>2 DEF RefusedBefore
  <2> QED
    BY <2>1, <2>3, <2>4, <2>5 DEF Failures
<1>6. CASE ~Holds(Body[t][n])
  <2>1. failed' = failed \cup {t} /\ NextTest
    BY <1>6
  <2>2. t \in FirstTests
    BY <1>6, AssertProgress
  <2>3. t # "all_chan_disable"
    <3>1. Holds(IsOff(0)) /\ Holds(IsOff(1))
      BY Asserted DEF EngineLeft
    <3> QED
      BY <1>2, <1>6, <3>1
  <2>4. t # "before_enable"
    BY <1>2, <1>6, <1>1, Asserted DEF RefusedBefore
  <2>5. t = "clock_divisor_0x40"
    BY <2>2, <2>3, <2>4 DEF FirstTests
  <2>6. adc_get_clock_divisor # DefaultDivisor
    BY <1>2, <1>6, <2>5, Asserted
  <2>7. PICK j \in 1..place - 1 : list[j] = "ioctl_set_clock"
    BY <1>1, <2>5, <2>6 DEF ClockLeft, Past
  <2>8. EngineLeft' /\ ClockLeft' /\ RefusedBefore'
    BY <1>1, <1>3, <1>4, <2>1, <2>5, AfterTest DEF Current
  <2>9. Failures'
    <3>1. place \in 1..Len(list) /\ j \in 1..Len(list) /\ j < place
      BY DEF SuiteType, Current
    <3>2. list[place] = "clock_divisor_0x40" /\ list' = list
      BY <2>1, <2>5 DEF Current, NextTest
    <3> QED
      BY <2>1, <2>5, <2>7, <3>1, <3>2 DEF Failures
  <2> QED
    BY <2>8, <2>9
<1> QED
  BY <1>5, <1>6

\* At the end of the tests, and of the module, nothing runs.
LEMMA EndedStep ==
  ASSUME SuiteType, Ended, [SuiteNext]_suiteVars
  PROVE  Ended'
<1>1. CASE TEST_BEGIN
  BY <1>1 DEF TEST_BEGIN, adc_mod_init, Ended
<1>2. CASE CallStep \/ NewTestCalls
  <2>1. module' = "testing"
    <3>1. module = "testing"
      BY <1>2 DEF CallStep, NewTestCalls, Running
    <3>2. CASE CallStep
      BY <3>1, <3>2 DEF CallStep, Call, IOCTL_SET_ADC_CLOCK, IOCTL_ENABLE_ADC,
                        IOCTL_ADC_MEASURE, adc_set_stubval
    <3>3. CASE NewTestCalls
      BY <3>1, <3>3 DEF NewTestCalls, IOCTL_SET_ADC_CLOCK, IOCTL_ENABLE_ADC,
                        IOCTL_ADC_MEASURE, adc_set_stubval, UnknownCommand
    <3> QED
      BY <1>2, <3>2, <3>3
  <2> QED
    BY <2>1 DEF Ended
<1>3. CASE TEST_ASSERT \/ TestReturns \/ NewTestReturns
  BY <1>3 DEF TEST_ASSERT, TestReturns, NewTestReturns, Running, vars, Ended
<1>4. CASE TEST_END \/ Unload \/ UNCHANGED suiteVars
  BY <1>4 DEF TEST_END, Unload, TestsEnd, adc_mod_cleanup, suiteVars, suite, vars, Ended
<1> QED
  BY <1>1, <1>2, <1>3, <1>4 DEF SuiteNext

LEMMA NineInvStep ==
  SuiteInv /\ NineInv /\ [SuiteNext]_suiteVars => NineInv'
<1> SUFFICES ASSUME SuiteInv, NineInv, [SuiteNext]_suiteVars PROVE NineInv'
  OBVIOUS
<1>0. SuiteType /\ ProgressInv /\ Ended
  BY DEF SuiteInv, NineInv
<1>1. Ended'
  BY <1>0, EndedStep
<1> SUFFICES ASSUME Nine'
             PROVE  EngineLeft' /\ ClockLeft' /\ RefusedBefore' /\ Failures'
  BY <1>1 DEF NineInv
<1>2. CASE TEST_BEGIN
  <2>1. /\ engine' = {} /\ clock' = DefaultDivisor
        /\ place' = 1 /\ line' = 1 /\ failed' = {}
    BY <1>2 DEF TEST_BEGIN, adc_mod_init, WithDivisor
  <2>2. adc_get_clock_divisor' = DefaultDivisor
    BY <2>1 DEF adc_get_clock_divisor, ADC_DIVISOR_OF_ADC_CLOCK, DefaultDivisor
  <2>3. DefaultDivisor' = DefaultDivisor /\ Past' = {}
    BY <2>1 DEF DefaultDivisor, Past
  <2> QED
    BY <2>1, <2>2, <2>3 DEF EngineLeft, ClockLeft, RefusedBefore, Failures
<1> SUFFICES ASSUME ~TEST_BEGIN
             PROVE  EngineLeft' /\ ClockLeft' /\ RefusedBefore' /\ Failures'
  BY <1>2
<1>3. list' = list
  BY DEF SuiteNext, CallStep, TEST_ASSERT, TestReturns, NewTestCalls, NewTestReturns,
         NextTest, TEST_END, Unload, suiteVars, suite
<1>4. Nine /\ EngineLeft /\ ClockLeft /\ RefusedBefore /\ Failures
  BY <1>3 DEF Nine, NineInv
<1>5. CASE CallStep
  <2>1. PICK t \in Tests : t = list[place]
    BY <1>5 DEF CallStep
  <2>2. PICK n \in 1..Len(Body[t]) : n = line
    <3>1. Len(Body[t]) \in Nat
      BY Bodies DEF Tests
    <3> QED
      BY <1>0, <1>5, <2>1, <3>1 DEF CallStep, SuiteType
  <2>3. Call(Body[t][n]) /\ line' = n + 1 /\ UNCHANGED <<list, place, failed>>
    BY <1>5, <2>1, <2>2 DEF CallStep
  <2>4. Current(t) /\ UNCHANGED module
    BY <1>5, <2>1 DEF CallStep, Running, Current, Call, IOCTL_SET_ADC_CLOCK,
                      IOCTL_ENABLE_ADC, IOCTL_ADC_MEASURE, adc_set_stubval
  <2> QED
    BY <1>0, <1>4, <2>2, <2>3, <2>4, CallLeft
<1>6. CASE TEST_ASSERT
  <2>1. PICK t \in Tests : t = list[place]
    BY <1>6 DEF TEST_ASSERT
  <2>2. PICK n \in 1..Len(Body[t]) : n = line
    <3>1. Len(Body[t]) \in Nat
      BY Bodies DEF Tests
    <3> QED
      BY <1>0, <1>6, <2>1, <3>1 DEF TEST_ASSERT, SuiteType
  <2>3. Progress(t, n) /\ Body[t][n].what \in Assertions /\ UNCHANGED vars
    BY <1>0, <1>6, <2>1, <2>2 DEF ProgressInv, TEST_ASSERT
  <2>4. Current(t) /\ module = "testing"
    BY <1>6, <2>1 DEF TEST_ASSERT, Running, Current
  <2>5. IF Holds(Body[t][n]) THEN line' = n + 1 /\ UNCHANGED <<list, place, failed>>
                             ELSE failed' = failed \cup {t} /\ NextTest
    BY <1>6, <2>1, <2>2 DEF TEST_ASSERT
  <2> QED
    BY <1>0, <1>4, <2>2, <2>3, <2>4, <2>5, AssertLeft
<1>7. CASE TestReturns
  <2>1. PICK t \in Tests : t = list[place]
    BY <1>7 DEF TestReturns
  <2>2. \A u : Current(u) <=> u = t
    BY <1>7, <2>1 DEF TestReturns, Running, Current
  <2>3. line \in Nat /\ line > Len(Body[t])
    BY <1>0, <1>7, <2>1 DEF TestReturns, SuiteType
  <2>4. /\ t \in {"after_enable_status_on", "after_disable_status_off"} => line > 3
        /\ t = "when_chan_enable" => line > 5
        /\ t = "when_chan_disable" => line > 6
    <3>1. /\ Len(Body["after_enable_status_on"]) = 3
          /\ Len(Body["after_disable_status_off"]) = 3
          /\ Len(Body["when_chan_enable"]) = 5
          /\ Len(Body["when_chan_disable"]) = 6
      BY Bodies
    <3> QED
      BY <2>3, <3>1
  <2>5. /\ 3 \notin engine /\ 5 \notin engine
        /\ Current("after_enable_status_on") => 2 \in engine
        /\ Current("when_chan_enable") => 4 \in engine
    BY <1>4, <2>2, <2>3, <2>4 DEF EngineLeft
  <2>6. NextTest /\ place <= Len(list) /\ UNCHANGED <<module, page, failed>>
    BY <1>7 DEF TestReturns, Running, vars
  <2>7. EngineLeft' /\ ClockLeft' /\ RefusedBefore'
    BY <1>0, <1>4, <2>5, <2>6, AfterTest
  <2> QED
    BY <1>3, <1>4, <2>6, <2>7 DEF Failures
<1>8. CASE NewTestCalls \/ NewTestReturns
  <2>1. place \in 1..Len(list) /\ list[place] = "new"
    BY <1>0, <1>8 DEF NewTestCalls, NewTestReturns, Running, SuiteType
  <2> QED
    BY <1>4, <2>1 DEF Nine
<1>9. CASE TEST_END \/ Unload \/ UNCHANGED suiteVars
  <2>1. UNCHANGED <<suite, page, answer>> /\ (module' = "testing" => module = "testing")
    BY <1>9 DEF TEST_END, Unload, TestsEnd, adc_mod_cleanup, suiteVars, vars
  <2>2. Past' = Past /\ \A u : Current(u)' <=> Current(u)
    BY <2>1 DEF suite, Past, Current
  <2>3. EngineLeft'
    BY <1>4, <2>1, <2>2 DEF suite, page, EngineLeft
  <2>4. ClockLeft'
    BY <1>4, <2>1, <2>2 DEF suite, page, ClockLeft, adc_get_clock_divisor
  <2>5. RefusedBefore' /\ Failures'
    BY <1>4, <2>1, <2>2 DEF suite, RefusedBefore, Failures
  <2> QED
    BY <2>3, <2>4, <2>5
<1> QED
  BY <1>5, <1>6, <1>7, <1>8, <1>9 DEF SuiteNext

LEMMA NineInvPasses == SuiteInv /\ NineInv => NinePass
<1> SUFFICES ASSUME SuiteInv, NineInv, Nine
             PROVE  /\ Failures
                    /\ module = "loaded" /\ Tests \subseteq Past => engine = {2, 4}
  BY DEF NinePass, Failures, Nine, Past
<1>1. EngineLeft /\ Failures /\ Ended
  BY DEF NineInv
<1>2. ASSUME module = "loaded", Tests \subseteq Past PROVE engine = {2, 4}
  <2>1. \A t : ~Current(t)
    BY <1>1, <1>2 DEF Ended, Current, SuiteInv, SuiteType
  <2>2. "after_enable_status_on" \in Past /\ "when_chan_enable" \in Past
    BY <1>2 DEF Tests
  <2> QED
    BY <1>1, <2>1, <2>2 DEF EngineLeft
<1> QED
  BY <1>1, <1>2

\* The nine tests, in any order and however often each, all pass but the one
\* of the default divisor, which fails only after the test that sets another;
\* and a load that has run them all leaves channels 2 and 4 on, for the user
\* that opens the device next.
THEOREM NineTestsPass == SuiteSpec => []NinePass
  BY SuiteInvInit, SuiteInvStep, NineInvInit, NineInvStep, NineInvPasses, PTL DEF SuiteSpec
=============================================================================
