------------------------------- MODULE AdcTests -------------------------------
(***************************************************************************)
(* The nine tests of linux_driver/ADC_TDD, as adc_mod_init runs them: one  *)
(* after the other on one page that nothing clears in between, so that a   *)
(* test meets what others have left behind, those that failed half-way     *)
(* too.  A list of tests may also name a new test, of any calls.           *)
(***************************************************************************)
EXTENDS AdcTdd, Sequences

CONSTANTS
  Lists,        \* lists of tests adc_mod_init may be given
  NewChannels   \* channels new tests call for

VARIABLES
  list,     \* the tests of this load
  place,    \* the test of the list that runs
  line,     \* its next statement
  failed    \* tests that returned false; the code counts them

suite == <<list, place, line, failed>>
suiteVars == <<vars, suite>>

-----------------------------------------------------------------------------
(***************************************************************************)
(* Statements of a test: calls, and assertions on what they answer or      *)
(* leave behind.                                                           *)
(***************************************************************************)

Statement(what, c, word, ret) == [what |-> what, chan |-> c, word |-> word, ret |-> ret]

Clock(word)     == Statement("set clock", 0, word, 0)
Enable(c)       == Statement("enable", c, {0}, 0)
Disable(c)      == Statement("enable", c, {}, 0)
Stub(c, word)   == Statement("stub", c, word, 0)
Measure(c)      == Statement("measure", c, {}, 0)
IsOn(c)         == Statement("is on", c, {}, 0)
IsOff(c)        == Statement("is off", c, {}, 0)
Divisor(word)   == Statement("divisor", 0, word, 0)
Returned(ret)   == Statement("returned", 0, {}, ret)
Measured(word)  == Statement("measured", 0, word, 0)

xA5 == {0, 2, 5, 7}      \* 0xa5

Tests == {"all_chan_disable", "clock_divisor_0x40", "reg_chardev", "ioctl_set_clock",
          "before_enable", "after_enable_status_on", "after_disable_status_off",
          "when_chan_enable", "when_chan_disable"}

Body == [t \in Tests |->
  CASE t = "all_chan_disable"         -> <<IsOff(0), IsOff(1)>>
    [] t = "clock_divisor_0x40"       -> <<Divisor(DefaultDivisor)>>
    [] t = "reg_chardev"              -> <<>>
    [] t = "ioctl_set_clock"          -> <<Clock(xA5), Divisor(xA5)>>
    [] t = "before_enable"            -> <<Measure(1), Returned(-1)>>
    [] t = "after_enable_status_on"   -> <<Disable(2), Enable(2), IsOn(2)>>
    [] t = "after_disable_status_off" -> <<Enable(3), Disable(3), IsOff(3)>>
    [] t = "when_chan_enable"         ->
         <<Stub(4, xA5), Enable(4), Measure(4), Returned(0), Measured(xA5)>>
    [] t = "when_chan_disable"        ->
         <<Enable(5), Measure(5), Returned(0), Disable(5), Measure(5), Returned(-1)>>]

\* The order of adc_mod_init.
RunList ==
  <<"all_chan_disable", "clock_divisor_0x40", "reg_chardev", "ioctl_set_clock",
    "before_enable", "after_enable_status_on", "after_disable_status_off",
    "when_chan_enable", "when_chan_disable">>

ASSUME TestWords    == 1..5 \subseteq Channels /\ xA5 \in Words
ASSUME NewAssumption == NewChannels \subseteq Channels
ASSUME ListAssumption == Lists \subseteq Seq(Tests \cup {"new"})

Call(s) ==
  \/ s.what = "set clock" /\ IOCTL_SET_ADC_CLOCK(s.word)
  \/ s.what = "enable"    /\ IOCTL_ENABLE_ADC(s.chan, s.word)
  \/ s.what = "measure"   /\ IOCTL_ADC_MEASURE(s.chan)
  \/ s.what = "stub"      /\ adc_set_stubval(s.chan, s.word)

Assertions == {"is on", "is off", "divisor", "returned", "measured"}

Holds(s) ==
  \/ s.what = "is on"    /\ adc_get_chan_status(s.chan)
  \/ s.what = "is off"   /\ ~adc_get_chan_status(s.chan)
  \/ s.what = "divisor"  /\ adc_get_clock_divisor = s.word
  \/ s.what = "returned" /\ answer.ret = s.ret
  \/ s.what = "measured" /\ answer.word = s.word

-----------------------------------------------------------------------------
(***************************************************************************)
(* Running the tests.                                                      *)
(***************************************************************************)

SuiteInit ==
  /\ Init
  /\ list = <<>> /\ place = 1 /\ line = 1 /\ failed = {}

TEST_BEGIN ==
  /\ adc_mod_init
  /\ list' \in Lists /\ place' = 1 /\ line' = 1 /\ failed' = {}

Running == module = "testing" /\ place <= Len(list)

\* A test is done, or an assertion of it failed.
NextTest == place' = place + 1 /\ line' = 1 /\ UNCHANGED list

CallStep ==
  /\ Running /\ list[place] \in Tests /\ line <= Len(Body[list[place]])
  /\ Call(Body[list[place]][line])
  /\ line' = line + 1 /\ UNCHANGED <<list, place, failed>>

TEST_ASSERT ==
  /\ Running /\ list[place] \in Tests /\ line <= Len(Body[list[place]])
  /\ LET s == Body[list[place]][line]
     IN  /\ s.what \in Assertions
         /\ IF Holds(s) THEN line' = line + 1 /\ UNCHANGED <<list, place, failed>>
                        ELSE failed' = failed \cup {list[place]} /\ NextTest
  /\ UNCHANGED vars

TestReturns ==
  /\ Running /\ list[place] \in Tests /\ line > Len(Body[list[place]])
  /\ NextTest /\ UNCHANGED <<vars, failed>>

NewTestCalls ==
  /\ Running /\ list[place] = "new"
  /\ \/ \E word \in Words : IOCTL_SET_ADC_CLOCK(word)
     \/ \E c \in NewChannels : \/ IOCTL_ADC_MEASURE(c)
                               \/ \E enable \in Enables : IOCTL_ENABLE_ADC(c, enable)
                               \/ \E word \in Words : adc_set_stubval(c, word)
     \/ UnknownCommand
  /\ UNCHANGED suite

NewTestReturns ==
  /\ Running /\ list[place] = "new"
  /\ NextTest /\ UNCHANGED <<vars, failed>>

\* Also when tests have failed, the module is loaded.
TEST_END == place > Len(list) /\ TestsEnd /\ UNCHANGED suite

Unload == adc_mod_cleanup /\ UNCHANGED suite

SuiteNext ==
  \/ TEST_BEGIN \/ CallStep \/ TEST_ASSERT \/ TestReturns
  \/ NewTestCalls \/ NewTestReturns \/ TEST_END \/ Unload

SuiteSpec == SuiteInit /\ [][SuiteNext]_suiteVars

-----------------------------------------------------------------------------
(***************************************************************************)
(* Properties.                                                             *)
(***************************************************************************)

\* The tests that assert what a new page holds, not what they have set up.
FirstTests == {"all_chan_disable", "clock_divisor_0x40", "before_enable"}

\* The other tests pass after any tests and any calls: none of them rests on
\* what another has left, though they share their registers.
OthersPass == failed \subseteq FirstTests

\* Run alone, in any order, the nine tests pass but for the one of the default
\* divisor after the one that sets another; and when all of them have run,
\* channels 2 and 4 are left on.
NinePass ==
  LET Ran == {list[k] : k \in 1..place - 1}
  IN  "new" \notin {list[k] : k \in 1..Len(list)} =>
        /\ failed \subseteq {"clock_divisor_0x40"}
        /\ failed # {} => \E j, k \in 1..Len(list) :
             j < k /\ list[j] = "ioctl_set_clock" /\ list[k] = "clock_divisor_0x40"
        /\ module = "loaded" /\ Tests \subseteq Ran => engine = {2, 4}
=============================================================================
