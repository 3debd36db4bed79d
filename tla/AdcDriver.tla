------------------------------ MODULE AdcDriver ------------------------------
(***************************************************************************)
(* The ADC driver linux_driver/ADC: module load (adc_mod_init, adc_init),  *)
(* unload, and the ioctls of any number of processes.  The ioctl handler   *)
(* takes no lock and the device is registered before adc_init runs, so     *)
(* every register access of a caller or of the loading thread is a step of *)
(* its own; a read-modify-write of a register is two.  A register is the   *)
(* set of its bits that are one.                                           *)
(***************************************************************************)
EXTENDS Integers

CONSTANTS
  Callers,    \* processes with the device open
  Channels,   \* channels they name
  Divisors,   \* clock divisors they ask for
  Raws,       \* values a conversion can have
  IoWords     \* words IOCTL_IO_WRITE stores into the engine register

\* AST2500 has channels 0..13; a greater shift count is undefined in C.
ASSUME ChannelAssumption == Channels \subseteq 0..13
ASSUME DivisorAssumption == Divisors \subseteq 0..1023
ASSUME RawAssumption     == Raws \subseteq 0..1023 /\ 0 \in Raws
ASSUME WordAssumption    == IoWords \subseteq SUBSET (0..31)

Bits == 0..31
Word == SUBSET Bits

BitsOf(n) == {k \in 0..30 : (n \div 2^k) % 2 = 1}

ADC_CHANNEL_ENABLE == 16
ADC_CLOCK_INVERSE  == 16
ADC_DIVISOR_OF_ADC_CLOCK == 1023     \* 0x3ff
SequenceDone == 8                    \* bit the engine sets, read-only
Compensating == 4
NormalBits   == {0, 1, 2, 3}

Written(word) == word \ {SequenceDone}

VARIABLES
  registered, \* register_chrdev has been called, unregister_chrdev has not
  ipc,        \* the statement of adc_mod_init and adc_init that comes next
  CV_Data,    \* the driver's calibration
  unlocked, inReset,        \* SCU: protection key written, ADC held in reset
  engine, sequenced, clock, \* control registers, and the SequenceDone bit
  data,       \* data[k][h]: half h of the data register of channels 2k, 2k+1
  cpc, req,   \* each caller's place in an ioctl, and the ioctl's argument
  snap,       \* the register value a caller has read and not yet used
  raw_data, readdata, \* what IOCTL_ADC_MEASURE read, and the sum it works on
  result,     \* the Data an IOCTL_ADC_MEASURE gave back last
  disturbed,  \* an ioctl began before adc_init had ended, or wrote the engine raw
  requested,  \* channels asked for since the module was loaded
  kept        \* channels enabled while no other caller held a register value

loader  == <<registered, ipc, CV_Data, unlocked, inReset>>
device  == <<engine, sequenced, clock, data>>
callers == <<cpc, req, snap, raw_data, readdata, result>>
ghosts  == <<disturbed, requested, kept>>
vars    == <<loader, device, callers, ghosts>>

NoArg == [chan |-> 0, divisor |-> 0, inverse |-> 0, word |-> {}]

Init ==
  /\ registered = FALSE /\ ipc = "unloaded" /\ CV_Data = 0
  /\ unlocked = FALSE /\ inReset = TRUE
  /\ engine = {} /\ sequenced = FALSE /\ clock = {}
  /\ data = [k \in 0..6 |-> [h \in 0..1 |-> 0]]
  /\ cpc = [t \in Callers |-> "user"]
  /\ req = [t \in Callers |-> NoArg]
  /\ snap = [t \in Callers |-> {}]
  /\ raw_data = [t \in Callers |-> 0]
  /\ readdata = [t \in Callers |-> 0]
  /\ result = [t \in Callers |-> 0]
  /\ disturbed = FALSE /\ requested = {} /\ kept = {}

Engine == engine \cup (IF sequenced THEN {SequenceDone} ELSE {})

\* A register of a device held in reset does not take a value.
WriteEngine(word) == engine' = IF inReset THEN engine ELSE Written(word)
WriteClock(word)  == clock' = IF inReset THEN clock ELSE word

adc_measure(c) == data[c \div 2][c % 2]

-----------------------------------------------------------------------------
(***************************************************************************)
(* Loading and unloading the module.                                       *)
(***************************************************************************)

At(here, next) == ipc = here /\ ipc' = next

adc_mod_init ==
  /\ At("unloaded", "unlock")
  /\ registered' = TRUE /\ CV_Data' = 0
  /\ disturbed' = FALSE /\ requested' = {} /\ kept' = {}
  /\ UNCHANGED <<unlocked, inReset, device, callers>>

UnlockWithWrongKey ==
  /\ At("unlock", "reset_on")
  /\ UNCHANGED <<registered, CV_Data, unlocked, inReset, device, callers, ghosts>>

UnlockScu ==
  /\ At("unlock", "reset_on") /\ unlocked' = TRUE
  /\ UNCHANGED <<registered, CV_Data, inReset, device, callers, ghosts>>

\* Reset returns the registers to zero.
ResetOn ==
  /\ At("reset_on", "reset_off")
  /\ inReset' = (unlocked \/ inReset)
  /\ IF inReset' THEN engine' = {} /\ sequenced' = FALSE /\ clock' = {}
                 ELSE UNCHANGED <<engine, sequenced, clock>>
  /\ UNCHANGED <<registered, CV_Data, unlocked, data, callers, ghosts>>

ResetOff ==
  /\ At("reset_off", "clock")
  /\ inReset' = (inReset /\ ~unlocked)
  /\ UNCHANGED <<registered, CV_Data, unlocked, device, callers, ghosts>>

SetClock ==
  /\ At("clock", "sequence") /\ WriteClock(BitsOf(64))
  /\ UNCHANGED <<registered, CV_Data, unlocked, inReset, engine, sequenced, data,
                 callers, ghosts>>

SequenceWithoutEnable == {1, 2, 3}
CompensatingWord      == {0, 1, 2, 3, 4}

SequenceWord == {0, 1, 2, 3}         \* 0x0000000f
NormalWord   == {0, 1, 2, 3}         \* 0x0000000f again, at the end

InitWritesEngine(here, next, word) ==
  /\ At(here, next) /\ WriteEngine(word)
  /\ UNCHANGED <<registered, CV_Data, unlocked, inReset, sequenced, clock, data,
                 callers, ghosts>>

SequenceCheck == InitWritesEngine("sequence", "wait", SequenceWord)

\* The loop that waits for the engine; it has no time limit.
SequenceSeen ==
  /\ At("wait", "sense") /\ SequenceDone \in Engine
  /\ UNCHANGED <<registered, CV_Data, unlocked, inReset, device, callers, ghosts>>

Sense        == InitWritesEngine("sense", "sense_chan0", {0, 1, 2, 3, 4})
SenseChannel == InitWritesEngine("sense_chan0", "calibrate", {0, 1, 2, 3, 4, 16})

CalibrationFromFullScale(raw) == 1024 - raw

Calibration(raw) == 512 - raw

Calibrate ==
  /\ At("calibrate", "normal") /\ CV_Data' = Calibration(adc_measure(0))
  /\ UNCHANGED <<registered, unlocked, inReset, device, callers, ghosts>>

NormalMode == InitWritesEngine("normal", "lock", NormalWord)

LockScu ==
  /\ At("lock", "done") /\ unlocked' = FALSE
  /\ UNCHANGED <<registered, CV_Data, inReset, device, callers, ghosts>>

AdcInitStep == \/ UnlockScu \/ ResetOn \/ ResetOff \/ SetClock \/ SequenceCheck
               \/ SequenceSeen \/ Sense \/ SenseChannel \/ Calibrate
               \/ NormalMode \/ LockScu

\* The module has no owner field: nothing but the wish to model defined
\* behaviour makes it wait here for the ioctls that are still running.
adc_mod_cleanup ==
  /\ At("done", "unloaded") /\ registered' = FALSE
  /\ \A t \in Callers : cpc[t] = "user"
  /\ UNCHANGED <<CV_Data, unlocked, inReset, device, callers, ghosts>>

-----------------------------------------------------------------------------
(***************************************************************************)
(* ioaccess_ioctl.  An unknown command and IOCTL_IO_READ change no state.  *)
(***************************************************************************)

Enter(t, place, arg) ==
  /\ registered /\ cpc[t] = "user"
  /\ cpc' = [cpc EXCEPT ![t] = place]
  /\ req' = [req EXCEPT ![t] = arg]
  /\ disturbed' = (disturbed \/ ipc # "done")
  /\ UNCHANGED <<loader, device, snap, raw_data, readdata, result>>

\* The argument is a local copy, gone when the ioctl returns.
Step(t, here, next) ==
  /\ cpc[t] = here /\ cpc' = [cpc EXCEPT ![t] = next]
  /\ req' = IF next = "user" THEN [req EXCEPT ![t] = NoArg] ELSE req

IOCTL_ENABLE_ADC(t, c) ==
  /\ Enter(t, "enable_read", [NoArg EXCEPT !.chan = c])
  /\ requested' = requested \cup {c}
  /\ UNCHANGED kept

\* The two casts to unsigned char.
IOCTL_SET_ADC_CLOCK(t, d, v) ==
  /\ Enter(t, "clock_read", [NoArg EXCEPT !.divisor = d % 256, !.inverse = v % 256])
  /\ UNCHANGED <<requested, kept>>

IOCTL_ADC_MEASURE(t, c) ==
  /\ Enter(t, "measure_read", [NoArg EXCEPT !.chan = c])
  /\ UNCHANGED <<requested, kept>>

IOCTL_IO_WRITE(t, w) ==
  /\ Enter(t, "io_write", [NoArg EXCEPT !.word = w])
  /\ UNCHANGED <<requested, kept>>

\* write_register_or: the read, then the write.
EnableRead(t) ==
  /\ Step(t, "enable_read", "enable_write")
  /\ snap' = [snap EXCEPT ![t] = Engine]
  /\ UNCHANGED <<loader, device, raw_data, readdata, result, ghosts>>

OnlyThisChannel(word, c) == {ADC_CHANNEL_ENABLE + c}

WithChannel(word, c) == word \cup {ADC_CHANNEL_ENABLE + c}

Alone(t) == \A u \in Callers \ {t} : cpc[u] # "enable_write"

EnableWrite(t) ==
  /\ Step(t, "enable_write", "user")
  /\ WriteEngine(WithChannel(snap[t], req[t].chan))
  /\ kept' = IF ipc = "done" /\ Alone(t) THEN kept \cup {req[t].chan} ELSE kept
  /\ snap' = [snap EXCEPT ![t] = {}]
  /\ UNCHANGED <<loader, sequenced, clock, data, raw_data, readdata, result,
                 disturbed, requested>>

(***************************************************************************)
(* write_register_and puts ~ before its argument without parentheses: for  *)
(* the sum a + b of set_adc_clock the mask is ~a + b, which is ~(a - b).   *)
(***************************************************************************)
ClockMask == Bits \ BitsOf(2^ADC_CLOCK_INVERSE - ADC_DIVISOR_OF_ADC_CLOCK)

ClockRead(t) ==
  /\ Step(t, "clock_read", "clock_write")
  /\ snap' = [snap EXCEPT ![t] = clock]
  /\ UNCHANGED <<loader, device, raw_data, readdata, result, ghosts>>

\* What does not fit the register is lost.
ClockWord(word, arg) ==
  Bits \cap ((word \cap ClockMask) \cup BitsOf(arg.divisor)
               \cup {ADC_CLOCK_INVERSE + k : k \in BitsOf(arg.inverse)})

ClockWrite(t) ==
  /\ Step(t, "clock_write", "user")
  /\ WriteClock(ClockWord(snap[t], req[t]))
  /\ snap' = [snap EXCEPT ![t] = {}]
  /\ UNCHANGED <<loader, engine, sequenced, data, raw_data, readdata, result, ghosts>>

MeasureRead(t) ==
  /\ Step(t, "measure_read", "measure_add")
  /\ raw_data' = [raw_data EXCEPT ![t] = adc_measure(req[t].chan)]
  /\ UNCHANGED <<loader, device, snap, readdata, result, ghosts>>

MeasureAdd(t) ==
  /\ Step(t, "measure_add", "measure_clamp")
  /\ readdata' = [readdata EXCEPT ![t] = raw_data[t] + CV_Data]
  /\ UNCHANGED <<loader, device, snap, raw_data, result, ghosts>>

ClampNegative(sum) == IF sum < 0 THEN 0 ELSE sum

\* CV_Data is read a second time, to recognise a raw value of zero.
Clamp(sum) == IF sum < 0 \/ sum = CV_Data THEN 0 ELSE sum

MeasureClamp(t) ==
  /\ Step(t, "measure_clamp", "user")
  /\ result' = [result EXCEPT ![t] = Clamp(readdata[t])]
  /\ raw_data' = [raw_data EXCEPT ![t] = 0] /\ readdata' = [readdata EXCEPT ![t] = 0]
  /\ UNCHANGED <<loader, device, snap, ghosts>>

\* A raw store; here its address is that of the engine control register.
IoWrite(t) ==
  /\ Step(t, "io_write", "user")
  /\ WriteEngine(req[t].word)
  /\ disturbed' = TRUE /\ kept' = {}
  /\ UNCHANGED <<loader, sequenced, clock, data, snap, raw_data, readdata, result, requested>>

CallerEnters(t) ==
  \/ \E c \in Channels : IOCTL_ENABLE_ADC(t, c) \/ IOCTL_ADC_MEASURE(t, c)
  \/ \E d \in Divisors, v \in {0, 1} : IOCTL_SET_ADC_CLOCK(t, d, v)
  \/ \E w \in IoWords : IOCTL_IO_WRITE(t, w)

CallerStep(t) == \/ EnableRead(t) \/ EnableWrite(t) \/ ClockRead(t) \/ ClockWrite(t)
                 \/ MeasureRead(t) \/ MeasureAdd(t) \/ MeasureClamp(t) \/ IoWrite(t)

-----------------------------------------------------------------------------
(***************************************************************************)
(* The ADC engine, external.                                               *)
(***************************************************************************)

HwSequence ==
  /\ ~inReset /\ ~sequenced /\ NormalBits \subseteq engine
  /\ sequenced' = TRUE
  /\ UNCHANGED <<loader, engine, clock, data, callers, ghosts>>

HwConvert(c, raw) ==
  /\ ~inReset /\ 0 \in engine /\ ADC_CHANNEL_ENABLE + c \in engine
  /\ data' = [data EXCEPT ![c \div 2][c % 2] = raw]
  /\ UNCHANGED <<loader, engine, sequenced, clock, callers, ghosts>>

Next == \/ adc_mod_init \/ adc_mod_cleanup \/ AdcInitStep
        \/ \E t \in Callers : CallerEnters(t) \/ CallerStep(t)
        \/ HwSequence \/ \E c \in Channels \cup {0}, raw \in Raws : HwConvert(c, raw)

(***************************************************************************)
(* insmod runs adc_init to its end and an enabled engine ends its check;   *)
(* nobody has to call, and nothing is assumed of the order of callers.     *)
(***************************************************************************)
Spec == Init /\ [][Next]_vars /\ WF_vars(AdcInitStep) /\ WF_vars(HwSequence)

-----------------------------------------------------------------------------
(***************************************************************************)
(* Properties.                                                             *)
(***************************************************************************)

InitPlaces == {"unloaded", "unlock", "reset_on", "reset_off", "clock", "sequence",
               "wait", "sense", "sense_chan0", "calibrate", "normal", "lock", "done"}

CallPlaces == {"user", "enable_read", "enable_write", "clock_read", "clock_write",
               "measure_read", "measure_add", "measure_clamp", "io_write"}

Args == [chan : 0..13, divisor : 0..255, inverse : 0..255, word : Word]

TenBits      == 0..1023
Calibrations == -511..512
Sums         == -511..1535
Readings     == 0..1535

LoaderOK ==
  /\ registered \in BOOLEAN /\ ipc \in InitPlaces /\ CV_Data \in Calibrations
  /\ unlocked \in BOOLEAN /\ inReset \in BOOLEAN

DeviceOK ==
  /\ engine \in Word /\ sequenced \in BOOLEAN /\ clock \in Word
  /\ data \in [0..6 -> [0..1 -> TenBits]]

CallersOK ==
  /\ cpc \in [Callers -> CallPlaces] /\ req \in [Callers -> Args]
  /\ snap \in [Callers -> Word]
  /\ raw_data \in [Callers -> TenBits] /\ readdata \in [Callers -> Sums]
  /\ result \in [Callers -> Readings]

GhostsOK == disturbed \in BOOLEAN /\ requested \subseteq 0..13 /\ kept \subseteq 0..13

\* Type invariant.  The calibration is that of a ten-bit value around 0x200,
\* and a negative sum never gets into the unsigned Data field, whichever
\* CV_Data each of the two reads of it in IOCTL_ADC_MEASURE sees.
TypeOK == LoaderOK /\ DeviceOK /\ CallersOK /\ GhostsOK

\* After adc_init, for as long as no ioctl began before its end and none
\* wrote the engine raw, the engine is enabled in normal mode, compensation
\* is off, and no channel is on that nobody asked for, whatever the order
\* of the unlocked read-modify-writes.  That is what the code does; a comment
\* of it has channel 0 on from the start, see ChannelZeroByDefault.
EngineConfined ==
  ipc = "done" /\ ~disturbed =>
    /\ NormalBits \subseteq engine
    /\ engine \subseteq NormalBits \cup {ADC_CHANNEL_ENABLE + c : c \in requested}

\* A channel stays enabled if, at the write that enabled it, no other caller
\* was between the read and the write of its own enable ioctl; that is the
\* whole of what the unlocked ioctl handler loses.
KeptChannels ==
  ipc = "done" => \A c \in kept : ADC_CHANNEL_ENABLE + c \in engine

\* A raw value of zero is reported as zero, also when adc_init stores CV_Data
\* between the two reads of it in IOCTL_ADC_MEASURE.
ZeroReadsZero ==
  \A t \in Callers :
    cpc[t] = "measure_clamp" /\ raw_data[t] = 0 => Clamp(readdata[t]) = 0

\* While adc_init waits for the engine without a time limit, the engine is out
\* of reset, with the three writes behind it that make it run its sequence: it
\* never waits for an event that cannot come, unless an ioctl gets in between.
NeverWaitsInVain ==
  ipc = "wait" /\ ~disturbed => ~inReset /\ NormalBits \subseteq engine

\* Loading ends, unless an ioctl gets between registration and its end.
LoadEnds == registered ~> ipc = "done" \/ disturbed

\* "Compensating Sensing End / Enable Engine, and Normal Operation Mode"
\* (adc_drv.c:178-179): so it is once adc_init is through.
NormalModeAfterInit ==
  ipc = "done" => NormalBits \subseteq engine /\ Compensating \notin engine

\* "We will enable ADC channel0, Normal operation mode [...] as default in this
\* sample" (adc_drv.c:149): after a load that nothing disturbed, channel 0 is on.
ChannelZeroByDefault ==
  ipc = "done" /\ ~disturbed => ADC_CHANNEL_ENABLE \in engine

\* The test of the same ioctl in ADC_TDD expects the divisor read back to be
\* the divisor set (ADC_TDD/adc_drv.c:209).
DivisorReadsBack ==
  [][\A t \in Callers : ClockWrite(t) /\ ~inReset =>
       clock' \cap 0..9 = BitsOf(req[t].divisor)]_vars
=============================================================================
