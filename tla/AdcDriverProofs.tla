--------------------------- MODULE AdcDriverProofs --------------------------
(***************************************************************************)
(* Proofs about AdcDriver for any number of callers and any channels,      *)
(* divisors, conversions and raw words.  IInv adds to the types where the  *)
(* loading thread and the callers can be, what the engine register holds   *)
(* once adc_init is through, and that the same holds of every register     *)
(* value a caller has read and will write back.                            *)
(***************************************************************************)
EXTENDS AdcDriver, TLAPS

Loading == {"unlock", "reset_on", "reset_off", "clock", "sequence", "wait", "sense",
            "sense_chan0", "calibrate", "normal", "lock"}

Requests == {ADC_CHANNEL_ENABLE + c : c \in requested}

\* Callers are inside only while the module is there.  The SCU stays open
\* while the device is taken out of reset, and it is never put back.
Control ==
  /\ registered <=> ipc # "unloaded"
  /\ ipc = "unloaded" => \A t \in Callers : cpc[t] = "user"
  /\ ipc \in Loading /\ ~disturbed => \A t \in Callers : cpc[t] = "user"
  /\ ipc \in Loading \ {"unlock"} => unlocked
  /\ ipc \in (Loading \ {"unlock", "reset_on", "reset_off"}) \cup {"done"} => ~inReset

Confined(word) == NormalBits \subseteq word
                  /\ word \subseteq NormalBits \cup {SequenceDone} \cup Requests

\* The engine register and the values read from it, in an undisturbed load.
QuietInv ==
  ~disturbed =>
    /\ ipc \in {"lock", "done"} => Confined(engine)
    /\ \A t \in Callers :
         /\ cpc[t] \in {"enable_read", "enable_write"} => req[t].chan \in requested
         /\ cpc[t] = "enable_write" => Confined(snap[t])

KeptBits == {ADC_CHANNEL_ENABLE + c : c \in kept}

\* Kept channels are on, and on in every value that will be written back.
KeptInv ==
  /\ ipc \in Loading => kept = {}
  /\ ipc = "done" =>
       /\ KeptBits \subseteq engine
       /\ \A t \in Callers : cpc[t] = "enable_write" => KeptBits \subseteq snap[t]

\* CV_Data is zero until it is calibrated, so a caller that added the old
\* value to a raw zero has zero.
ZeroInv ==
  /\ ipc \in Loading \ {"normal", "lock"} => CV_Data = 0
  /\ \A t \in Callers :
       cpc[t] = "measure_clamp" /\ raw_data[t] = 0 => readdata[t] \in {0, CV_Data}

\* Nobody writes the engine between adc_init's first write of it and the end
\* of its wait.
WaitInv == ipc = "wait" /\ ~disturbed => NormalBits \subseteq engine

NoSequence == SequenceDone \notin engine

IInv == TypeOK /\ Control /\ NoSequence /\ WaitInv /\ QuietInv /\ KeptInv /\ ZeroInv

-----------------------------------------------------------------------------
(***************************************************************************)
(* Types.                                                                  *)
(***************************************************************************)

\* The bits of a number are bits of a word.
LEMMA BitsOfBits == \A n : BitsOf(n) \in Word
BY DEF BitsOf, Word, Bits

\* What IOCTL_ADC_MEASURE gives back fits the Data field.
LEMMA ClampRange ==
  ASSUME NEW sum \in Sums, CV_Data \in Calibrations
  PROVE  Clamp(sum) \in Readings
<1>1. sum \in Int /\ -511 <= sum /\ sum <= 1535
  BY DEF Sums
<1> QED
  BY <1>1 DEF Clamp, Readings

\* The first state is well typed.
LEMMA TypeInit == Init => TypeOK
<1> SUFFICES ASSUME Init PROVE TypeOK
  OBVIOUS
<1>1. NoArg \in Args
  BY DEF NoArg, Args, Word, Bits
<1>2. LoaderOK
  <2>1. registered \in BOOLEAN /\ unlocked \in BOOLEAN /\ inReset \in BOOLEAN
    BY DEF Init
  <2>2. CV_Data \in Calibrations /\ ipc \in InitPlaces
    BY DEF Init, InitPlaces, Calibrations
  <2> QED
    BY <2>1, <2>2 DEF LoaderOK
<1>3. DeviceOK
  <2>1. sequenced \in BOOLEAN
    BY DEF Init
  <2>2. engine \in Word /\ clock \in Word
    BY DEF Init, Word
  <2>3. data \in [0..6 -> [0..1 -> TenBits]]
    BY DEF Init, TenBits
  <2> QED
    BY <2>1, <2>2, <2>3 DEF DeviceOK
<1>4. cpc \in [Callers -> CallPlaces] /\ req \in [Callers -> Args]
  BY <1>1 DEF Init, CallPlaces
<1>5. /\ snap \in [Callers -> Word]
      /\ raw_data \in [Callers -> TenBits] /\ readdata \in [Callers -> Sums]
      /\ result \in [Callers -> Readings]
  BY DEF Init, Word, TenBits, Sums, Readings
<1>6. GhostsOK
  BY DEF Init, GhostsOK
<1> QED
  BY <1>2, <1>3, <1>4, <1>5, <1>6 DEF TypeOK, CallersOK

\* A conversion read from a data register has ten bits.
LEMMA MeasureRange == DeviceOK => \A c \in 0..13 : adc_measure(c) \in TenBits
BY DEF DeviceOK, adc_measure

\* Every write of the engine register leaves a word in it, the read-only bit out.
LEMMA WriteEngineType ==
  ASSUME engine \in Word, NEW word \in Word, WriteEngine(word)
  PROVE  engine' \in Word
BY DEF WriteEngine, Written, Word

\* Likewise for the clock register.
LEMMA WriteClockType ==
  ASSUME clock \in Word, NEW word \in Word, WriteClock(word)
  PROVE  clock' \in Word
BY DEF WriteClock

\* The words adc_init stores.
LEMMA InitWords ==
  /\ SequenceWord \in Word /\ NormalWord \in Word
  /\ {0, 1, 2, 3, 4} \in Word /\ {0, 1, 2, 3, 4, 16} \in Word
BY DEF SequenceWord, NormalWord, Word, Bits

\* What the loading thread leaves alone.
LEMMA LoadFrame ==
  adc_mod_init \/ adc_mod_cleanup \/ AdcInitStep => UNCHANGED <<callers, data>>
BY DEF adc_mod_init, adc_mod_cleanup, AdcInitStep, UnlockScu, ResetOn, ResetOff, SetClock,
       SequenceCheck, SequenceSeen, Sense, SenseChannel, Calibrate, NormalMode, LockScu,
       InitWritesEngine, device

\* The engine register changes by a write of adc_init or by the reset.
LEMMA LoadEngine ==
  ASSUME TypeOK, adc_mod_init \/ adc_mod_cleanup \/ AdcInitStep
  PROVE  /\ engine' \in Word /\ sequenced' \in BOOLEAN /\ clock' \in Word
<1> USE DEF TypeOK, DeviceOK
<1>1. CASE SequenceCheck \/ Sense \/ SenseChannel \/ NormalMode
  <2>1. PICK word \in Word : WriteEngine(word)
    BY <1>1, InitWords DEF SequenceCheck, Sense, SenseChannel, NormalMode, InitWritesEngine
  <2>2. UNCHANGED <<sequenced, clock>>
    BY <1>1 DEF SequenceCheck, Sense, SenseChannel, NormalMode, InitWritesEngine
  <2> QED
    BY <2>1, <2>2, WriteEngineType
<1>2. CASE SetClock
  BY <1>2, WriteClockType, BitsOfBits DEF SetClock
<1>3. CASE ResetOn
  BY <1>3 DEF ResetOn, Word
<1>4. CASE adc_mod_init \/ adc_mod_cleanup \/ UnlockScu \/ ResetOff \/ SequenceSeen
           \/ Calibrate \/ LockScu
  BY <1>4 DEF adc_mod_init, adc_mod_cleanup, UnlockScu, ResetOff, SequenceSeen, Calibrate,
              LockScu, device
<1> QED
  BY <1>1, <1>2, <1>3, <1>4 DEF AdcInitStep

\* The loading thread keeps its own variables well typed.
LEMMA LoadLoader ==
  ASSUME TypeOK, adc_mod_init \/ adc_mod_cleanup \/ AdcInitStep
  PROVE  LoaderOK'
<1> USE DEF At
<1>1. registered' \in BOOLEAN /\ ipc' \in InitPlaces
  BY DEF TypeOK, LoaderOK, InitPlaces, adc_mod_init, adc_mod_cleanup, AdcInitStep, UnlockScu,
         ResetOn, ResetOff, SetClock, SequenceCheck, SequenceSeen, Sense, SenseChannel,
         Calibrate, NormalMode, LockScu, InitWritesEngine
<1>2. unlocked' \in BOOLEAN /\ inReset' \in BOOLEAN
  BY DEF TypeOK, LoaderOK, adc_mod_init, adc_mod_cleanup, AdcInitStep, UnlockScu,
         ResetOn, ResetOff, SetClock, SequenceCheck, SequenceSeen, Sense, SenseChannel,
         Calibrate, NormalMode, LockScu, InitWritesEngine
<1>3. CV_Data' \in Calibrations
  <2>1. CASE Calibrate
    <3>1. adc_measure(0) \in TenBits
      BY MeasureRange DEF TypeOK
    <3> QED
      BY <2>1, <3>1 DEF Calibrate, Calibration, TenBits, Calibrations
  <2>2. CASE adc_mod_init
    BY <2>2 DEF adc_mod_init, Calibrations
  <2>3. CASE CV_Data' = CV_Data
    BY <2>3 DEF TypeOK, LoaderOK
  <2> QED
    BY <2>1, <2>2, <2>3
       DEF adc_mod_cleanup, AdcInitStep, UnlockScu, ResetOn, ResetOff, SetClock, SequenceCheck,
           SequenceSeen, Sense, SenseChannel, NormalMode, LockScu, InitWritesEngine
<1> QED
  BY <1>1, <1>2, <1>3 DEF LoaderOK

\* It resets the ghosts at most.
LEMMA LoadGhosts ==
  ASSUME TypeOK, adc_mod_init \/ adc_mod_cleanup \/ AdcInitStep
  PROVE  GhostsOK'
<1>1. CASE adc_mod_init
  BY <1>1 DEF adc_mod_init, GhostsOK
<1>2. CASE UNCHANGED ghosts
  BY <1>2 DEF ghosts, TypeOK, GhostsOK
<1> QED
  BY <1>1, <1>2
     DEF adc_mod_cleanup, AdcInitStep, UnlockScu, ResetOn, ResetOff, SetClock, SequenceCheck,
         SequenceSeen, Sense, SenseChannel, Calibrate, NormalMode, LockScu, InitWritesEngine

\* The loading thread keeps the types.
LEMMA TypeLoad ==
  ASSUME TypeOK, adc_mod_init \/ adc_mod_cleanup \/ AdcInitStep
  PROVE  TypeOK'
<1>1. CallersOK'
  BY LoadFrame DEF TypeOK, CallersOK, callers
<1>2. DeviceOK'
  <2>1. data' = data
    BY LoadFrame
  <2>2. engine' \in Word /\ sequenced' \in BOOLEAN /\ clock' \in Word
    BY LoadEngine
  <2> QED
    BY <2>1, <2>2 DEF TypeOK, DeviceOK
<1> QED
  BY <1>1, <1>2, LoadLoader, LoadGhosts DEF TypeOK

\* What an ioctl's argument can be.
LEMMA EnterArgs ==
  ASSUME NEW t \in Callers, CallerEnters(t)
  PROVE  \E place \in CallPlaces, arg \in Args : Enter(t, place, arg)
<1>1. NoArg \in Args
  BY DEF NoArg, Args, Word, Bits
<1>2. CASE \E c \in Channels : IOCTL_ENABLE_ADC(t, c)
  <2>1. PICK c \in Channels : Enter(t, "enable_read", [NoArg EXCEPT !.chan = c])
    BY <1>2 DEF IOCTL_ENABLE_ADC
  <2>2. [NoArg EXCEPT !.chan = c] \in Args
    BY <1>1, ChannelAssumption DEF Args
  <2> QED
    BY <2>1, <2>2 DEF CallPlaces
<1>3. CASE \E c \in Channels : IOCTL_ADC_MEASURE(t, c)
  <2>1. PICK c \in Channels : Enter(t, "measure_read", [NoArg EXCEPT !.chan = c])
    BY <1>3 DEF IOCTL_ADC_MEASURE
  <2>2. [NoArg EXCEPT !.chan = c] \in Args
    BY <1>1, ChannelAssumption DEF Args
  <2> QED
    BY <2>1, <2>2 DEF CallPlaces
<1>4. CASE \E d \in Divisors, v \in {0, 1} : IOCTL_SET_ADC_CLOCK(t, d, v)
  <2>1. PICK d \in Divisors, v \in {0, 1} :
          Enter(t, "clock_read", [NoArg EXCEPT !.divisor = d % 256, !.inverse = v % 256])
    BY <1>4 DEF IOCTL_SET_ADC_CLOCK
  <2>2. d % 256 \in 0..255 /\ v % 256 \in 0..255
    BY DivisorAssumption
  <2>3. \A a, b \in 0..255 : [NoArg EXCEPT !.divisor = a, !.inverse = b] \in Args
    BY <1>1 DEF Args
  <2>4. [NoArg EXCEPT !.divisor = d % 256, !.inverse = v % 256] \in Args
    BY <2>2, <2>3
  <2> QED
    BY <2>1, <2>4 DEF CallPlaces
<1>5. CASE \E w \in IoWords : IOCTL_IO_WRITE(t, w)
  <2>1. PICK w \in IoWords : Enter(t, "io_write", [NoArg EXCEPT !.word = w])
    BY <1>5 DEF IOCTL_IO_WRITE
  <2>2. w \in Word
    BY WordAssumption DEF Word, Bits
  <2>3. [NoArg EXCEPT !.word = w] \in Args
    BY <1>1, <2>2 DEF Args
  <2> QED
    BY <2>1, <2>3 DEF CallPlaces
<1> QED
  BY <1>2, <1>3, <1>4, <1>5 DEF CallerEnters

\* Entering an ioctl keeps the types.
LEMMA TypeEnter ==
  ASSUME TypeOK, NEW t \in Callers, CallerEnters(t)
  PROVE  TypeOK'
<1>1. PICK place \in CallPlaces, arg \in Args : Enter(t, place, arg)
  BY EnterArgs
<1>2. UNCHANGED <<loader, device>>
  BY <1>1 DEF Enter
<1>3. LoaderOK' /\ DeviceOK'
  BY <1>2 DEF TypeOK, LoaderOK, DeviceOK, loader, device
<1>4. CallersOK'
  BY <1>1 DEF Enter, TypeOK, CallersOK
<1>5. kept' = kept /\ disturbed' \in BOOLEAN
  BY DEF CallerEnters, IOCTL_ENABLE_ADC, IOCTL_ADC_MEASURE, IOCTL_SET_ADC_CLOCK,
         IOCTL_IO_WRITE, Enter, TypeOK, GhostsOK
<1>6. requested' \subseteq 0..13
  BY ChannelAssumption
     DEF CallerEnters, IOCTL_ENABLE_ADC, IOCTL_ADC_MEASURE, IOCTL_SET_ADC_CLOCK,
         IOCTL_IO_WRITE, TypeOK, GhostsOK
<1> QED
  BY <1>3, <1>4, <1>5, <1>6 DEF TypeOK, GhostsOK

\* The control state of a caller inside an ioctl.
LEMMA StepType ==
  ASSUME TypeOK, NEW t \in Callers, NEW here, NEW next \in CallPlaces, Step(t, here, next)
  PROVE  cpc' \in [Callers -> CallPlaces] /\ req' \in [Callers -> Args]
<1>1. NoArg \in Args
  BY DEF NoArg, Args, Word, Bits
<1> QED
  BY <1>1 DEF Step, TypeOK, CallersOK

\* What a read of the engine register returns is a word.
LEMMA EngineIsWord == TypeOK => Engine \in Word
BY DEF TypeOK, DeviceOK, Engine, Word, Bits, SequenceDone

\* The two halves of enable_adc_channel keep the types.
LEMMA TypeEnable ==
  ASSUME TypeOK, NEW t \in Callers, EnableRead(t) \/ EnableWrite(t)
  PROVE  TypeOK'
<1>1. cpc' \in [Callers -> CallPlaces] /\ req' \in [Callers -> Args]
  BY StepType DEF EnableRead, EnableWrite, CallPlaces
<1>2. UNCHANGED <<loader, sequenced, clock, data, raw_data, readdata, result, disturbed,
                  requested>>
  BY DEF EnableRead, EnableWrite, device, ghosts
<1>3. snap' \in [Callers -> Word]
  <2>1. {} \in Word
    BY DEF Word
  <2>2. PICK word \in Word : snap' = [snap EXCEPT ![t] = word]
    BY <2>1, EngineIsWord DEF EnableRead, EnableWrite
  <2> QED
    BY <2>2 DEF TypeOK, CallersOK
<1>4. engine' \in Word
  <2>1. CASE EnableRead(t)
    BY <2>1 DEF EnableRead, device, TypeOK, DeviceOK
  <2>2. CASE EnableWrite(t)
    <3>1. req[t].chan \in 0..13 /\ snap[t] \in Word
      BY DEF TypeOK, CallersOK, Args
    <3>2. WithChannel(snap[t], req[t].chan) \in Word
      BY <3>1 DEF WithChannel, Word, Bits, ADC_CHANNEL_ENABLE
    <3> QED
      BY <2>2, <3>2, WriteEngineType DEF EnableWrite, TypeOK, DeviceOK
  <2> QED
    BY <2>1, <2>2
<1>5. kept' \subseteq 0..13
  <2>1. req[t].chan \in 0..13
    BY DEF TypeOK, CallersOK, Args
  <2> QED
    BY <2>1 DEF EnableRead, EnableWrite, ghosts, TypeOK, GhostsOK
<1>6. LoaderOK'
  BY <1>2 DEF TypeOK, LoaderOK, loader
<1>7. DeviceOK'
  BY <1>2, <1>4 DEF TypeOK, DeviceOK
<1>8. CallersOK'
  BY <1>1, <1>2, <1>3 DEF TypeOK, CallersOK
<1>9. GhostsOK'
  BY <1>2, <1>5 DEF TypeOK, GhostsOK
<1> QED
  BY <1>6, <1>7, <1>8, <1>9 DEF TypeOK

\* The two halves of set_adc_clock keep the types.
LEMMA TypeClock ==
  ASSUME TypeOK, NEW t \in Callers, ClockRead(t) \/ ClockWrite(t)
  PROVE  TypeOK'
<1>1. cpc' \in [Callers -> CallPlaces] /\ req' \in [Callers -> Args]
  BY StepType DEF ClockRead, ClockWrite, CallPlaces
<1>2. UNCHANGED <<loader, engine, sequenced, data, raw_data, readdata, result, ghosts>>
  BY DEF ClockRead, ClockWrite, device
<1>3. snap' \in [Callers -> Word]
  <2>1. {} \in Word
    BY DEF Word
  <2>2. PICK word \in Word : snap' = [snap EXCEPT ![t] = word]
    BY <2>1 DEF ClockRead, ClockWrite, TypeOK, DeviceOK
  <2> QED
    BY <2>2 DEF TypeOK, CallersOK
<1>4. clock' \in Word
  <2>1. CASE ClockRead(t)
    BY <2>1 DEF ClockRead, device, TypeOK, DeviceOK
  <2>2. CASE ClockWrite(t)
    <3>1. PICK word : WriteClock(word) /\ word = ClockWord(snap[t], req[t])
      BY <2>2 DEF ClockWrite
    <3>2. clock' = clock \/ clock' = ClockWord(snap[t], req[t])
      BY <3>1 DEF WriteClock
    <3>3. ClockWord(snap[t], req[t]) \in Word
      BY DEF ClockWord, Word
    <3> QED
      BY <3>2, <3>3 DEF TypeOK, DeviceOK
  <2> QED
    BY <2>1, <2>2
<1>5. LoaderOK' /\ GhostsOK'
  BY <1>2 DEF TypeOK, LoaderOK, GhostsOK, loader, ghosts
<1>6. DeviceOK'
  BY <1>2, <1>4 DEF TypeOK, DeviceOK
<1>7. CallersOK'
  BY <1>1, <1>2, <1>3 DEF TypeOK, CallersOK
<1> QED
  BY <1>5, <1>6, <1>7 DEF TypeOK

\* The three steps of IOCTL_ADC_MEASURE keep the types.
LEMMA TypeMeasure ==
  ASSUME TypeOK, NEW t \in Callers, MeasureRead(t) \/ MeasureAdd(t) \/ MeasureClamp(t)
  PROVE  TypeOK'
<1>1. cpc' \in [Callers -> CallPlaces] /\ req' \in [Callers -> Args]
  BY StepType DEF MeasureRead, MeasureAdd, MeasureClamp, CallPlaces
<1>2. UNCHANGED <<loader, device, snap, ghosts>>
  BY DEF MeasureRead, MeasureAdd, MeasureClamp
<1>3. raw_data' \in [Callers -> TenBits]
  <2>1. req[t].chan \in 0..13
    BY DEF TypeOK, CallersOK, Args
  <2>2. adc_measure(req[t].chan) \in TenBits
    BY <2>1, MeasureRange DEF TypeOK
  <2>3. raw_data' = raw_data \/ \E raw \in TenBits : raw_data' = [raw_data EXCEPT ![t] = raw]
    <3>1. CASE MeasureRead(t)
      BY <2>2, <3>1 DEF MeasureRead
    <3>2. CASE MeasureAdd(t)
      BY <3>2 DEF MeasureAdd
    <3>3. CASE MeasureClamp(t)
      BY <3>3 DEF MeasureClamp, TenBits
    <3> QED
      BY <3>1, <3>2, <3>3
  <2> QED
    BY <2>3 DEF TypeOK, CallersOK
<1>4. readdata' \in [Callers -> Sums]
  <2>1. raw_data[t] + CV_Data \in Sums
    <3>1. raw_data[t] \in TenBits /\ CV_Data \in Calibrations
      BY DEF TypeOK, CallersOK, LoaderOK
    <3>2. \A raw \in TenBits, cv \in Calibrations : raw + cv \in Sums
      BY DEF TenBits, Calibrations, Sums
    <3> QED
      BY <3>1, <3>2
  <2>2. \/ readdata' = readdata
        \/ \E sum \in Sums : readdata' = [readdata EXCEPT ![t] = sum]
    <3>1. CASE MeasureRead(t)
      BY <3>1 DEF MeasureRead
    <3>2. CASE MeasureAdd(t)
      BY <2>1, <3>2 DEF MeasureAdd
    <3>3. CASE MeasureClamp(t)
      BY <3>3 DEF MeasureClamp, Sums
    <3> QED
      BY <3>1, <3>2, <3>3
  <2> QED
    BY <2>2 DEF TypeOK, CallersOK
<1>5. result' \in [Callers -> Readings]
  <2>1. Clamp(readdata[t]) \in Readings
    <3>1. readdata[t] \in Sums /\ CV_Data \in Calibrations
      BY DEF TypeOK, CallersOK, LoaderOK
    <3> QED
      BY <3>1, ClampRange
  <2>2. result' = result \/ \E r \in Readings : result' = [result EXCEPT ![t] = r]
    <3>1. CASE MeasureRead(t) \/ MeasureAdd(t)
      BY <3>1 DEF MeasureRead, MeasureAdd
    <3>2. CASE MeasureClamp(t)
      BY <2>1, <3>2 DEF MeasureClamp
    <3> QED
      BY <3>1, <3>2
  <2> QED
    BY <2>2 DEF TypeOK, CallersOK
<1>6. LoaderOK' /\ GhostsOK'
  BY <1>2 DEF TypeOK, LoaderOK, GhostsOK, loader, ghosts
<1>7. DeviceOK'
  BY <1>2 DEF TypeOK, DeviceOK, device
<1>8. CallersOK'
  BY <1>1, <1>2, <1>3, <1>4, <1>5 DEF TypeOK, CallersOK
<1> QED
  BY <1>6, <1>7, <1>8 DEF TypeOK

\* A raw store keeps the types.
LEMMA TypeIoWrite ==
  ASSUME TypeOK, NEW t \in Callers, IoWrite(t)
  PROVE  TypeOK'
<1>1. cpc' \in [Callers -> CallPlaces] /\ req' \in [Callers -> Args]
  BY StepType DEF IoWrite, CallPlaces
<1>2. engine' \in Word
  <2>1. req[t].word \in Word
    BY DEF TypeOK, CallersOK, Args
  <2> QED
    BY <2>1, WriteEngineType DEF IoWrite, TypeOK, DeviceOK
<1>3. UNCHANGED <<loader, sequenced, clock, data, snap, raw_data, readdata, result, requested>>
  BY DEF IoWrite
<1>4. LoaderOK'
  BY <1>3 DEF TypeOK, LoaderOK, loader
<1>5. DeviceOK'
  BY <1>2, <1>3 DEF TypeOK, DeviceOK
<1>6. CallersOK'
  BY <1>1, <1>3 DEF TypeOK, CallersOK
<1>7. GhostsOK'
  BY <1>3 DEF IoWrite, TypeOK, GhostsOK
<1> QED
  BY <1>4, <1>5, <1>6, <1>7 DEF TypeOK

\* Every step inside an ioctl keeps the types.
LEMMA TypeCaller ==
  ASSUME TypeOK, NEW t \in Callers, CallerStep(t)
  PROVE  TypeOK'
BY TypeEnable, TypeClock, TypeMeasure, TypeIoWrite DEF CallerStep

\* The end of the engine's check keeps the types.
LEMMA TypeSequence == TypeOK /\ HwSequence => TypeOK'
<1> SUFFICES ASSUME TypeOK, HwSequence PROVE TypeOK'
  OBVIOUS
<1>1. LoaderOK' /\ GhostsOK'
  BY DEF HwSequence, TypeOK, LoaderOK, GhostsOK, loader, ghosts
<1>2. DeviceOK'
  BY DEF HwSequence, TypeOK, DeviceOK
<1>3. CallersOK'
  BY DEF HwSequence, TypeOK, CallersOK, callers
<1> QED
  BY <1>1, <1>2, <1>3 DEF TypeOK

\* A conversion keeps the types.
LEMMA TypeConvert ==
  ASSUME TypeOK, NEW c \in Channels \cup {0}, NEW raw \in Raws, HwConvert(c, raw)
  PROVE  TypeOK'
<1>1. LoaderOK' /\ GhostsOK'
  BY DEF HwConvert, TypeOK, LoaderOK, GhostsOK, loader, ghosts
<1>2. data' \in [0..6 -> [0..1 -> TenBits]]
  <2>1. c \div 2 \in 0..6 /\ c % 2 \in 0..1 /\ raw \in TenBits
    BY ChannelAssumption, RawAssumption DEF TenBits
  <2> QED
    BY <2>1 DEF HwConvert, TypeOK, DeviceOK
<1>3. DeviceOK'
  BY <1>2 DEF HwConvert, TypeOK, DeviceOK
<1>4. CallersOK'
  BY DEF HwConvert, TypeOK, CallersOK, callers
<1> QED
  BY <1>1, <1>3, <1>4 DEF TypeOK

\* Every step keeps the types.
LEMMA TypeStep == TypeOK /\ [Next]_vars => TypeOK'
<1> SUFFICES ASSUME TypeOK, [Next]_vars PROVE TypeOK'
  OBVIOUS
<1>1. CASE UNCHANGED vars
  <2>1. LoaderOK' /\ GhostsOK'
    BY <1>1 DEF vars, loader, ghosts, TypeOK, LoaderOK, GhostsOK
  <2>2. DeviceOK'
    BY <1>1 DEF vars, device, TypeOK, DeviceOK
  <2>3. CallersOK'
    BY <1>1 DEF vars, callers, TypeOK, CallersOK
  <2> QED
    BY <2>1, <2>2, <2>3 DEF TypeOK
<1>2. CASE Next
  BY <1>2, TypeLoad, TypeEnter, TypeCaller, TypeSequence, TypeConvert DEF Next
<1> QED
  BY <1>1, <1>2

\* Type correctness of the driver and the device: the calibration and every
\* sum stay in range, whichever register values and CV_Data the callers see.
THEOREM TypeCorrect == Spec => []TypeOK
<1>1. Init => TypeOK
  BY TypeInit
<1>2. TypeOK /\ [Next]_vars => TypeOK'
  BY TypeStep
<1> QED
  BY <1>1, <1>2, PTL DEF Spec

-----------------------------------------------------------------------------
(***************************************************************************)
(* What each class of steps leaves alone.                                  *)
(***************************************************************************)

LoadStep == adc_mod_init \/ adc_mod_cleanup \/ AdcInitStep

\* Entering an ioctl changes one caller, and grows what was asked for.
LEMMA EnterFrame ==
  ASSUME TypeOK, NEW t \in Callers, CallerEnters(t)
  PROVE  /\ UNCHANGED <<loader, device, snap, raw_data, readdata, kept>>
         /\ registered /\ disturbed' = (disturbed \/ ipc # "done")
         /\ requested \subseteq requested'
         /\ cpc'[t] \in {"enable_read", "clock_read", "measure_read", "io_write"}
         /\ cpc'[t] = "enable_read" => req'[t].chan \in requested'
         /\ \A u \in Callers \ {t} : cpc'[u] = cpc[u] /\ req'[u] = req[u]
<1> USE DEF Enter
<1>1. PICK place \in CallPlaces, arg \in Args : Enter(t, place, arg)
  BY EnterArgs
<1>2. UNCHANGED <<loader, device, snap, raw_data, readdata>>
      /\ registered /\ disturbed' = (disturbed \/ ipc # "done")
  BY <1>1
<1>3. \A u \in Callers \ {t} : cpc'[u] = cpc[u] /\ req'[u] = req[u]
  BY <1>1 DEF TypeOK, CallersOK
<1>4. CASE \E c \in Channels : IOCTL_ENABLE_ADC(t, c)
  <2>1. PICK c \in Channels : IOCTL_ENABLE_ADC(t, c)
    BY <1>4
  <2>2. cpc'[t] = "enable_read" /\ req'[t] = [NoArg EXCEPT !.chan = c]
    BY <2>1 DEF IOCTL_ENABLE_ADC, TypeOK, CallersOK
  <2>3. req'[t].chan = c
    BY <2>2 DEF NoArg
  <2> QED
    BY <1>2, <1>3, <2>1, <2>2, <2>3 DEF IOCTL_ENABLE_ADC
<1>5. CASE \E c \in Channels : IOCTL_ADC_MEASURE(t, c)
  BY <1>2, <1>3, <1>5 DEF IOCTL_ADC_MEASURE, TypeOK, CallersOK
<1>6. CASE \E d \in Divisors, v \in {0, 1} : IOCTL_SET_ADC_CLOCK(t, d, v)
  BY <1>2, <1>3, <1>6 DEF IOCTL_SET_ADC_CLOCK, TypeOK, CallersOK
<1>7. CASE \E w \in IoWords : IOCTL_IO_WRITE(t, w)
  BY <1>2, <1>3, <1>7 DEF IOCTL_IO_WRITE, TypeOK, CallersOK
<1> QED
  BY <1>4, <1>5, <1>6, <1>7 DEF CallerEnters

\* A step inside an ioctl changes one caller and nothing of the loader.
LEMMA StepFrame ==
  ASSUME TypeOK, NEW t \in Callers, CallerStep(t)
  PROVE  /\ UNCHANGED <<loader, requested>> /\ (disturbed => disturbed')
         /\ cpc[t] # "user" /\ cpc'[t] # "enable_read"
         /\ \A u \in Callers \ {t} : /\ cpc'[u] = cpc[u] /\ req'[u] = req[u]
                                     /\ snap'[u] = snap[u]
                                     /\ raw_data'[u] = raw_data[u]
                                     /\ readdata'[u] = readdata[u]
<1>1. UNCHANGED <<loader, requested>> /\ (disturbed => disturbed')
  BY DEF CallerStep, EnableRead, EnableWrite, ClockRead, ClockWrite, MeasureRead, MeasureAdd,
         MeasureClamp, IoWrite, ghosts
<1>2. PICK here \in CallPlaces \ {"user"}, next \in CallPlaces \ {"enable_read"} :
        Step(t, here, next)
  BY DEF CallerStep, EnableRead, EnableWrite, ClockRead, ClockWrite, MeasureRead, MeasureAdd,
         MeasureClamp, IoWrite, CallPlaces
<1>3. /\ cpc[t] # "user" /\ cpc'[t] # "enable_read"
      /\ \A u \in Callers \ {t} : cpc'[u] = cpc[u] /\ req'[u] = req[u]
  BY <1>2 DEF Step, TypeOK, CallersOK
<1>4. \A u \in Callers \ {t} : snap'[u] = snap[u]
  BY DEF CallerStep, EnableRead, EnableWrite, ClockRead, ClockWrite, MeasureRead, MeasureAdd,
         MeasureClamp, IoWrite, TypeOK, CallersOK
<1>5. \A u \in Callers \ {t} : raw_data'[u] = raw_data[u]
  BY DEF CallerStep, EnableRead, EnableWrite, ClockRead, ClockWrite, MeasureRead, MeasureAdd,
         MeasureClamp, IoWrite, TypeOK, CallersOK
<1>6. \A u \in Callers \ {t} : readdata'[u] = readdata[u]
  BY DEF CallerStep, EnableRead, EnableWrite, ClockRead, ClockWrite, MeasureRead, MeasureAdd,
         MeasureClamp, IoWrite, TypeOK, CallersOK
<1> QED
  BY <1>1, <1>3, <1>4, <1>5, <1>6

\* The engine changes neither control registers nor software state.
LEMMA HwFrame ==
  ASSUME HwSequence \/ \E c \in Channels \cup {0}, raw \in Raws : HwConvert(c, raw)
  PROVE  UNCHANGED <<loader, callers, ghosts, engine>>
BY DEF HwSequence, HwConvert

-----------------------------------------------------------------------------
(***************************************************************************)
(* Where the loading thread and the callers can be.                        *)
(***************************************************************************)

\* Nobody is inside before the module is loaded.
LEMMA ControlInit == Init => Control
BY DEF Init, Control, Loading

\* The loader goes from place to place with the SCU open.
LEMMA ControlLoad ==
  ASSUME TypeOK, Control, LoadStep
  PROVE  Control'
<1> USE DEF Control, Loading, At
<1>1. UNCHANGED cpc
  BY LoadFrame DEF LoadStep, callers
<1>2. CASE adc_mod_init
  BY <1>1, <1>2 DEF adc_mod_init
<1>3. CASE adc_mod_cleanup
  BY <1>1, <1>3 DEF adc_mod_cleanup
<1>4. CASE UnlockScu \/ ResetOn \/ ResetOff
  BY <1>1, <1>4 DEF UnlockScu, ResetOn, ResetOff, ghosts
<1>5. CASE SetClock \/ SequenceSeen \/ Calibrate \/ LockScu
  BY <1>1, <1>5 DEF SetClock, SequenceSeen, Calibrate, LockScu, ghosts
<1>6. CASE SequenceCheck \/ Sense \/ SenseChannel \/ NormalMode
  BY <1>1, <1>6 DEF SequenceCheck, Sense, SenseChannel, NormalMode, InitWritesEngine, ghosts
<1> QED
  BY <1>2, <1>3, <1>4, <1>5, <1>6 DEF LoadStep, AdcInitStep

\* An ioctl that begins before adc_init has ended disturbs it.
LEMMA ControlEnter ==
  ASSUME TypeOK, Control, NEW t \in Callers, CallerEnters(t)
  PROVE  Control'
<1>1. /\ UNCHANGED loader /\ registered /\ disturbed' = (disturbed \/ ipc # "done")
      /\ \A u \in Callers \ {t} : cpc'[u] = cpc[u]
  BY EnterFrame
<1> QED
  BY <1>1 DEF Control, Loading, loader

\* A caller inside moves on, never the loader.
LEMMA ControlCaller ==
  ASSUME TypeOK, Control, NEW t \in Callers, CallerStep(t)
  PROVE  Control'
<1>1. /\ UNCHANGED loader /\ (disturbed => disturbed') /\ cpc[t] # "user"
      /\ \A u \in Callers \ {t} : cpc'[u] = cpc[u]
  BY StepFrame
<1> QED
  BY <1>1 DEF Control, Loading, loader

\* Every step keeps the loader and the callers in their places.
LEMMA ControlStep == TypeOK /\ Control /\ [Next]_vars => Control'
<1> SUFFICES ASSUME TypeOK, Control, [Next]_vars PROVE Control'
  OBVIOUS
<1>1. CASE UNCHANGED <<loader, callers, ghosts>>
  BY <1>1 DEF loader, callers, ghosts, Control
<1> QED
  BY <1>1, ControlLoad, ControlEnter, ControlCaller, HwFrame DEF Next, LoadStep, vars

-----------------------------------------------------------------------------
(***************************************************************************)
(* The engine register.                                                    *)
(***************************************************************************)

\* The only ways the engine register changes.
LEMMA EngineWrites ==
  ASSUME [Next]_vars
  PROVE  \/ engine' = engine \/ engine' = {}
         \/ \E word : engine' = Written(word)
<1> USE DEF WriteEngine
<1>1. CASE LoadStep
  BY <1>1 DEF LoadStep, adc_mod_init, adc_mod_cleanup, AdcInitStep, UnlockScu, ResetOn,
              ResetOff, SetClock, SequenceCheck, SequenceSeen, Sense, SenseChannel, Calibrate,
              NormalMode, LockScu, InitWritesEngine, device
<1>2. ASSUME NEW t \in Callers, CallerEnters(t) PROVE engine' = engine
  BY <1>2 DEF CallerEnters, IOCTL_ENABLE_ADC, IOCTL_ADC_MEASURE, IOCTL_SET_ADC_CLOCK,
              IOCTL_IO_WRITE, Enter, device
<1>3. ASSUME NEW t \in Callers, CallerStep(t)
      PROVE  engine' = engine \/ \E word : engine' = Written(word)
  BY <1>3 DEF CallerStep, EnableRead, EnableWrite, ClockRead, ClockWrite, MeasureRead,
              MeasureAdd, MeasureClamp, IoWrite, device
<1> QED
  BY <1>1, <1>2, <1>3, HwFrame DEF Next, LoadStep, vars, device

\* The read-only bit is never stored.
LEMMA NoSequenceStep == NoSequence /\ [Next]_vars => NoSequence'
<1> SUFFICES ASSUME NoSequence, [Next]_vars PROVE NoSequence'
  OBVIOUS
<1>1. \/ engine' = engine \/ engine' = {} \/ \E word : engine' = Written(word)
  BY EngineWrites
<1> QED
  BY <1>1 DEF NoSequence, Written

\* A caller inside an ioctl of an undisturbed load finds adc_init through.
LEMMA InsideMeansDone ==
  ASSUME TypeOK, Control, ~disturbed, NEW t \in Callers, cpc[t] # "user"
  PROVE  ipc = "done"
BY DEF TypeOK, LoaderOK, InitPlaces, Control, Loading

\* adc_init starts the sequence and then waits for it, out of reset; only a
\* caller inside an ioctl could undo that, and there is none.
LEMMA WaitStep == TypeOK /\ Control /\ WaitInv /\ [Next]_vars => WaitInv'
<1> SUFFICES ASSUME TypeOK, Control, WaitInv, [Next]_vars, ipc' = "wait", ~disturbed'
             PROVE  NormalBits \subseteq engine'
  BY DEF WaitInv
<1>1. CASE LoadStep
  <2>1. SequenceCheck
    BY <1>1 DEF LoadStep, adc_mod_init, adc_mod_cleanup, AdcInitStep, UnlockScu, ResetOn,
                ResetOff, SetClock, SequenceSeen, Sense, SenseChannel, Calibrate, NormalMode,
                LockScu, InitWritesEngine, At
  <2>2. ~inReset
    BY <2>1 DEF SequenceCheck, InitWritesEngine, At, Control, Loading
  <2>3. engine' = {0, 1, 2, 3} \ {SequenceDone}
    BY <2>1, <2>2 DEF SequenceCheck, InitWritesEngine, WriteEngine, Written, SequenceWord
  <2> QED
    BY <2>3 DEF NormalBits, SequenceDone
<1>2. ASSUME NEW t \in Callers, CallerEnters(t) PROVE FALSE
  <2>1. ipc' = ipc /\ disturbed' = (disturbed \/ ipc # "done")
    BY <1>2, EnterFrame DEF loader
  <2> QED
    BY <2>1
<1>3. ASSUME NEW t \in Callers, CallerStep(t) PROVE FALSE
  <2>1. ipc' = ipc /\ (disturbed => disturbed') /\ cpc[t] # "user"
    BY <1>3, StepFrame DEF loader
  <2> QED
    BY <2>1, InsideMeansDone
<1>4. CASE UNCHANGED <<loader, ghosts, engine>>
  BY <1>4 DEF loader, ghosts, WaitInv
<1> QED
  BY <1>1, <1>2, <1>3, <1>4, HwFrame DEF Next, LoadStep, vars, device

\* adc_init ends with the engine on, in normal mode, no channel enabled.
LEMMA QuietLoad ==
  ASSUME TypeOK, Control, QuietInv, LoadStep
  PROVE  QuietInv'
<1>1. UNCHANGED <<cpc, req, snap>>
  BY LoadFrame DEF LoadStep, callers
<1>2. CASE adc_mod_init
  BY <1>1, <1>2 DEF adc_mod_init, At, Control, QuietInv
<1>3. CASE adc_mod_cleanup
  BY <1>1, <1>3 DEF adc_mod_cleanup, At, QuietInv
<1>4. CASE AdcInitStep
  <2>1. ipc \in Loading /\ UNCHANGED ghosts
    BY <1>4 DEF AdcInitStep, UnlockScu, ResetOn, ResetOff, SetClock, SequenceCheck, SequenceSeen,
                Sense, SenseChannel, Calibrate, NormalMode, LockScu, InitWritesEngine, At, Loading
  <2>2. ~disturbed => \A t \in Callers : cpc'[t] = "user"
    BY <1>1, <2>1 DEF Control
  <2>3. ASSUME ~disturbed, ipc' \in {"lock", "done"} PROVE Confined(engine)'
    <3>1. CASE LockScu
      BY <3>1, <2>1, <2>3 DEF LockScu, At, QuietInv, Confined, Requests, device, ghosts
    <3>2. CASE NormalMode
      <4>1. engine' = {0, 1, 2, 3} \ {SequenceDone}
        BY <3>2 DEF NormalMode, InitWritesEngine, At, WriteEngine, Written, Control, Loading,
                    NormalWord
      <4> QED
        BY <4>1 DEF Confined, NormalBits, SequenceDone
    <3> QED
      BY <1>4, <2>3, <3>1, <3>2
         DEF AdcInitStep, UnlockScu, ResetOn, ResetOff, SetClock, SequenceCheck, SequenceSeen,
             Sense, SenseChannel, Calibrate, InitWritesEngine, At
  <2> QED
    BY <2>1, <2>2, <2>3 DEF QuietInv, ghosts
<1> QED
  BY <1>2, <1>3, <1>4 DEF LoadStep

\* A new request does not touch the engine register.
LEMMA QuietEnter ==
  ASSUME TypeOK, Control, QuietInv, NEW t \in Callers, CallerEnters(t)
  PROVE  QuietInv'
<1>1. /\ UNCHANGED <<ipc, engine, snap>>
      /\ disturbed => disturbed' 
      /\ requested \subseteq requested'
      /\ cpc'[t] # "enable_write" /\ (cpc'[t] = "enable_read" => req'[t].chan \in requested')
      /\ \A u \in Callers \ {t} : cpc'[u] = cpc[u] /\ req'[u] = req[u]
  BY EnterFrame DEF loader, device
<1>2. \A word : Confined(word) => NormalBits \subseteq word
                   /\ word \subseteq NormalBits \cup {SequenceDone} \cup Requests'
  BY <1>1 DEF Confined, Requests
<1>3. ASSUME ~disturbed', ipc' \in {"lock", "done"} PROVE Confined(engine)'
  BY <1>1, <1>2, <1>3 DEF QuietInv, Confined
<1>4. ASSUME ~disturbed', NEW u \in Callers, cpc'[u] \in {"enable_read", "enable_write"}
      PROVE  req'[u].chan \in requested'
  BY <1>1, <1>4 DEF QuietInv
<1>5. ASSUME ~disturbed', NEW u \in Callers, cpc'[u] = "enable_write"
      PROVE  Confined(snap[u])'
  BY <1>1, <1>2, <1>5 DEF QuietInv, Confined
<1> QED
  BY <1>3, <1>4, <1>5 DEF QuietInv

\* An enable writes back what it read with a requested channel added.
LEMMA QuietCaller ==
  ASSUME TypeOK, Control, QuietInv, NEW t \in Callers, CallerStep(t)
  PROVE  QuietInv'
<1>1. /\ UNCHANGED <<ipc, requested>> /\ (disturbed => disturbed')
      /\ cpc[t] # "user" /\ cpc'[t] # "enable_read"
      /\ \A u \in Callers \ {t} : /\ cpc'[u] = cpc[u] /\ req'[u] = req[u]
                                  /\ snap'[u] = snap[u]
  BY StepFrame DEF loader
<1> SUFFICES ASSUME ~disturbed' PROVE QuietInv'
  BY DEF QuietInv
<1>2. ~disturbed /\ ipc = "done" /\ Confined(engine)
  BY <1>1, InsideMeansDone DEF QuietInv
<1>3. ASSUME NEW word, Confined(word)
      PROVE  /\ NormalBits \subseteq word
             /\ word \subseteq NormalBits \cup {SequenceDone} \cup Requests'
  BY <1>1, <1>3 DEF Confined, Requests
<1>4. Confined(Engine)
  BY <1>2 DEF Engine, Confined
<1>5. cpc'[t] = "enable_write" => Confined(snap[t])' /\ req'[t].chan \in requested'
  <2> SUFFICES ASSUME cpc'[t] = "enable_write"
               PROVE  Confined(snap[t])' /\ req'[t].chan \in requested'
    OBVIOUS
  <2>1. EnableRead(t)
    BY DEF CallerStep, EnableRead, EnableWrite, ClockRead, ClockWrite, MeasureRead, MeasureAdd,
           MeasureClamp, IoWrite, Step, TypeOK, CallersOK
  <2>2. snap'[t] = Engine /\ req'[t] = req[t] /\ cpc[t] = "enable_read"
    BY <2>1 DEF EnableRead, Step, TypeOK, CallersOK
  <2>3. req[t].chan \in requested
    BY <1>2, <2>2 DEF QuietInv
  <2> QED
    BY <1>1, <1>3, <1>4, <2>2, <2>3 DEF Confined
<1>6. Confined(engine)'
  <2>1. CASE EnableWrite(t)
    <3>1. Confined(snap[t]) /\ req[t].chan \in requested /\ ~inReset
      BY <1>2, <2>1 DEF EnableWrite, Step, QuietInv, Control
    <3>2. engine' = (snap[t] \cup {ADC_CHANNEL_ENABLE + req[t].chan}) \ {SequenceDone}
      BY <2>1, <3>1 DEF EnableWrite, WriteEngine, Written, WithChannel
    <3>3. ADC_CHANNEL_ENABLE + req[t].chan \in Requests
      BY <3>1 DEF Requests
    <3>4. SequenceDone \notin NormalBits
      BY DEF SequenceDone, NormalBits
    <3>5. Requests' = Requests
      BY <1>1 DEF Requests
    <3> QED
      BY <3>1, <3>2, <3>3, <3>4, <3>5 DEF Confined
  <2>2. CASE ~EnableWrite(t)
    <3>1. engine' = engine
      BY <2>2 DEF CallerStep, EnableRead, ClockRead, ClockWrite, MeasureRead, MeasureAdd,
                  MeasureClamp, IoWrite, device
    <3> QED
      BY <1>2, <1>3, <3>1 DEF Confined
  <2> QED
    BY <2>1, <2>2
<1>7. ASSUME NEW u \in Callers \ {t}, cpc'[u] \in {"enable_read", "enable_write"}
      PROVE  req'[u].chan \in requested' /\ (cpc'[u] = "enable_write" => Confined(snap[u])')
  <2>1. req[u].chan \in requested /\ (cpc[u] = "enable_write" => Confined(snap[u]))
    BY <1>1, <1>2, <1>7 DEF QuietInv
  <2> QED
    BY <1>1, <1>3, <2>1 DEF Confined
<1> QED
  BY <1>1, <1>5, <1>6, <1>7 DEF QuietInv

\* Every step of an undisturbed load keeps the engine confined.
LEMMA QuietStep == TypeOK /\ Control /\ QuietInv /\ [Next]_vars => QuietInv'
<1> SUFFICES ASSUME TypeOK, Control, QuietInv, [Next]_vars PROVE QuietInv'
  OBVIOUS
<1>1. CASE UNCHANGED <<loader, callers, ghosts, engine>>
  BY <1>1 DEF loader, callers, ghosts, QuietInv, Confined, Requests
<1> QED
  BY <1>1, QuietLoad, QuietEnter, QuietCaller, HwFrame DEF Next, LoadStep, vars, device

-----------------------------------------------------------------------------
(***************************************************************************)
(* Channels once enabled.                                                  *)
(***************************************************************************)

\* Loading starts from no kept channels.
LEMMA KeptLoad ==
  ASSUME TypeOK, Control, KeptInv, LoadStep
  PROVE  KeptInv'
<1>1. CASE adc_mod_init
  BY <1>1 DEF adc_mod_init, At, KeptInv, KeptBits, Loading
<1>2. CASE adc_mod_cleanup
  BY <1>2 DEF adc_mod_cleanup, At, KeptInv, Loading
<1>3. CASE AdcInitStep
  BY <1>3 DEF AdcInitStep, UnlockScu, ResetOn, ResetOff, SetClock, SequenceCheck, SequenceSeen,
              Sense, SenseChannel, Calibrate, NormalMode, LockScu, InitWritesEngine, At, Loading,
              KeptInv, KeptBits, ghosts
<1> QED
  BY <1>1, <1>2, <1>3 DEF LoadStep

\* A caller enters with no register value in hand.
LEMMA KeptEnter ==
  ASSUME TypeOK, KeptInv, NEW t \in Callers, CallerEnters(t)
  PROVE  KeptInv'
<1>1. /\ UNCHANGED <<ipc, engine, snap, kept>> /\ cpc'[t] # "enable_write"
      /\ \A u \in Callers \ {t} : cpc'[u] = cpc[u]
  BY EnterFrame DEF loader, device
<1> QED
  BY <1>1 DEF KeptInv, KeptBits

\* An enable adds its channel to a value that has all the kept ones.
LEMMA KeptCaller ==
  ASSUME TypeOK, Control, KeptInv, NEW t \in Callers, CallerStep(t)
  PROVE  KeptInv'
<1>1. /\ UNCHANGED ipc
      /\ \A u \in Callers \ {t} : cpc'[u] = cpc[u] /\ snap'[u] = snap[u]
  BY StepFrame DEF loader
<1>2. CASE EnableWrite(t)
  <2>1. cpc[t] = "enable_write" /\ cpc'[t] = "user"
    BY <1>2 DEF EnableWrite, Step, TypeOK, CallersOK
  <2>2. ipc \in Loading => kept' = {}
    BY <1>2 DEF EnableWrite, KeptInv, Loading
  <2>3. ASSUME ipc = "done" PROVE KeptBits' \subseteq engine'
    <3>1. ~inReset /\ KeptBits \subseteq snap[t] /\ kept \subseteq 0..13
      BY <2>1, <2>3 DEF Control, KeptInv, TypeOK, GhostsOK
    <3>2. engine' = (snap[t] \cup {ADC_CHANNEL_ENABLE + req[t].chan}) \ {SequenceDone}
      BY <1>2, <3>1 DEF EnableWrite, WriteEngine, Written, WithChannel
    <3>3. \A c \in 0..13 : ADC_CHANNEL_ENABLE + c # SequenceDone
      BY DEF ADC_CHANNEL_ENABLE, SequenceDone
    <3>4. req[t].chan \in 0..13
      BY DEF TypeOK, CallersOK, Args
    <3>5. KeptBits' \subseteq KeptBits \cup {ADC_CHANNEL_ENABLE + req[t].chan}
      BY <1>2 DEF EnableWrite, KeptBits
    <3>6. SequenceDone \notin KeptBits'
      BY <3>1, <3>3, <3>4, <3>5 DEF KeptBits
    <3> QED
      BY <3>1, <3>2, <3>5, <3>6
  <2>4. ASSUME ipc = "done", NEW u \in Callers, cpc'[u] = "enable_write"
        PROVE  KeptBits' \subseteq snap'[u]
    <3>1. u # t /\ cpc[u] = "enable_write" /\ snap'[u] = snap[u]
      BY <1>1, <2>1, <2>4
    <3>2. ~Alone(t)
      BY <3>1 DEF Alone
    <3>3. kept' = kept
      BY <1>2, <3>2 DEF EnableWrite
    <3> QED
      BY <2>4, <3>1, <3>3 DEF KeptInv, KeptBits
  <2> QED
    BY <1>1, <2>2, <2>3, <2>4 DEF KeptInv
<1>3. CASE IoWrite(t)
  BY <1>3 DEF IoWrite, KeptInv, KeptBits
<1>4. CASE EnableRead(t)
  <2>1. UNCHANGED <<kept, engine>> /\ snap'[t] = Engine
    BY <1>4 DEF EnableRead, ghosts, device, TypeOK, CallersOK
  <2>2. engine \subseteq Engine
    BY DEF Engine
  <2> QED
    BY <1>1, <2>1, <2>2 DEF KeptInv, KeptBits
<1>5. CASE ClockRead(t) \/ ClockWrite(t) \/ MeasureRead(t) \/ MeasureAdd(t) \/ MeasureClamp(t)
  <2>1. UNCHANGED <<kept, engine>>
    BY <1>5 DEF ClockRead, ClockWrite, MeasureRead, MeasureAdd, MeasureClamp, ghosts, device
  <2>2. cpc'[t] # "enable_write"
    BY <1>5 DEF ClockRead, ClockWrite, MeasureRead, MeasureAdd, MeasureClamp, Step, TypeOK,
                CallersOK
  <2> QED
    BY <1>1, <2>1, <2>2 DEF KeptInv, KeptBits
<1> QED
  BY <1>2, <1>3, <1>4, <1>5 DEF CallerStep

\* Every step keeps the kept channels enabled.
LEMMA KeptStep == TypeOK /\ Control /\ KeptInv /\ [Next]_vars => KeptInv'
<1> SUFFICES ASSUME TypeOK, Control, KeptInv, [Next]_vars PROVE KeptInv'
  OBVIOUS
<1>1. CASE UNCHANGED <<loader, callers, ghosts, engine>>
  BY <1>1 DEF loader, callers, ghosts, KeptInv, KeptBits
<1> QED
  BY <1>1, KeptLoad, KeptEnter, KeptCaller, HwFrame DEF Next, LoadStep, vars, device

-----------------------------------------------------------------------------
(***************************************************************************)
(* The calibrated reading.                                                 *)
(***************************************************************************)

\* Calibration changes CV_Data from zero.
LEMMA ZeroLoad ==
  ASSUME TypeOK, Control, ZeroInv, LoadStep
  PROVE  ZeroInv'
<1>1. UNCHANGED <<cpc, raw_data, readdata>>
  BY LoadFrame DEF LoadStep, callers
<1>2. CASE adc_mod_init
  BY <1>1, <1>2 DEF adc_mod_init, At, Control, ZeroInv
<1>3. CASE adc_mod_cleanup
  BY <1>1, <1>3 DEF adc_mod_cleanup, At, Loading, ZeroInv
<1>4. CASE Calibrate
  BY <1>1, <1>4 DEF Calibrate, At, Loading, ZeroInv
<1>5. CASE AdcInitStep /\ ~Calibrate
  BY <1>1, <1>5 DEF AdcInitStep, UnlockScu, ResetOn, ResetOff, SetClock, SequenceCheck,
              SequenceSeen, Sense, SenseChannel, NormalMode, LockScu, InitWritesEngine, At,
              Loading, ZeroInv
<1> QED
  BY <1>2, <1>3, <1>4, <1>5 DEF LoadStep

\* A caller enters with no sum in hand.
LEMMA ZeroEnter ==
  ASSUME TypeOK, ZeroInv, NEW t \in Callers, CallerEnters(t)
  PROVE  ZeroInv'
<1>1. /\ UNCHANGED <<ipc, CV_Data, raw_data, readdata>> /\ cpc'[t] # "measure_clamp"
      /\ \A u \in Callers \ {t} : cpc'[u] = cpc[u]
  BY EnterFrame DEF loader
<1> QED
  BY <1>1 DEF ZeroInv

\* The sum of a raw zero is the CV_Data it was added to.
LEMMA ZeroCaller ==
  ASSUME TypeOK, ZeroInv, NEW t \in Callers, CallerStep(t)
  PROVE  ZeroInv'
<1>1. /\ UNCHANGED <<ipc, CV_Data>>
      /\ \A u \in Callers \ {t} : /\ cpc'[u] = cpc[u] /\ raw_data'[u] = raw_data[u]
                                  /\ readdata'[u] = readdata[u]
  BY StepFrame DEF loader
<1>2. cpc'[t] = "measure_clamp" /\ raw_data'[t] = 0 => readdata'[t] = CV_Data
  <2>1. CASE MeasureAdd(t)
    <3>1. raw_data' = raw_data /\ readdata'[t] = raw_data[t] + CV_Data
      BY <2>1 DEF MeasureAdd, TypeOK, CallersOK
    <3>2. CV_Data \in Int
      BY DEF TypeOK, LoaderOK, Calibrations
    <3> QED
      BY <3>1, <3>2
  <2>2. CASE ~MeasureAdd(t)
    BY <2>2 DEF CallerStep, EnableRead, EnableWrite, ClockRead, ClockWrite, MeasureRead,
                MeasureClamp, IoWrite, Step, TypeOK, CallersOK
  <2> QED
    BY <2>1, <2>2
<1> QED
  BY <1>1, <1>2 DEF ZeroInv

\* Every step keeps the sums of a raw zero recognisable.
LEMMA ZeroStep == TypeOK /\ Control /\ ZeroInv /\ [Next]_vars => ZeroInv'
<1> SUFFICES ASSUME TypeOK, Control, ZeroInv, [Next]_vars PROVE ZeroInv'
  OBVIOUS
<1>1. CASE UNCHANGED <<loader, callers>>
  BY <1>1 DEF loader, callers, ZeroInv
<1> QED
  BY <1>1, ZeroLoad, ZeroEnter, ZeroCaller, HwFrame DEF Next, LoadStep, vars

-----------------------------------------------------------------------------
(***************************************************************************)
(* The theorems.                                                           *)
(***************************************************************************)

\* The inductive invariant holds of the first state and of every later one.
THEOREM Invariance == Spec => []IInv
<1>1. Init => IInv
  <2> SUFFICES ASSUME Init PROVE IInv
    OBVIOUS
  <2>1. TypeOK /\ Control
    BY TypeInit, ControlInit
  <2>2. NoSequence /\ WaitInv /\ KeptInv /\ ZeroInv
    BY DEF Init, NoSequence, WaitInv, KeptInv, ZeroInv, Loading
  <2>3. QuietInv
    BY DEF Init, QuietInv
  <2> QED
    BY <2>1, <2>2, <2>3 DEF IInv
<1>2. IInv /\ [Next]_vars => IInv'
  BY TypeStep, ControlStep, NoSequenceStep, WaitStep, QuietStep, KeptStep, ZeroStep DEF IInv
<1> QED
  BY <1>1, <1>2, PTL DEF Spec

\* In an undisturbed load the engine is on, in normal mode, with no channel
\* enabled that nobody asked for (the ends of adc_init and enable_adc_channel).
THEOREM Confinement == Spec => []EngineConfined
<1>1. IInv => EngineConfined
  BY DEF IInv, QuietInv, NoSequence, EngineConfined, Confined, Requests
<1> QED
  BY <1>1, Invariance, PTL

\* An enable whose write no other enable overlaps is never lost.
THEOREM ChannelsKept == Spec => []KeptChannels
<1>1. IInv => KeptChannels
  BY DEF IInv, KeptInv, KeptBits, KeptChannels
<1> QED
  BY <1>1, Invariance, PTL

\* A raw zero reads as zero, also across the store of CV_Data.
THEOREM ZeroIsZero == Spec => []ZeroReadsZero
<1>1. IInv => ZeroReadsZero
  BY DEF IInv, ZeroInv, ZeroReadsZero, Clamp
<1> QED
  BY <1>1, Invariance, PTL

\* The wait without a time limit (adc_drv.c:166) is always for an engine that
\* is out of reset and running its sequence.
THEOREM WaitsForTheEngine == Spec => []NeverWaitsInVain
<1>1. IInv => NeverWaitsInVain
  BY DEF IInv, Control, Loading, WaitInv, NeverWaitsInVain
<1> QED
  BY <1>1, Invariance, PTL
=============================================================================
