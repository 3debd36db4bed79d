# Verification of linux_CPP_C_codes

The repository collects drivers and small programs for a baseboard management
controller (AST2500).  This directory holds TLA+ models of those that keep
state and can go wrong in ways a test hardly reaches, the TLC configurations
that check them on small instances, and TLAPS proofs of what holds on all.

    tlc -config AstI2cCalls.cfg MCAstI2c      check one configuration
    tlapm AstI2cProofs.tla                    check the proofs of one module

`PROJECT.json` lists the components, the runs, the lines every definition
stands for, the hazards, the findings and the theorems.

## 1. Inventory

### AST I2C polled driver -- `linux_app/uboot_i2c_codes`

*State.* `i2c_init_pending`, `i2c_bus_num` and `i2c_bus_base_addr` are file
statics; the controllers keep an interrupt status, a command, a byte buffer;
the SCU keeps the pin functions of all buses.

*Operations.* Two U-Boot commands, `master` (`do_masterrw`) and `slave`
(`do_slaverw`), and `i2c_probe`, `i2c_read`, `i2c_write` of `i2c.h`, over
`i2c_start`, `i2c_send_byte`, `i2c_receive_byte`, `i2c_stop`.  Each of these
writes a command and polls `i2c_interrupt_status` for at most 100000
iterations.

*Interactions.* With the controllers only, through registers; those act by
themselves between any two accesses.

*Hard.* An answer that comes after the poll gave up meets the next command, and
no initialisation takes the old command back; a status that arrives between the read and the clear is lost; the statics that
say which bus is meant are three and are written at different places; the
slave loop keeps its byte over a failed receive.

*Correct when* a return value tells the truth about the bus, the order of
commands is one an I2C bus accepts, no controller is driven before it is set
up, no reply is sent twice, and every call ends though nothing answers.

### ADC kernel driver -- `linux_driver/ADC`

*State.* The calibration `CV_Data`; the control registers of the device, its
data registers, the SCU's key and reset bit.

*Operations.* `adc_mod_init` with `adc_init`, `adc_mod_cleanup`, and
`ioaccess_ioctl` with its commands (enable, clock, measure, raw read and write).

*Interactions.* Processes call the ioctl at the same time, without a lock; the
device is registered before `adc_init` runs, so they call during it too.

*Hard.* Every register update is a read and a later write; measuring reads
`CV_Data` twice; a loop without a time limit waits for the engine; macros
without parentheses.

*Correct when* the engine stays in normal mode with the channels asked for,
readings are calibrated and in range, and loading ends.

### IPMB emulation -- `linux_app/i2c_emulate_ipmb`

*State.* The command line's option and register; the slave thread's buffer,
count, index and `sg_read`; the frames the kernel holds.

*Operations.* `main` sends at most one request; `i_slave_read_task` reads
frames and writes replies; both through `HW_I2CRawWriteReadBytes`.

*Interactions.* Boards of one bus exchange frames; all have the same slave
address; the thread and `main` of one board write to the bus at any time.

*Hard.* Frames are lost, or received by whoever listens; the status of a reply
goes to the variable that bounds the loop; a byte is compared with a `char`.

*Correct when* a frame is answered at most once and only if it names the
board's register, a request that is received is answered, and replies do not
call for replies.

### ADC driver written test-first -- `linux_driver/ADC_TDD`

*State.* One kmalloc'd page that stands for the registers, and the counter of
the test macros.  *Operations.* the ioctls (enable or disable, clock, measure)
and nine tests that run in one sequence on the same page.  *Hard.* The page is
shared by all tests and reset by none; a channel is its own bit `1 << chan_no`,
which is also where the engine's enable and mode bits are; a test that fails
returns early and leaves what it set.  *Correct when* the last write to a
channel or the clock is what is read, no operation disturbs another channel,
and a test that sets up what it asserts passes whatever ran before it.

### MCI sensor load test -- `linux_app/mci_test`

*State.* `thread_index[50]`, `pid_list[50]`, and the repository of sensor
records the library keeps for the process.  *Operations.* fifty detached
threads refresh the repository and read every record, for ever.  *Hard.* A
record is read while another thread refreshes the repository; the count and
the pointer are read at different times; a thread reads its argument when it
first runs, long after `pthread_create`.  The library is not in the repository.
*Correct when* each thread knows its own number, a pass that no other refresh
disturbs asks for exactly its sensors, and passes go on in any case.

### bitParse -- `linux_app/bitParse`

A value and a bit length are cut into four-bit segments, which are printed
under a row of bit numbers.  *Hard.* Lengths that are no multiple of four, the
`unsigned char` length, a zero in either argument.  *Correct when* every bit
shows once, below its number.

### UART LCD control -- `linux_app/uart_lcd_control`

*State.* The serial line with its options and its received bytes, which every
run of the program shares; the command the display is in the middle of; the
receive buffer of one run.  *Operations.* open, `set_opt` (which flushes the
input), then either a page name and its terminator, in two writes, or reading
and printing for ever.  *Hard.* Nothing keeps two runs apart; a short write is
only reported; the buffer is printed as a string.  *Correct when* a command
that nobody disturbs takes effect on a display that waits for one, what earlier
runs cut short or mixed up is over after one run that nobody disturbs, and a
receiver nobody disturbs prints what was sent.

### SIGALRM timer, C unit-test template, language samples

`sigalrm.c` installs a handler and arms a timer; `test_template.h` holds the
macros that run the tests of `ADC_TDD` and count those that fail; `struct_mem.cpp`, `snprintf.c` and `nullpointer.c` show a feature
of the language.  None shares state.

### How the components interact

They do not: each is a program or a kernel module of its own.  The two ADC
drivers are versions of one another and drive the same registers; the IPMB
program is a user of a slave driver such as the polled I2C driver's `slave`
command plays in the boot loader.

## 2. Plan

Order of the modules, the most important behaviour first:

1. `I2cMasterPort`, the abstract bus master, and `AstI2c`, the driver that
   implements it; `AstI2cProofs`. **Done.**
2. `AdcDriver` with concurrent callers; `AdcDriverProofs`. **Done.**
3. `IpmbEmulation`, several boards on one bus; `IpmbProofs`. **Done.**
4. `AdcDevice`, an abstract ADC that knows channels and a divisor and no
   registers, and `AdcTdd`, the test-first driver that implements it;
   `AdcTddProofs`.  `AdcTests`, the nine tests as one sequence over it, with
   what a failed test leaves behind; `AdcTestsProofs`. **Done.**
5. `UartLcd`, runs of the program on one line; `UartLcdProofs`. **Done.**
6. `MciTest`, threads over one repository that each refreshes; `MciProofs`.
   **Done.**
7. `BitParse`, the loops that cut a value and print its rows; `BitParseProofs`.
   **Done**; its properties are proved for every value and length, and no run
   of TLC is kept for them.

No module composes two of these components, since no two of them interact;
`IpmbEmulation` composes boards, `AdcDriver` callers, `UartLcd` runs, `MciTest`
threads, `AdcTests` the tests with the driver they test, and `AstI2c` the driver
with its controllers.  Abstract specifications: `I2cMasterPort` and `AdcDevice`.
Theorems worth proving: type correctness and every safety invariant of all
items, and the two refinements: all of these are proved.  Of the liveness
properties, which the prover cannot state, the part that is safety: that each
step of a call or a walk brings its end nearer, that a wait is for something
that can come, that a frame is decided when its scan ends.  These are proved
too; `PassesGoOn` and its like add the fairness.

## 3. Modules

| module | models | kind |
|---|---|---|
| `I2cMasterPort` | what callers and chips may expect of a bus master | abstract specification |
| `AstI2c` | `uboot_i2c_codes/ast_i2c.c` and the controllers | component |
| `MCAstI2c` | small instances of `AstI2c` | for TLC |
| `AstI2cProofs` | theorems about `AstI2c` | proofs |
| `AdcDriver` | `ADC/adc_drv.c` and the device | component |
| `MCAdcDriver` | small instances | for TLC |
| `AdcDriverProofs` | theorems about `AdcDriver` | proofs |
| `IpmbEmulation` | `i2c_emulate_ipmb/i2craw.c` on several boards | component |
| `MCIpmbEmulation` | a small instance | for TLC |
| `IpmbProofs` | theorems about `IpmbEmulation` | proofs |
| `AdcDevice` | an ADC with channels, a divisor and readings | abstract specification |
| `AdcTdd` | `ADC_TDD/adc_drv.c` and its page of memory | component |
| `AdcTddProofs` | theorems about `AdcTdd` | proofs |
| `AdcTests` | its nine tests, `adc_mod_init` and the macros that run them | component |
| `MCAdcTdd` | a small instance of `AdcTests`, and of `AdcTdd` with it | for TLC |
| `AdcTestsProofs` | theorems about `AdcTests` | proofs |
| `UartLcd` | `uart_lcd_control/uart_raw.c`, the line and the display | component |
| `MCUartLcd` | a small instance | for TLC |
| `UartLcdProofs` | theorems about `UartLcd` | proofs |
| `MciTest` | `mci_test/mci_test.c` and the repository the library keeps | component |
| `MCMciTest` | a small instance | for TLC |
| `MciProofs` | theorems about `MciTest` | proofs |
| `BitParse` | `bitParse/bitParse.cpp` | component |
| `BitParseProofs` | theorems about `BitParse` | proofs |

Names of variables and actions are those of the code wherever there is one.

**`AstI2c`.**  A call is cut where a controller can act: a command is written
(`phase = "issue"`), awaited (`"poll"`), its status cleared (`"clear"`), and the
caller looks at the answer and goes on (`"eval"`).  `pc` says which statement of
`i2c_probe`, `i2c_read`, `i2c_write` or `do_slaverw` that is.  The registers of
a controller are found through `i2c_bus_base_addr` and its interrupt bit through
`i2c_bus_num`, as in the code; `isr`, `cmd`, `last` and `trbb` are indexed by
base address.  `HwAnswer`, `HwReceive` and `HwSlaveByte` are the controllers:
they answer at once, late or never, and a command stays with its controller,
whatever the driver does, until it is answered or a newer one takes its place.
Callers of `i2c_probe`, `i2c_read` and `i2c_write` outside these files are taken
to call after a command has selected a bus, and to pass `masterm`, as
`do_masterrw` does, where there is a mode to pass.  `Live` are the buses whose
controllers can act.  `quiet`, `answers`, `heard` and `replies` are history
variables: `quiet` says that a call began with no command of an earlier one
unanswered, and `answers` holds what the controller answered to commands that
this very call has written (`OwnCommand`), so not to those it found pending.

**`AdcDriver`.**  The loading thread (`ipc`) writes one register per step; a
caller (`cpc`) reads a register in one step and writes it in the next.  Each
register is the set of its one bits.  `ClockMask` is what the macro
`write_register_and` makes of a sum.  `HwSequence` and `HwConvert` are the
device.  `disturbed`, `requested` and `kept` are history variables.

**`IpmbEmulation`.**  Every board runs `main` and the slave thread; one step of
the thread is one byte of the scan.  A write to the bus reaches any set of
boards that listen and have room, and its `Status` says whether somebody
acknowledged.  `answers` is a history variable.

**`AdcTdd`.**  The page is a function from registers to sets of one bits; each
ioctl and `adc_set_stubval` is one action, since the tests call them one after
the other from one thread.  Two channels share a data register, one half each.
`AdcDevice` is instantiated with the halves of the page's registers as the
readings of its channels.

**`AdcTests`.**  A test is a list of statements, calls and assertions, as the
code has them (`Body`); `place` and `line` say which statement of which test of
`list` is next.  A failed assertion ends its test (`TEST_ASSERT`), and the next
one starts on the page as it is.  The code runs `RunList`; the specification
takes any list of the tests, and a new test among them that makes any calls and
may stop after any of them, because what a test may rest on is a question about
the tests that could run before it.

**`UartLcd`.**  `pc` says which system call a run makes next.  A page name and
the terminator are written by different actions, each with any number of its
units taken; the display, external, takes them one by one.  `set_opt` is two
steps, its flush and its `tcsetattr`, either of which may fail, and bytes may
come in between.  `sole` and `shown`, `exact` and `owed` are history variables.
`sole` says how much of its command a run has put on the line with nobody after
it: the whole on an idle display, a part, or nothing.  `shown` is then what the
last run to end promises: its page, or only an idle display.  `exact` says that
a receiver has been undisturbed, and `owed` what it ought to print.

**`MciTest`.**  `created` is the loop variable of `main`; each thread has its
locals and a place `pc`.  A refresh puts another repository behind the one
pointer, `repo`; every later access of any thread looks behind it again, by the
index and the count the thread has kept, and finds anything at all behind the
last record (`RecordsAt`).  `own`, `calm`, `strayed`, `read` and `limits` are
history variables: what a thread's last refresh installed, whether any other has
installed a different one since, and what the thread has asked for.

**`BitParse`.**  The three loops of `parse`, one turn a step; a value and a
segment are sets of one bits, a row is the sequence of what it prints.

## 4. Runs

| run | instance | shows |
|---|---|---|
| `ast_i2c_calls` | two buses, one sharing pins with SD1 and live, the other held; reads and writes of 1 or 3 bytes after 0 or 2 address bytes, polls of 2 iterations | `PortReady`, `SuccessFillsBuffer`, `ReadStaysOpen`, `SuccessOnReadyBus`, `ProbeFindsChip`, `NoPhantomReply`, `BusFreeAfterCall`, the refinement `CommandOrder`, `CallReturns` and `CallComesToEnd` |
| `ast_bus_switch` | two live buses | *violated*: a call for the second bus drives the first |
| `ast_nak` | one bus, writes of one byte | *violated*: a write whose data byte was refused returns success |
| `adc_callers` | two callers, two channels, one raw word | `EngineConfined`, `KeptChannels`, `NeverWaitsInVain`, `LoadEnds` |
| `adc_measure` | one caller, raw values 0, 1, 1023 | `TypeOK`, `ZeroReadsZero` |
| `adc_normal_mode` | one caller | *violated*: an ioctl during `adc_init` leaves compensation on |
| `adc_channel_zero` | one caller | *violated*: a load that nothing disturbs turns channel 0 off |
| `adc_divisor` | one caller | *violated*: bits of the old divisor survive |
| `ipmb_two_nodes` | two boards, one with signed chars | `OneReplyPerFrame`, `OnlyItsRegister`, `FrameDecided`, `RequestIsAnswered`, `BusFallsSilent` |
| `adc_tdd` | the nine tests, any two of them exchanged, or after a new test that calls for three channels with two words | `OthersPass`, `NinePass`, `BehavesAsDevice` |
| `uart_lcd` | two terminals, a buffer of 3 bytes | `PageShown`, `LcdRecovers`, `PrintsWhatWasSent` |
| `mci_test` | two threads, repositories of no, two and three records | `OwnIndex`, `CalmPass`, `WalksEnd`, `PassesGoOn` |

### Properties

* `SuccessFillsBuffer`: a read that returns 0 has stored every byte.
* `ReadStaysOpen`: the chip is told that no more is read at the final byte and
  not before, also when bytes failed on the way.
* `ProbeFindsChip`: a probe that returns 0 and began with no command of an
  earlier call unanswered had an ACK to its own START.  What earlier calls left
  in the status register does not count, since `real_i2c_init` clears it.  What
  they left unanswered does: the command is not taken back, and its ACK, if it
  comes after the clear and before the probe's START, is taken for the chip's.
  "Returns 0 if a chip responded" (`i2c.h:138`) does not hold then, nor of
  `i2c_read` and `i2c_write`, which do not even clear.
* `SuccessOnReadyBus`: after a change of bus a call polls the interrupt bit of
  one controller and takes the status of another.  A call returns 0 only if the
  controller it polled, that of `i2c_bus_num`, has been initialised; for a bus
  that never was it fails, whatever the controller it drives answers.
* `NoPhantomReply`: a slave session sends no more replies than it was sent
  command bytes.
* `CommandOrder`: every step of the driver is a step of `I2cMasterPort` or
  leaves its variables alone.  The same command twice leaves them alone too;
  `ReadStaysOpen` tells a repeated final byte apart.
* `BusFreeAfterCall`, a property of `I2cMasterPort`: after a call that succeeded
  the bus is free; one that failed leaves it free or, by giving up at its address
  without a STOP, before the first byte of a read.
* `PortReady`: the controller whose registers a call writes, that behind
  `i2c_bus_base_addr`, is initialised and has its pins.  Of the controller whose
  interrupt bit it polls only `SuccessOnReadyBus` speaks.
* `CallReturns`: every call returns, though nothing answers.
* `CallComesToEnd`: why it does, and how soon: `StepsLeft` counts the polls left
  of the present command and the commands left of the call, and each step of the
  call makes it smaller, whatever the controllers do.
* `EngineConfined`: after an undisturbed load the engine is in normal mode, and
  only channels somebody asked for are on.  So the code has it; its comment has
  channel 0 on as a default, which `ChannelZeroByDefault` states.
* `KeptChannels`: exactly overlapping enables lose one another, nothing else.
* `ZeroReadsZero`, `TypeOK` of `AdcDriver`: readings with a calibration that
  changes between its two reads.
* `NeverWaitsInVain`: when `adc_init` waits for the engine, without a time limit,
  the engine is out of reset and enabled, so that what it waits for can come.
* `LoadEnds`: loading ends, unless an ioctl came in between; then the loop that
  waits for the engine can wait for ever.
* `OneReplyPerFrame`, `OnlyItsRegister`: which frames are replied to, how often.
* `FrameDecided`: a frame the thread is done with was replied to if and only if
  an address byte stands at or behind the register in it, and a `char` can be
  that register; the bound and the flag that change in the loop lose no frame.
* `RequestIsAnswered`: a received request for the board's register is replied
  to, if the register is below 128 (a register above is never recognised where
  `char` is signed).
* `BusFallsSilent`: the bus falls silent, unless a board's register is the
  address byte; two such boards reply to each other for ever.

* `BehavesAsDevice`: whatever calls are made in whatever order, the page reads
  like a device that keeps ten bits for each channel and for the divisor: no
  call changes what is read of another channel, and what a stub value or a
  divisor spills over its field is never read.
* `OthersPass`: a test fails only if it is one of the three that assert what a
  new page holds; the six others set up what they assert, and no call left over
  from another test can make them fail.
* `NinePass`: without a new test before them the nine pass in any order, except
  that the one of the default divisor fails after the one that sets a divisor;
  when all have run, channels 2 and 4 are left on.
* `PageShown`: a page command whose writes were whole, met a display that was
  waiting for a command, and had no other run's write between them, is shown,
  until another run writes.
* `LcdRecovers`: whatever was cut short or mixed up is over after one run that
  got a unit of its command and all of its terminator through with no other
  run's write between them.  It may not show its page, but leaves the display
  waiting for a command, so that the next one meets `PageShown`.
* `PrintsWhatWasSent`: a receiving run prints every byte once and in order,
  with the bytes read but not yet printed and those not yet read accounted for.
  The exceptions are stated in its `exact`: another run's flush or read, a byte
  that comes before the line has its options, a NUL in the data, which ends the print, and a read that fills the buffer, which
  leaves no end for it.
* `OwnIndex`: a thread that starts late still reads its own number.
* `CalmPass`: a pass during which no other thread installs a different
  repository asks for the readings of exactly the sensors in its own, for the
  thresholds of exactly those that have them, and reads nothing behind its end.
  With a refresh in between none of this holds, and nothing is promised.
* `WalksEnd`: a walk is as long as its own refresh said: each of its steps brings
  its end nearer, and no repository another thread installs puts it off.
* `PassesGoOn`: every thread completes pass after pass, also with a longer or
  shorter repository under its walk.
* `RowsAgree`, `RowIsShifted` (of `BitParse`, proved only): for a length up to 64
  that is a multiple of four, every digit stands below the number of its bit;
  for any other up to 64, below a number too high by the bits that fill no
  segment.

### Violated statements

Five runs end in a counterexample to what a comment or a test says of the code.
The findings in `PROJECT.json` quote the statement.

* `CallGoesToSelectedBus`: `do_masterrw` selects a bus by its number alone, and
  the base address stays that of the bus last initialised.
* `SuccessMeansAcknowledged`: `i2c_write` returns 0 though the chip refused a
  data byte which that write itself sent.
* `NormalModeAfterInit`: an ioctl that read the engine during compensation writes
  it back after the end of `adc_init`.
* `ChannelZeroByDefault`: "We will enable ADC channel0 [...] as default"
  (`adc_drv.c:149`), but the last write of `adc_init` turns it off again.
* `DivisorReadsBack`: bits of the old divisor survive.

### Bounds

* `PollLimit` (2 or 1, for 100000): the loop does one thing in every iteration,
  and the limit is met, with a miss before it and a hit on the last iteration.
* `MaxHeard = 1` command byte in a slave session: a second reply to it, from the
  byte that is kept over a failed receive, is already one too many.
* `Live = {9}` in `ast_i2c_calls`: the lines of bus 1 are held, so that its
  controller never answers, but is selected, initialised, driven and polled like
  the other.  What either property of two buses can go wrong with is the order
  of commands and a status taken from the other bus, and both happen.  With both
  live the states are too many; `PortsReady` and `SuccessReady` prove the two
  for any buses that act.
* `Lens = {1, 3}`: first, middle and last byte of a loop, and a loop where
  these are one.  `Alens = {0, 2}`: no address, and a loop over more than one.
  `ast_nak` needs one byte and no address.
* `Bytes`: the byte `do_slaverw` waits for, and one other.
* Buses 1 and 9: bus 1 needs no pins, bus 9 lies in the second register block
  and shares its pins.
* Two callers: a lost update needs two.  Raw values: both ends and the one next
  to zero, so that sum and calibration differ by one.
* `QueueLen = 2` frames, four registers: an ordinary one, the address byte, one
  above 127, one that agrees with the first in its low byte.
* `AdcTests`: channels 1 to 5 are those the tests name.  New tests call for 4
  and 5, which share a data register, and for 3, which lies in another; the
  words are 0xa5, which the tests store, and one with bits above the ten of its
  field, which they do not.  Of the orders of nine tests, those with two
  exchanged: a test that disturbs another does so from any place before it.
* `RevSize = MaxInbox = 3` (128 in the code, and what the kernel holds): a read
  that fills the buffer, and a read of two bytes before one of one, which a
  stale buffer would show.  Two terminals: all of a run's disturbances come
  from one other run at a time, and more runs only repeat them.
* `MciTest`: two threads for 50: what disturbs a thread is a refresh by any
  other.  The repositories differ in length, in order and in the kind of record
  at an index, and one is empty, so that a walk meets a record of another kind,
  another sensor, and the end.

### Fairness

* `AstI2c`: `WF(CallStep)`; the boot loader runs one thing at a time, so a call
  goes on.  Nothing obliges a controller to answer or an operator to type.
* `AdcDriver`: `WF(AdcInitStep)`, since `insmod` runs to its end, and
  `WF(HwSequence)`, since an engine that is on ends its check.
* `IpmbEmulation`: weak fairness of each slave thread, which the kernel
  schedules; no frame has to be delivered.
* `MciTest`: weak fairness of each thread, which the kernel schedules; the calls
  of the library are taken to return.  `main` need not go on.

`IpmbTwoNodes.cfg` switches the deadlock check off: when all frames are read
every thread blocks in its read, which is how the program ends its work.
`MciTest.cfg` does, since `main` goes on sleeping if no thread could be created.

## 5. Proofs

All theorems hold for every value of the constants that satisfies the
assumptions named in the component's module: buses are those of the chip
(0..13), lengths of data are positive, bytes are bytes; channels are 0..13, raw
values and divisors have ten bits; registers of boards are numbers; a buffer has
room for one byte; a repository is a sequence of records.

**`AstI2cProofs`.**  `TypeCorrect` by itself.  The other properties follow from
the inductive invariant `IInv`, which says at every `pc` and `phase` which
command was put on the bus last, what range the index has, that `filled` holds
all indexes below it as long as `ret` is 0, that nothing
but the answer to its own START brings an ACK to a probe that began with no
command unanswered (`ProbeInv`: none is pending or has been read, and no command
that may bring one, until that answer comes), that nothing is pending at a
controller never initialised, so that a call beyond its START was polled at one
that was (`PolledInv`), and that replies sent plus a byte still pending do not
exceed those heard.  None of the properties is inductive: `SuccessFillsBuffer`
speaks of an idle driver, and it takes the loop's history to know what is
stored; `NoPhantomReply` needs the pending byte.  From `IInv` follow
`PortsReady`, `BufferFilled`, `OpenRead`, `SuccessReady`, `ProbeSound`, `RepliesOwed`,
`CallsAreBounded` (`CallComesToEnd` for any poll limit: the range of the
index keeps the count of the commands left from growing), and `Implements`: each action maps to
`Select`, `Put`, `Finish` or `Abandon` of `I2cMasterPort` or to a stutter.  `CallsFreeTheBus` is proved on the abstract side, of the four
actions of the port (`AfterCallStep`), and holds of the driver by the refinement.

**`AdcDriverProofs`.**  `IInv` adds, to the properties, that after an
undisturbed load the register value a caller is about to write back has the
normal mode and no channel nobody asked for (`QuietInv`); that it has every kept
channel (`KeptInv`); and that the sum of a raw zero is zero or the present
calibration (`ZeroInv`), which survives the one store of `CV_Data` because that
store meets only a calibration of zero.  A property about the register alone is
not inductive: a value read earlier could be written over it.  While the
loader waits, nobody has written the engine since its first write (`WaitInv`):
the only ones who could are callers inside an ioctl, and of an undisturbed load
there are none (`Control`).  From `IInv` follow `Confinement`, `ChannelsKept`,
`ZeroIsZero` and `WaitsForTheEngine`, for any number of callers.

**`AdcTddProofs`.**  `TypeCorrect`, and `Implements`, the refinement for any set
of channels and of stored words.  The invariant is the type; the work is in the
lemmas on sets of bits: a half that is written reads as the value
(`HalfWritten`), the other half reads as before (`HalfKept`), so that a stub
value maps to one step of the device (`StubMaps`), and every other action too
(`StepMaps`).

**`AdcTestsProofs`.**  Every statement a test calls is a call of `AdcTdd`
(`CallKnown`), so that a load with any list of tests is a behaviour of `AdcTdd`
(`LoadCalls`) and `BehavesAsDevice` carries over (`TestsMeetDevice`).
`OnlyFirstTestsFail` needs `Progress`: what each test has set up before each of
its lines.  `OthersPass` by itself says nothing of a test half-way, and whether
its next assertion holds depends on that alone.
`NineTestsPass` needs `NineInv`: which channels are on and which lines of which
tests have switched them (`EngineLeft`), that only the test of the ioctl moves
the divisor (`ClockLeft`), that the measurement before an enable was refused
(`RefusedBefore`), and where in the list the one test that can fail and the one
that makes it fail stand (`Failures`).  `NinePass` compares the page at the end with a set of tests; it is the page after each
test, in whatever order they ran, that carries over from one to the next.

**`IpmbProofs`.**  `IInv` says of each board that the bound of its scan lies in
the frame (`ScanInv`), that after a reply this bound, where the code keeps the
reply's status, is at most zero (`ReplyInv`), that `sg_read` implies that the
frame named the register, and a reply `sg_read` (`SeenInv`).  `OneReplyPerFrame` is
not inductive without the second: a scan that had replied could go on.
`FramesDecided` rests on `AllDeciding`, which says of a scan that has not replied
that the bytes it has looked at call for no reply, and that `sg_read` is exactly
whether the register was among them (`Scanned`).  From the same invariant
follows `NoReplyToReplies`: no reply is itself replied to, unless a board's
register is the address byte, which is why the bus falls silent.

**`UartLcdProofs`.**  `IInv` adds, to the properties, that between the two writes
of a run which is still undisturbed the display has seen no end of a command
yet, and holds the run's own command if it was idle before (`SoleInv`), and that the bytes owed to an undisturbed receiver are those it has
read and not printed, followed by those on the line, with the buffer ended by
the first NUL in it (`ExactInv`).  An argument about one receiver is enough,
since a second one's read disturbs the first.  `CommandShows`,
`DisplayRecovers` and `ReceiverPrints` follow for any number of terminals and any buffer.

**`MciProofs`.**  `IInv` says that a started thread has its number in its element
of the array (`IndexInv`), that the body of the loop has a record and an index
below the count (`BodyInv`), and that a pass nobody has disturbed has asked for
the sensors among the records below its index and no others (`PassInv`), which
at the end of the walk is `CalmPass`.  `NumbersOwn` and `PassesExact` hold for
any number of threads and any repositories.  So does `WalksAreBounded`, which
needs of `IInv` that the index stays below the count inside the body, and
besides that no thread runs before `main` has come to it (`FreshInv`), so that
`thread_init` starts no walk over again.

**`BitParseProofs`.**  `IInv` says after every turn of the loops which segments
are stored, which tags and which digits printed.  A digit printed at column k is
bit `4 * (len / 4) - k` and the tag above it `len - k`: that is `RowsShifted`,
and `RowsAligned` where the length fills its segments.

Left to TLC: the liveness properties `CallReturns`, `LoadEnds`,
`RequestIsAnswered`, `BusFallsSilent` and `PassesGoOn`.  To conclude from "every
step brings the end nearer" that the end comes takes weak fairness, that is
ENABLED, and an induction over the number of steps, neither of which the provers
have.  What TLC adds to the theorems above is just this last step, on the small
instances.  Every other property of a passing run is proved.

## 6. Not modelled

* Bus numbers outside 0..13 and shifts by 32 and more: undefined, or addressing
  memory that is no controller.  Transfers of no byte, which `i2c.h` does not
  offer.  The value of `i2c_reg_read` on failure, 0xFF, which its caller cannot
  tell from a register that holds it.
* `slavem` as the mode argument of `i2c_read` and `i2c_write` (`ast_i2c.c:235`,
  `253`), which no caller in the repository passes; `do_slaverw` passes it to
  `i2c_send_byte` and `i2c_receive_byte`, and those branches are modelled.
* A failing `register_chrdev`: the load ends before any state changes.
  `disable_adc_channel`, `i2c_slave_enable` and `buf_init`, which nothing calls.
  Unloading the module under a running ioctl: the code may be gone, which is
  undefined.
* Of `uart_raw.c`, what a print of a buffer without a terminating zero shows
  (line 201): the model lets it show more than the buffer and promises nothing
  from then on.  `uart_speed_set`, which nothing calls.  Echo of a line that
  `set_opt` failed to set up.  What a byte becomes that comes before the line
  has its options: the receiver is promised nothing then.
* Of `ADC_TDD`, what the test macros print; the number of failed tests is the
  size of `failed`.  The string and truth assertions of `test_template.h`, which
  only `test_unity.c` uses.
* Of `mci_test`, a refresh that rewrites a repository in place while it is read:
  the library is taken to install another and to leave the old one readable, as
  the code's use of `sdr_record` supposes.  `IS_SCANNING_DISABLED` and the other
  conditions on what a sensor answers, after which nothing is kept.
* Of `bitParse`, `_val_to_segval` is declared to return a value and returns none;
  the caller does not look at it, and a build where the function returns at all
  is assumed.  Shifts of 64 bits and more are undefined, and the model lets such
  a segment be anything.
* Channel 13 of the ADC: both drivers read it from the upper half of the register
  at 0x28, `adc_define.h` names one at 0x2C; the models follow the drivers.
* The wrappers of `i2c.h` around `i2c_read` and `i2c_write` for a single
  register, and those of `i2c-dev.h`, which nothing here calls.
* Wording of comments that no behaviour decides: `sigalrm.c:25` says five
  seconds and the timer is set to one.
* `sigalrm.c`, which performs two system calls in one order, `test_unity.c`, and
  the language samples: they keep no state that could go wrong.
