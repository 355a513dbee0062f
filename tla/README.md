# A verification project for minilidar

minilidar is the program of a small radar on an embedded Linux board: it draws
on a framebuffer, reads a touch screen, keys, a distance sensor and an MPU6050
or MPU9250 motion sensor, and turns a servo.  This directory holds TLA+ models
of the parts of it that have behaviour worth checking, the configurations that
model-check them with TLC, and proofs that TLAPS checks.

To run: `tlc -config X.cfg M` for one row of "Runs" below, `tlapm M.tla` for a
module of proofs.  `PROJECT.json` lists the runs, for each property a mutation
of the code that breaks it, the source lines of every definition, the hazards,
the findings and the theorems.

## 1. The system

| part | source | state | operations | interacts with |
|---|---|---|---|---|
| reactor | `epoll/xepoll.*` | `listeners_`, `ev_`, `events_`, `epoll_loop_`, a thread | EpollAdd, EpollDel, EpoolQuit, EpollLoop | all event devices, by callbacks on its own thread |
| process | `main.cc` | the devices it builds | sigint_handler, main, exit | reactor (EpoolQuit, `~Epoll`) |
| event devices | `input/`, `utils/{timerfd,inotify,uart,socket,udp_server,gps}` | one descriptor each | construct, callback, destroy | reactor |
| motion sensor drivers | `imu/mpu6050/`, `imu/mpu9250/` | a handle (inited, dmp_inited, mask, orient, callbacks); the chip's registers, memory and fifo | some 200 register options, 40 DMP parameters, read, self test, init and deinit | chip over I2C; called by `imu/mpu*.cc` |
| modes of the sensors | `imu/mpu*/driver_*_{basic,fifo,dmp}.cpp` | a static handle each | init, read, irq_handler, deinit | drivers; the chip outlives the process |
| motion sensor users | `imu/mpu6050.cc`, `imu/mpu9250.cc` | the static handle behind the driver | Init, GetEulerQuat, Mpu6050Test | drivers; the timer's callback |
| buses and pins | `drivers/{iic,spi,pwm,gpio}.cpp` | descriptors, sysfs files | transfers, export, set | drivers, servo |
| servo | `moto/servo_motor.cc` | a Pwm | servo(angle) | pwm |
| display | `display/common.*` | the mapped framebuffer | pixel, line, circle, text | main, timer |
| second reactor | `epoll/epoller.h`, `epoll/uds_handle.cc` | `handlers_` | add, modify, remove, start | nothing in main |
| utilities | `utils/utils.*`, `distance/`, `ultrasonic/` | files | WriteFile, scans, one-shot reads | devices |
| vendored | `lib_json`, `include/json`, `include/spdlog`, fonts, firmware images | | | |

What is hard in it, and what makes each part correct:

* *Reactor and process.*  Two threads and a signal handler share `listeners_`,
  `ev_` and `epoll_loop_` without a lock.  Correct means: no watched descriptor
  without a callback, no callback without its object, events that name their
  source, callbacks that reach the device whose event it was, no descriptor
  starved, and a SIGINT that ends the process but not before the loop thread.
* *Fifo.*  The chip writes on while the driver reads it in several transfers,
  each of which may fail.  Correct means: reads stay in bounds and take whole
  packets, a fifo whose head is inside a packet is noticed, and nothing is left
  behind that the caller had room for.
* *Packets.*  One loop takes fields from running offsets that depend on a
  mask.  Correct means: each field comes from its own place.
* *Handle and chip.*  The mask in the handle and the layout in the chip are set
  by different transfers.  Correct means: they agree between calls, and a failed
  initialisation leaves neither a half-open handle nor a running chip.
* *Modes.*  An init makes some sixty to a hundred and sixty transfers, among
  them a self test that resets the chip and three fifo resets that save and
  restore what earlier calls have set; each may fail, and whatever an earlier,
  killed process left in the chip or in the magnetometer behind it is still
  there.  Correct means: what was asked is what is set, what is in the fifo is
  what the read takes apart, and what fails is closed.
* *Samples, calibration, buses, drawing.*  Functions of their arguments, full of
  byte orders, signs, divisors and edges.  Correct means: what comes out is what
  the chip's or the screen's manual says.
* *Pwm and log.*  A sequence of writes to files, any of which may be the last
  or may be refused.
* *Options and parameters.*  Hundreds of hand-written addresses, masks, shifts
  and conversions.  Correct means: they behave as a store of independent
  values, whatever fails.

The full list of hazards, each at its line, is in `PROJECT.json`; those with no
property say why.

## 2. Plan

Done, in this order:

1. `Epoll` and `Epoll_proofs`: the core, the only part with threads.
2. `DmpFifo` and `DmpFifo_proofs`, then `DmpPacket` (with `MCDmpPacket`) and
   `DmpPacket_proofs`: the path of the data.
3. `OptionStore`, the abstract specification of a driver of options;
   `RegDriver`, which implements it, with the tables `Mpu6050Regs` and
   `Mpu9250Regs` (run by `MCRegs`); `RegDriver_proofs`.
4. `DmpDriver`: handle against chip.  `DmpDriver_proofs`.  `DmpParam`,
   which implements `OptionStore` too, with the tables `Mpu6050Dmp` and `Mpu9250Dmp` (run by
   `MCDmp`).  `DmpParam_proofs`.
5. `MpuModes`: the files that run the chips in their modes, call by call.
   `MpuModes_proofs`.
6. The functions: `Readings`, `Calibration`, `Buses`, `Access` and
   `Framebuffer`, held against `MCReadings`, `MCBuses` and `MCFramebuffer`; and
   the two parts that write files, `RateLog` and `Pwm`.  `MCParts` runs all of
   them, and `DmpPacket`; `Parts_proofs`.

What could follow: an abstract reactor (a set of registrations, each event
delivered at most once) that `Epoll` implements while nothing is destroyed;
`IOLoop`, once something uses it.

## 3. Modules and how they correspond to the code

**Epoll.** One action per access that another thread can see: `EpollAdd` is
`AddInsert`, `AddFcntl`, `AddFill`, `AddCtl`; `EpollDel` is `DelFill`,
`DelCtl`, `Erase`; and so on.  `pc` says what each of the two threads does
next, `self` the object that main builds or destroys, `it` is `handle_it`,
`batch` what the for loop over `events_` has still to do.  Undefined behaviour
is nondeterministic: two threads in `listeners_` at once may lose an update,
miss an entry, crash, and from then on `torn` is set, after which anything
found there is in doubt; the erased iterator of `EpoolQuit` leads to any entry,
to the end or to a crash.  (`epoll_loop_` is a plain bool read by the loop
thread; every read follows an opaque system call, so it is taken to see a write
at some point.) `fcntl` and `epoll_ctl` may fail.  SIGINT comes at any step of
main; a second one goes to the loop thread, as the kernel does it while main's
is masked.  External: the kernel's interest list, readiness and descriptor
numbers.  main is any sequence of constructions and destructions: main.cc has
one device that is kept, the classes are written for more.

**DmpFifo.**  `count` and `skew` are the fifo, as bytes and as the offset of its
head within a packet, which is all that decides whether what is read makes
sense.  One action per transfer of `mpu6050_dmp_read` and of
`a_mpu6050_reset_fifo`, each with a failing twin; `Produce` is the DMP, which
makes up to `pace` bytes from one read of FIFO_COUNT to the next.  `Caller`
selects one of the two callers, which differ in where `len` is set.  The chip
is set to forget INT_STATUS at any read, so a transfer of another register
clears the overflow too: `lost` says that one was latched and cleared before
the driver looked.

**DmpPacket.**  The loop of `mpu6050_dmp_read` and `mpu9250_dmp_read` over the
packets of one read: `i` and `j` are the code's, `took` records from where each
field was taken.  `Reads` says which masks are read, with how many packets.
Numbers are left out.

**MpuModes.** Four applications (basic, fifo and dmp mode of the MPU9250, dmp
mode of the MPU6050) on their buses.  A call is a sequence of steps, `todo`,
written down in the code's order: each setter, each transfer of the functions
that make several (`ResetFifo`, `SelfTest`, `MagInit`, `SetFeature`).  `chip.on`
is the set of options that are on; values that are not switches (ranges,
dividers, filters) are steps that may fail and change nothing.  A failing step
returns through the cleanup of its place in the code, `Cleanup`.  `Killed` ends
the process at any step and starts any other mode of the same chip; the
chip, and the magnetometer with its own power mode, stay as they were.
`NullBus` is a call through a bus object that this process has not built: it is
a crash.  `Produce` is the chip that fills its fifo with what its enables say.

**Readings, Calibration.**  `mpu6050_read`, `mpu9250_read` and
`mpu9250_mag_read` as functions from the bytes in the chip to samples; the
averages, limits and offset arithmetic of the self test, and the orientation
matrices.  Integers where the code has integers, exact fractions where it has
floats, 16.16 numbers for powers.  `MCReadings` is the other side: how a chip of
the manual stores samples, answers a self test and lies in its device.  `Sampled`
says what a chip can be like when it is read: any samples, as many as the fifo
takes, any FIFO_EN; `SampleInputs` are the ones that are tried.

**Buses, Access.**  `IicBus` and `SpiBus` as what they put on the wire; the
drivers' functions that hand registers and the fifo through, with their result
codes, on either bus.  `MCBuses` is a device that does what it is told, with
the chip's fifo and DMP memory behind its registers.  `Sendable` and `Callable`
say which bytes and handles it has room for: what is written ends within its 512
registers; `WireInputs` and `AccessInputs` are the ones that are tried.

**Framebuffer.**  Drawing as sets of writes (place, bytes, value); `MCFramebuffer`
compares them with geometry: a line with one pixel per column (or row) and none
a pixel away from the ideal one, a symmetric circle with pixels in its rows,
glyphs where they belong, nothing outside the mapped memory.  It is given the
screen's `Width` and `Height` and what is drawn on it, all of which must be
`Drawable`: have room on the screen, for the code checks none of it.  `Spare` is
how much longer `smem_len` is than what is mapped.  The screen has no padding
and no offset: with either, `FbDrawPixel` and `FbPutChar` place the same pixel
differently, and text at the bottom can leave the mapping (section 6).

**Pwm.**  The constructor of `Pwm`, `ServoMotor` on it, and the destructor, as one
action per file written, in their order; `Takes` is what the kernel accepts.
A file may be missing for a while after export (`late`), in which case a write
is lost; a killed process leaves the channel to the next.  `apt` says that
neither happened to bar the values asked for.

**RateLog.**  `Utils::WriteFile`, read, truncate, write back, write the new line,
and a kill between any two.  `Ends` says where in the text each line ends, which
is as much of the text as the function looks at.

**MCParts.**  Puts the parts above side by side.  `part` says which one a behaviour is
about, the others stay as they begin; a function's inputs are initial states
without a step, so that its invariant is checked for each input.

**OptionStore.**  The abstract specification: options, a call in progress, what
it may change and what holds when it returns.

**RegTable, RegDriver, Mpu6050Regs, Mpu9250Regs, MCRegs.** A setter is a
sequence of pieces (register, bits cleared, bits of the value, shift); a getter
likewise.  Read, merge, write, each transfer with its failure, a write of two
bytes also half done.  The tables have one definition for each setter and
getter pair of the code, in its order.  Bytes are sets of bits.  The check of
arguments happens before the first transfer and is left out.

**DmpDriver.** The calls that touch the handle's flags, the mask, the cells
that decide the packet's layout, PWR_MGMT_1, USER_CTRL or INT_ENABLE, as
sequences of steps; a failing step, whose transfer may or may not have taken
effect, returns, in `dmp_init` by way of `mpu6050_deinit`.  The chip runs
between all steps.  Of the packets in the fifo one is followed, any one.  At
most one quaternion is on: what the chip sends with both is known to nobody but
its maker.  A reset loses the firmware.

**DmpCells, DmpParam, Mpu6050Dmp, Mpu9250Dmp, MCDmp.** Parameters in cells of
big-endian bytes, with the conversions of their setters and getters as exact
fractions: the code rounds floats, but for the values that occur no product
crosses an integer by it.  (The shake rejection threshold is multiplied by
46850 and divided by 46850.825, so it reads back one less; `ReadsBack` allows
each parameter the rest of its division.) A write may break off after any byte.
The range in ACCEL_CONFIG is fixed during a run.  The defaults that
`set_feature` writes over tap and shake parameters are not in these modules.

## 4. Runs

| run | what it asks | bounds |
|---|---|---|
| epoll_main | the process as main.cc has it ends on SIGINT, after the loop thread, and no ready descriptor starves | 2 descriptors for one slot of `events_`, 2 objects, one whose constructor may exit |
| epoll_scoped | the reactor's tables stay consistent while objects come and go | 2 descriptors, 2 objects, one destroyed; EINTR |
| epoll_reuse | **violated**: a stale event reaches another device | 1 descriptor, used twice |
| dmp_fifo | GetEulerQuat reads aligned, bounded, complete data; overruns are noticed | packets of 3 bytes, fifo of 4 and a byte, arrays of 3; a DMP that makes 7 bytes between two reads (they keep up) and one that makes 14 (it overruns); one failed transfer |
| parts | packets: each field is taken from its own place, inside the buffer; samples, self test, orientation, wire, access, drawing: as the manuals say; a pwm channel pulses as asked; the log ends with the newest lines | packets: one with each of the 508 masks of the 9 features that send something; 2, 3 and 12 with a quaternion (more than 255 bytes, where an offset that ran on would wrap).  Samples: numbers on both sides of each byte and sign, up to 3 of them, 4 sources.  Self test: errors on both sides of each limit, three trims, face up and down.  Orientation: all of them.  Wire: both buses, the chip's address and another, up to 12 bytes, registers of 8 and 16 bits, DMP addresses at the end of a bank.  Access: every state of a handle, up to 25 bytes (24 is the most).  Screen: 16 by 12 pixels, 16 and 32 bits, not padded, with memory for more than is mapped.  Pwm: 2 kills, times 0, 1, 2, 20.  Log: lines of which two or three fill it, 5 calls |
| dmp_packet_noquat | **violated**: other masks, from the second packet on | 2 packets |
| dmp_packet_tap | **violated**: the tap's arguments are swapped | one tap |
| dmp_driver | mask and layout agree; failed init is closed | any order of calls, 2 failures per call, 2 masks |
| mpu_modes | an init leaves what it asked for; the fifo holds what the read takes apart; a read fails only if a transfer does; a failed init and a deinit close | four applications, two buses, 2 failures per call, a kill at any step |
| mpu_regs | the options are independent, on each of the two chips | every pair of options that share a register, all values of up to 2 bits, and all ones of the wider ones |
| mpu_dmp | the parameters are independent and read back | every pair of neighbouring parameters, arguments on both sides of each unit, ranges 2g and 16g |
| mpu_dmp_thresh | **violated**: an accepted tap threshold overflows | thresholds in steps of 400 |

Why the bounds are enough.  *Epoll*: each property speaks of one descriptor and
one object; what disturbs it is one other of each, and a thread never does two
things at once.  Three descriptors give new orders of the same steps.  The
theorems below hold for any number.  *DmpFifo*: packets of 3 bytes have every
kind of misalignment (one byte off from either side), a fifo of 4 packets and
arrays of 3 admit reads of none, some, all that fit and all there is;
`SkewNoticed` is claimed for one failed transfer, and two can break it (a data
read and then the deinit after it).  At the pace of 7 it says that the head of
the fifo is at a packet before every call.  At that of 14 it has an exemption,
which the code needs: every register read clears INT_STATUS, so where the
overflow comes after a call has looked at it, the next reads of the same call
(FIFO_COUNT, the data, the configuration) clear the flag unseen (`lost`), and
the next call takes misaligned bytes without any transfer having failed.  Its
theorems hold for any sizes.
*DmpPacket*: masks are exhausted, and a theorem covers the numbers of packets.
*MpuModes*: what a failure can spoil is where it strikes, and a second one
strikes in the cleanup of the first; a chip that a killed process leaves is as
any step of that process left it, so every state of one mode is an initial
state of the others.  *Functions*: inputs are chosen on both sides of each
branch and of each carry.  *DmpDriver*: two failures in one call are the first
and one in the `deinit` that it leads to; no call has a third.  The masks
differ in the quaternion, in the other fields, and in neither. *RegDriver*: no
setter looks at more than its own bits and those beside them, which pairs
exhaust; the theorem covers the rest.  *DmpParam*: the two drivers' tables say
the same, so they are one run; parameters only touch by address, so those next
to each other are the ones that can overlap; `CellsApart` compares each with
all.

A run that says `CHECK_DEADLOCK FALSE` has an end: the process exits, a read is
over, or the test gives up.

### Fairness

Only `Epoll` has any.  Both threads are scheduled (weak fairness of the main
thread's and of the loop thread's steps): the system calls on their way return,
`epoll_wait` after one second at the latest, callbacks because `EpollAdd` makes
descriptors non-blocking.  A callback that never returns (`UartLoop`) is
excluded from the liveness run by `Greedy = {}`.  Strong fairness of
`WaitEvents` for each descriptor says that the kernel hands out ready
descriptors in turn (its ready list is a queue).  Nothing is assumed of
signals, devices, main's decisions, of failures, or of EINTR.

## 5. What is proved

`Epoll_proofs`, for any sets of descriptors and objects, any `MaxEvents`,
whatever main destroys.  The properties are not inductive by themselves: what a
step leaves behind depends on where both threads are.  The invariant `IInv` adds
`MainPlaces` and `LoopPlaces` (what each thread has in hand at each point of
EpollAdd, EpollDel and EpoolQuit), `Ownership` (a descriptor has one owner, and
what the kernel watches is open), `Progress` (what main has already done of the
call it is in) and `EvOwnedByMain`.  Three facts carry it: main never comes back
from sigint_handler; the loop never waits again once it has entered EpoolQuit;
hence, until some thread has, main is the only writer of `listeners_` and
`ev_`.  `EventNamesSource` holds even longer: the loop can spoil `ev_` only
after it has entered EpoolQuit itself, and then no event is delivered any more.
`DispatchesOwner` is what epoll_reuse refutes.  It is proved for programs that,
as main.cc does, keep their devices until the process ends (`Scoped = {}`):
then an owner is one for good (`OwnersStay`), in `listeners_` and in the events
that are waiting, and so it needs a destructor to go wrong, not the races, EINTR
or a signal.

`DmpFifo_proofs`, for any packet length, fifo, arrays, speeds of the DMP and
number of failures.  The invariant `IInv` adds to `TypeOK` and `ReadInBounds`
what makes a misaligned fifo noticeable: `Aligned` says at which points of the
driver the overflow interrupt is enabled and the head aligned or the overflow
latched, or cleared by a transfer that does not look (with one failure,
everywhere except between a failed transfer and the deinit that follows),
`Resetting` what `a_mpu6050_reset_fifo` has done at each
of its transfers, because an overflow that happens between its last two would
be lost: it cannot happen, as the fifo is empty and `Slack < FifoSize`.  Whole
packets rest on lemmas about `\div` and `%`.  For `GetEulerQuat` a second
invariant, `RoomyInv`, bounds what is in the fifo by what was made since
FIFO_COUNT plus the part of a packet a read leaves, as long as no transfer fails
but that of a deinit (`Steady`; after any other failure the handle is on its way
to being closed).  From it `KeepsUp` follows and, together with `Aligned`,
`SkewNoticed`: at a slow pace no call finds a misaligned fifo; at any other, one
does only where the overflow is flagged or `lost`.  It also says that `l` is the arrays' size whenever it is used, from which
`TakesAllThatFits` follows.  Assumed is only `DmpFifoAssumption`: the fifo holds
more than the DMP makes during one group of transfers.

`DmpPacket_proofs`, for any masks and any number of packets, if `Ordinary`
holds: each read has one packet or a mask with a quaternion.  (`OrdinaryRead`
of the run is such a set; dmp_packet_noquat shows what happens outside it.)
Fields come from their own packets and nothing past the transferred bytes is
read.  The invariant adds `Offset`, where the running byte offset stands before
each field: behind the quaternion it is the field's place in its packet, in
whichever packet, because the quaternion's branch sets it back; so it stays
below 256 although it is one byte and packets may be many.

`DmpDriver_proofs`, for any masks, firmware and number of failing transfers:
`TypeOK`, `InitFailsClosed`, `LayoutAgrees` and `Running`.  A first invariant
(`IInv`) says what is left of a call.  A `dmp_init` has `d` of its four opening
steps still to take and then only steps that leave `handle->inited` alone
(`Opens`); until the last of the four the handle is closed, which is why a
failure there only returns, and after it a failure leads to `deinit`
(`InitCloses`), whose own failure is a second one.  Every other call has no step
that sets `dmp_inited`, except `load_firmware`, which needs an open handle.
`LayoutAgrees` and `Running` speak of calls that have returned, and are false in
the middle of every one.  The second invariant (`PInv`) is a promise about the
steps still in `todo`: unless a transfer fails, they will put right whatever is
not.  For each feature the mask and the chip agree already and no step to come
touches it (`Stays`), or a step to come sets it and none after it does (`Comes`);
a packet of another layout is in the fifo only while a step that empties it is
to come, and none that changes the layout after that (`Fresh`); each flag is set
or will be; and in the middle of a fifo reset the interrupts are those it has
saved (`Lit`).  Each call makes its promise when it begins, and the other steps
keep what the promise says of the rest of the sequence.

`DmpParam_proofs`, for any table of parameters, any number of cells, and
transfers that fail as a whole or in the middle: `TypeOK`, `Implements`
(the store of independent parameters) and `ReadsBack`.  The refinement maps a
parameter to what its getter returns; the invariant says that the cells a
running setter is past hold what it sends, and that the byte which the three tap
axes share is still what it read.  The hypothesis is `Sound(Try)`: the cells of
any two parameters lie apart, and each parameter's conversion is the inverse of
its getter's and stores its arguments in the bytes it has.  Both are facts about
the tables.  TLC finds the second true of both chips' tables with the arguments
of the run (the assumption `TablesAreConvertible` of `MCDmp`), and the first in
`CellsApart`, which compares each parameter in focus with all others.  The tap
thresholds of finding 4 are not sound, and are not among those arguments.

`MpuModes_proofs`, for any modes on either bus and any number of failing
transfers: every property of the run.  `InitFailsClosed` and `DeinitStops`
speak of calls that have returned; the invariant says where a call is before
that (`Where`).  For this the inits are classified: each of the four, a
concatenation of some sixty to a hundred and sixty steps, is the opening of the
handle, then steps that leave handle and magnetometer alone, and in the modes
with a magnetometer the way to it (its bus's master off, the bypass on), the
steps that speak to it, and quiet steps again (`Rests`).  An init in which a
transfer fails is in its error path (`InitCloses`): before `mag_deinit`, in it,
or in `deinit`, and there only what a second failure excuses may be missing; a
`mag_deinit` that finds the bypass closed cannot happen with one failure,
because its first two steps open it (`Through`).  Of a deinit the invariant says
that as long as the magnetometer runs, the step that stops it is to come
(`Before`).  Kills need nothing: a new program's handle is closed, and the
invariant says little of the chip.

`Kept`, `Readable` and `Reads` need of each init what its steps add up to, and
are proved as a program without branches is, by what is known after each of its
parts.  A `World` is what steps can see and change: the options that are on,
the layouts in the fifo, the magnetometer, what a fifo reset has saved, what was
asked for.  `Leads(P, t, Q)` says that in any world of P all of the steps t can
be taken and end in Q, whatever the chip stores in between; it is stated as the
existence of a set of pairs (steps left, world) that is closed under steps and
under the chip (`Closed`), so that it needs no induction over t, and holds of a
concatenation if it holds of its parts (`LeadsThen`).  `Known(p)` are the
worlds that agree with a state of knowledge p: which options are certainly on
or off, which asked for and no longer so, what may be in the fifo.  Each setter
leads from one such state to another; so do the fifo reset, whose last steps
restore what its first has saved, the self test, after which all is off that
was on, and the magnetometer's initialisation, through the bypass.  Chained
(`From`, `To`), they lead each init from any world at all, whatever a killed
process has left, to the `Aim` of its mode, and each read from the aim back to
it.  The invariant `KInv` says that what is left of a call in which nothing has
failed leads to the aim from now (`Headed`), that the aim holds between calls
once an init has succeeded (`There`), and that on SPI nothing reaches the
magnetometer (`Tame`).  Assumed is only `ModesAssumption`.

`Parts_proofs`, for any periods, duty cycles and number of killed processes:
`PwmAsAsked`.  The invariant says what the kernel has taken by each step of
the constructor: at `duty` the period is set (`PeriodSet`), which rests on the
duty cycle of an earlier process being short enough for it; at `polarity` the
duty cycle (`DutySet`); a polarity is taken while enabled only if it is the
same (`PolaritySet`).  Assumed is that times are natural numbers
(`PwmAssumption`).  For lines of
any lengths, any bound of the log and any number of calls, killed anywhere:
`LogEndsWithNewest`.  The invariant says that from the truncation to the write
only the memory has the lines (`Emptied`), all older than the one to come
(`InOrder`), and short enough once `Cut` is done; that `Cut` never takes a line
from an empty memory is `NoText`.  How long the lines are together is a sum,
and what appending one does to it takes induction: the library's theorems on
that have an operator as a parameter, but the pigeonhole principle, one of its
theorems on finite sets, has none and yields induction for sets (`Induct`).
With it sums exist (`SumsExist`), hence `Ends` is what its definition says
(`EndsAre`), and a line adds its length (`TextGrows`).  Assumed is that lengths
and the bound are natural numbers (`RateLogAssumption`).

Most of the functions are in `Parts_proofs` too, for any input.  A function's
input never changes (`InputStays`), so what is to be shown is a fact about it.
`FieldsOfSamples`, for any chip that is `Sampled`: a number that was split into
bytes comes back, whichever byte is first (`WordBack`); a number lies in the
bytes of its vector, the vector in those of its sample, and the sample in the
fifo at its multiple of the size (`Lies`), which is a matter of quotients and
remainders; hence what is taken from there is the sample, and as many are taken
as are whole and have room.  `Oriented`, for any biases: a code is three digits
to the base of eight (`CodeIs`), each made of one row of the matrix, which has a
single entry, 1 or -1 (`RowScaleIs`).  `DrawnInPlace`, for a screen of any size
of 16 or 32 bits, whose lines are not padded and whose picture is at the start of
a memory of any length from what is mapped on, and anything `Drawable` on it: a pixel's place has its column and row as
remainder and quotient, so pixels come back from what is written
(`PlaceDecodes`), none is outside the memory, and every byte of the screen is
some pixel's (`PixelOfByte`).  A line (`LinesAreStraight`, anywhere in the
plane): after t rounds a coordinate has made so many steps that their number
times the longer side, and what has been collected since the last, make t times
the coordinate's own side (`Reached`).  A circle (`CirclesAreRound`, of any
radius above 0): each round goes one on or one down, stays inside the circle and
less than the diagonal of a pixel from it (`Walks`), so above the diagonal it is
less than two pixels inside, and on the way down it comes past every row.  Both
take induction over the rounds, with `Induct`; the rest is arithmetic.  A
rectangle is four lines, level or upright (`FrameIs`); the bytes that are
cleared line by line are those of the cells' pixels (`ClearSpots`).  All of
this is arithmetic without bounds: on a screen of less than 2^15 pixels each way
and 2^31 bytes, the code's 32-bit numbers hold it.  `Carried`, for anything that
is `Sendable`: after k bytes a device has those k from its register on
(`PutRun`), or has said its k registers from there (`GiveRun`), by induction over
the bytes with `Induct`; a write to I2C is its register and then its bytes, a
read is a message that points and one that asks (`IicWriteDoes`, `IicReadDoes`),
and a message to another address changes nothing (`NotForIt`).  On SPI the device
answers while it is spoken to, so what a read keeps is what comes after the
byte of the register (`SpiReadDoes`).  In the DMP's memory the address is put into
two registers first, and the bytes are filed from there on (`DmpTakes`).  Assumed
is `BusesAssumption`.

`RegDriver_proofs`, for any table of options of which `Fits` holds (each getter
reads where its setter writes, no two options on the same bits): the driver
implements `OptionStore`.  The refinement maps each option to what its getter
would return; a write maps to the abstract `Work`, since it changes only bits
in which no other getter looks, and the return to `Succeed`.  The invariant is
`TypeOK`, `Fresh` (the copy a setter has read agrees with the register, except
for its own bits and those the chip clears itself) and `Done` (the pieces
already written hold their part of the value).  The assumption `Fits(Option)`
is discharged by the run, which checks `TableFits` for every pair of options of
a chip that share a register; `Fits` speaks of pairs, and options in different
registers are apart.

Only model-checked: liveness (`SigintEnds`, `InputServed`), which is outside
TLAPS' reach; the self test (`SelfTestRight`), which raises to powers, and the
functions that hand registers and the fifo through (`HandedThrough`), whose
inputs the run enumerates; and facts
about the tables themselves (`TableFits`, `CellsApart`), which TLC exhausts and
the theorems take as hypotheses.

## 6. Findings

1. `xepoll.cc:126` looks up a callback by number, and the number may belong to
   another device by then (epoll_reuse).
2. `driver_mpu6050.cpp:3210` sets the byte offset back only in masks with a
   quaternion (dmp_packet_noquat).
3. `driver_mpu6050.cpp:472` swaps the arguments of the tap callback
   (dmp_packet_tap).
4. `driver_mpu6050.cpp:2903` overflows 16 bits for tap thresholds from 800 mg
   up at a range of 2g (mpu_dmp_thresh).

The lines of the MPU9250's driver that repeat 2 to 4 do the same.

Met while modelling, without a run of their own; the models do what the code
does, and say so where a property had to make room for it:

* `mpu6050.cc:216` sets `len` once; the driver overwrites it with each read's
  result, and later reads of `Mpu6050Test` take no more than that.  The mutant
  `CallReadKeeps` of dmp_fifo is this behaviour.
* `driver_mpu9250_fifo.cpp:736`: when `set_fifo` fails, the error path lacks the
  `mag_deinit` of its neighbours (see `InitFailsClosed` of `MpuModes`).
* A deinit of the basic or fifo mode whose `mag_deinit` succeeds and whose
  `deinit` fails cannot be repeated: `mag_deinit` then refuses, not initialised.
* `driver_mpu9250.cpp:1138` writes the firmware's start address with `iic_write`
  also on SPI, where `g_i2c_bus` is null (`NullBus`).
* The modes set the divider to `1000 / (RATE - 1)`, which makes 47.6 Hz of the
  50 that are meant.
* `mpu9250_read` in fifo mode never looks at the overflow, and 1024 is no
  multiple of 12.
* The self test takes away 1 g according to the sign of the sum, which is that
  of gravity unless an offset is larger than 1 g.
* `driver_mpu9250.cpp:9647`: the offset converters lose a step on the way back.
* `spi.cpp:360`: `spiWriteAddress16` sends zeros after the address.
* `ServoMotor` passes a period of 0, which the kernel refuses; `moto/README`
  speaks of 20 ms.
* `GetEulerQuat` returns true also after a failed read.
* `FbPutChar` at 8 bits falls through to 16 and at 24 writes four bytes;
  `FbDrawPixel` draws nothing at 24.  The guards compare with `smem_len` while
  only the screen is mapped, and pixels step by `xres` where characters step by
  `line_length` and start at the offsets: on a padded or panned screen they do
  not fit together, and text can leave the mapping.
* Circles of radius 2, 3, 6, 9, 10, 12, 13 have gaps of a pixel; a radius of 0 or
  less never ends.

* `mpu6050_dmp_init` has every register read clear INT_STATUS, so an overflow
  after `mpu6050_dmp_read` has looked at it goes unseen (`lost` of `DmpFifo`).

## 7. What is not modelled

Vendored libraries, fonts and firmware images.  The bytes that the event
devices print or echo.  The arithmetic of angles after a read.  Argument checks
of the setters, which return before anything changes.  `GetEulerQuat` of the
MPU9250, which repeats the MPU6050's.  The setters of the callbacks, one
assignment each.  The four conversions of the MPU9250's offset registers.  Use
of one handle from two threads: the program has none.  The `__APPLE__` branches
of the reactor, and events without EPOLLIN, as of an unplugged device; a handler
that hangs on an allocation of main other than `EpollAdd`'s.  Public calls in
between that undo an init on purpose (`set_sleep`, `set_fifo`, `set_interrupt`,
`device_reset`).  The dmp modes without a tap callback, which skip the motion
settings: each caller in `imu/` passes one.  `Gpio`, whose protocol is the pwm's with one write less, and
`IOLoop` with `UdsHandler`: nothing in the program uses them.  The distance
sensors: one file read and one conversion each.
