------------------------------ MODULE MpuModes ------------------------------
(***************************************************************************)
(* The ways to run an MPU: an MPU9250's basic mode (every read takes the   *)
(* sample of the moment), fifo mode (the chip collects samples, with the   *)
(* magnetometer's behind them) and dmp mode (the chip's processor writes   *)
(* packets), and an MPU6050's dmp mode.  Each is a file with its own       *)
(* handle whose init calls some sixty setters one after the other; each    *)
(* setter may fail, and the init then takes back what it has done so far.  *)
(*                                                                         *)
(* A call is the sequence todo of the steps it has still to take.  The     *)
(* chip is the set of its options that are switched on, as their setters   *)
(* mean it.  Two dies are in the MPU9250: the magnetometer is behind an    *)
(* I2C bus of its own, keeps its mode when the rest is reset or put to     *)
(* sleep, and answers the host only through the bypass.                    *)
(*                                                                         *)
(* The program can be killed at any point and another mode started; the    *)
(* chip then is as it was left.                                            *)
(***************************************************************************)
EXTENDS Naturals, Sequences, FiniteSets

CONSTANTS
  Apps,     \* the modes in use; "mpu6050" is the MPU6050's dmp mode
  Buses,    \* and the buses
  MaxSlips  \* bound: transfers that fail in one call

ASSUME ModesAssumption ==
  /\ Apps \subseteq {"basic", "fifo", "dmp", "mpu6050"}
  /\ Buses \subseteq {"iic", "spi"}
  /\ MaxSlips \in Nat

VARIABLES
  mode,    \* the mode and the bus in use
  handle,  \* gs_handle: inited, dmp_inited, mag_inited
  chip,    \* external: options that are on, the layout of one of the
           \* samples or packets in the fifo (any one), firmware loaded
  mag,     \* external: the magnetometer is "down", in "rom" or "measuring"
  call,    \* the call in progress
  todo,    \* its steps still to take
  undo,    \* and, in an init that has failed, the calls after those
  saved,   \* int_enable and fifo_enable, local variables of reset_fifo
  asked,   \* history: options that this init's setters put on, and off
  slips,   \* transfers of this call that failed
  failed,  \* the step that failed first, or "none"
  last,    \* how the previous call ended
  ready    \* history: an init has succeeded and no transfer has failed since

vars == <<mode, handle, chip, mag, call, todo, undo, saved, asked, slips,
          failed, last, ready>>

-----------------------------------------------------------------------------
(* Steps. *)

Step(name) == [do |-> name, opt |-> "none"]
Steps(s) == [i \in DOMAIN s |-> Step(s[i])]

(* Setters: mpu9250_set_... with MPU9250_BOOL_TRUE, with MPU9250_BOOL_FALSE,
   and with a value that is not a switch. *)
On(s) == [i \in DOMAIN s |-> [do |-> "on", opt |-> s[i]]]
Off(s) == [i \in DOMAIN s |-> [do |-> "off", opt |-> s[i]]]
Choose(s) == Steps(s)

(* The same registers, written by the functions that are more than setters. *)
Raise(s) == [i \in DOMAIN s |-> [do |-> "raise", opt |-> s[i]]]
Drop(s) == [i \in DOMAIN s |-> [do |-> "drop", opt |-> s[i]]]

(* Groups of options that exist for every axis or source. *)
Axes == <<"standby_acc_x", "standby_acc_y", "standby_acc_z",
          "standby_gyro_x", "standby_gyro_y", "standby_gyro_z">>
Tests == <<"gyro_test_x", "gyro_test_y", "gyro_test_z",
           "accel_test_x", "accel_test_y", "accel_test_z">>
Imu == <<"fifo_xg", "fifo_yg", "fifo_zg", "fifo_accel">>
Sources == {"fifo_temp", "fifo_xg", "fifo_yg", "fifo_zg", "fifo_accel",
            "fifo_slv0"}
Interrupts == {"int_motion", "int_overflow", "int_dmp", "int_fsync",
               "int_iic_master", "int_ready"}

Elements(s) == {s[i] : i \in DOMAIN s}

(* The bits of USER_CTRL. *)
UserCtrl == {"fifo", "dmp", "iic_master"}

Option ==
  Elements(Axes) \union Elements(Tests) \union Sources \union Interrupts
    \union UserCtrl
    \union {"sleep", "disable_iic_slave", "fifo_1024kb", "ptat",
            "temperature_sensor",
            "cycle_wake_up", "latch", "read_clear", "fsync_interrupt",
            "iic_bypass", "gyro_standby", "wake_on_motion", "compare",
            "iic_multi_master", "iic_wait", "iic_delay", "slv0"}

(* The bits of PWR_MGMT_1 and PWR_MGMT_2, and of I2C_MST_CTRL. *)
Power == {"sleep", "cycle_wake_up", "gyro_standby"} \union Elements(Axes)
Master == {"iic_multi_master", "iic_wait"}

(* Stored the other way round: a register of zeros switches them on. *)
Inverted == {"ptat", "temperature_sensor"}
Defaults == Inverted \union {"latch"}

-----------------------------------------------------------------------------
(* The calls of driver_mpu9250.cpp. *)

(* a_mpu9250_reset_fifo *)
ResetFifo == Steps(<<"save", "mask_irq", "mask_fifo", "flush", "run",
                     "unmask_irq", "unmask_fifo">>)

(* mpu9250_init: the bus, WHO_AM_I, the reset bit, and up to 100 reads until
   the chip has cleared it. *)
Init9250 == Steps(<<"open", "identify", "init_reset", "poll">>)

(* mpu9250_deinit: PWR_MGMT_1, then a_mpu9250_deinit, whose iic_deinit or
   spi_deinit does nothing here, and the flags. *)
Deinit == Steps(<<"power_down", "close">>)

(* To the magnetometer through the bypass, and is it there (WIA)? *)
Bypass == Drop(<<"iic_master">>) \o Raise(<<"iic_bypass">>) \o <<Step("wia")>>

(* mpu9250_mag_init, on IIC only: a soft reset, until the chip has done it;
   the factory's values from the fuse ROM; power down. *)
MagInit ==
  Bypass \o Steps(<<"mag_reset", "mag_poll", "mag_down", "mag_rom",
                    "mag_asa", "mag_down", "mag_inited">>)

(* mpu9250_mag_deinit *)
MagDeinit == Bypass \o Steps(<<"mag_down", "mag_closed">>)

(* mpu9250_mag_set_fifo_mode without FIFO_EN (a mutant). *)
MagSetFifoModeForgets ==
  Raise(<<"iic_master">>) \o Drop(<<"iic_bypass">>)
    \o Steps(<<"slv0_addr", "slv0_reg">>) \o Raise(<<"slv0">>)

(* mpu9250_mag_set_fifo_mode: the chip's own master reads ST1 and the seven
   bytes behind it as slave 0, into the fifo. *)
MagSetFifoMode ==
  Raise(<<"iic_master">>) \o Drop(<<"iic_bypass">>)
    \o Steps(<<"slv0_addr", "slv0_reg">>)
    \o Raise(<<"fifo_slv0", "slv0">>)

(* a_mpu9250_get_st_biases: it runs the chip by registers of its own choice,
   test being the axes' self tests, *)
BiasesSetUp(test) ==
  Steps(<<"no_power", "no_irq", "no_sources", "no_power", "no_master",
          "no_user", "flush", "filter", "rate", "no_tests", "no_tests">>)
    \o test

(* collects samples for 50 ms, and leaves the registers so. *)
BiasesCollect ==
  Raise(<<"fifo">> \o Imu) \o Steps(<<"no_sources", "drain">>)

(* mpu9250_self_test: the biases without and with the self tests, then reset
   and sleep off. *)
SelfTest ==
  BiasesSetUp(<<>>) \o BiasesCollect
    \o BiasesSetUp(Raise(Tests)) \o BiasesCollect
    \o Steps(<<"factory", "reset">>) \o Drop(<<"sleep">>)

(* mpu9250_dmp_load_firmware: the code, read back and compared, and the start
   address. *)
LoadFirmware == Steps(<<"load", "start">>)

(* mpu9250_dmp_set_feature: what it writes of the memory, and three fifo
   resets. *)
SetGyroAccel == Steps(<<"gyro_sf", "cfg_15", "cfg_27", "motion_bias",
                        "gyro_raw_data">>)
TapThresholds == <<Step("tap_defaults")>>
TapTimes == Steps(<<"tap_axes", "tap_count", "tap_times", "shake_defaults">>)
OrientInt == <<Step("orient_int")>>
SetQuaternion == <<Step("lp_quat")>> \o ResetFifo \o <<Step("cfg_8")>>
                   \o ResetFifo
SetFeature == SetGyroAccel \o TapThresholds \o TapTimes \o OrientInt
                \o SetQuaternion \o ResetFifo

-----------------------------------------------------------------------------
(* basic_init, by its parts. *)

BasicOpen(bus) ==
  <<Step("link")>> \o Init9250 \o Off(<<"sleep">>)
    \o (IF bus = "spi" THEN On(<<"disable_iic_slave">>) ELSE <<>>)
    \o On(<<"fifo_1024kb">>) \o Choose(<<"clock_source", "divider">>)

BasicSensors ==
  On(<<"ptat">>) \o Off(<<"cycle_wake_up">> \o Axes \o Tests)

BasicFifo == Off(<<"fifo", "fifo_temp">> \o Imu)

BasicInterrupts ==
  Choose(<<"interrupt_level", "interrupt_pin_type">>)
    \o Off(<<"int_motion", "int_overflow", "int_dmp", "int_fsync",
             "int_ready">>)
    \o On(<<"latch", "read_clear">>) \o Choose(<<"extern_sync">>)
    \o Off(<<"fsync_interrupt">>) \o Choose(<<"fsync_level">>)
    \o Off(<<"iic_master", "iic_bypass">>)

BasicFilters ==
  Choose(<<"accelerometer_range", "gyroscope_range">>)
    \o Off(<<"gyro_standby">>)
    \o Choose(<<"fifo_mode", "gyroscope_choice", "low_pass_filter",
                "accelerometer_choice", "accelerometer_lpf", "low_power">>)
    \o Off(<<"wake_on_motion">>) \o On(<<"compare">>)

BasicMag(bus) ==
  IF bus = "spi" THEN <<>>
  ELSE MagInit \o Steps(<<"mag_mode", "mag_bits">>)

(* mpu9250_basic_init *)
BasicInit(bus) ==
  BasicOpen(bus) \o BasicSensors \o BasicFifo \o BasicInterrupts
    \o BasicFilters \o BasicMag(bus)

-----------------------------------------------------------------------------
(* fifo_init, by its parts. *)

FifoOpen(bus) ==
  <<Step("link")>> \o Init9250 \o Off(<<"sleep">>)
    \o (IF bus = "spi" THEN On(<<"disable_iic_slave">>) ELSE <<>>)
    \o On(<<"fifo_1024kb">>)
    \o Choose(<<"clock_source", "divider", "accelerometer_range",
                "gyroscope_range">>)

FifoSensors ==
  On(<<"ptat">>) \o Off(<<"cycle_wake_up">> \o Axes \o Tests)

(* FifoSources with the temperature too (a mutant). *)
FifoSourcesTemp == On(<<"fifo_temp">> \o Imu)

FifoSources == Off(<<"fifo_temp">>) \o On(Imu)

FifoInterrupts ==
  Choose(<<"interrupt_level", "interrupt_pin_type">>)
    \o Off(<<"int_motion">>) \o On(<<"int_overflow">>)
    \o Off(<<"int_dmp", "int_fsync", "int_ready">>)
    \o On(<<"latch", "read_clear">>) \o Choose(<<"extern_sync">>)
    \o Off(<<"fsync_interrupt">>) \o Choose(<<"fsync_level">>)
    \o Off(<<"iic_master", "iic_bypass">>)

FifoFilters ==
  Off(<<"gyro_standby">>)
    \o Choose(<<"fifo_mode", "gyroscope_choice", "low_pass_filter",
                "accelerometer_choice", "accelerometer_lpf", "low_power">>)
    \o Off(<<"wake_on_motion">>) \o On(<<"compare">>)

(* The magnetometer, first through the bypass and then by the master. *)
FifoMag(bus) ==
  IF bus = "spi" THEN <<>>
  ELSE MagInit \o Steps(<<"mag_mode", "mag_bits">>)
         \o On(<<"iic_master">>) \o Off(<<"iic_bypass">>)
         \o Choose(<<"iic_clock">>) \o On(<<"iic_multi_master">>)
         \o Off(<<"iic_wait">>) \o Choose(<<"iic_read_mode">>)
         \o Off(<<"iic_delay">>) \o MagSetFifoMode

FifoStart == On(<<"fifo">>) \o ResetFifo

(* mpu9250_fifo_init *)
FifoInit(bus) ==
  FifoOpen(bus) \o FifoSensors \o FifoSources \o FifoInterrupts
    \o FifoFilters \o FifoMag(bus) \o FifoStart

-----------------------------------------------------------------------------
(* dmp_init, by its parts. *)

DmpOpen(bus) ==
  <<Step("link")>> \o Init9250 \o Off(<<"sleep">>) \o On(<<"fifo_1024kb">>)
    \o SelfTest
    \o (IF bus = "spi" THEN On(<<"disable_iic_slave">>) ELSE <<>>)

(* A dmp_init that does not repeat what the self test has reset (a mutant). *)
DmpClockOnce ==
  Choose(<<"clock_source", "divider", "accelerometer_range",
           "gyroscope_range", "low_pass_filter">>)

(* The self test has reset the chip, and with it the size of the fifo. *)
DmpClock ==
  On(<<"fifo_1024kb">>)
    \o Choose(<<"clock_source", "divider", "accelerometer_range",
                "gyroscope_range", "low_pass_filter">>)

DmpSensors ==
  On(<<"ptat">>) \o Off(<<"cycle_wake_up">> \o Axes \o Tests)

DmpSources == Off(<<"fifo_temp">> \o Imu) \o On(<<"fifo">>)

(* The motion settings are made for a caller with a tap callback, which the one
   caller of mpu9250_dmp_init, mpu9250.cc:143, has. *)
DmpInterrupts ==
  Choose(<<"interrupt_level", "interrupt_pin_type", "motion_threshold">>)
    \o On(<<"wake_on_motion", "int_motion", "int_overflow">>)
    \o Off(<<"int_dmp", "int_fsync", "int_ready">>)
    \o On(<<"latch", "read_clear">>) \o Choose(<<"extern_sync">>)
    \o Off(<<"fsync_interrupt">>) \o Choose(<<"fsync_level">>)
    \o Off(<<"iic_master", "iic_bypass">>)

DmpFilters ==
  Off(<<"gyro_standby">>)
    \o Choose(<<"fifo_mode", "gyroscope_choice", "low_pass_filter",
                "accelerometer_choice", "accelerometer_lpf", "low_power">>)
    \o On(<<"compare">>)

DmpFeature ==
  LoadFirmware
    \o Steps(<<"tap_axes", "tap_axes", "tap_axes", "fifo_rate",
               "interrupt_mode", "orientation">>)
    \o SetFeature

(* What set_feature gave to the tap detection by default is set anew. *)
DmpTune ==
  Steps(<<"walk_time", "step_count", "shake_reject", "tap_time_multi",
          "tap_time", "min_tap_count", "tap_thresh", "tap_thresh",
          "tap_thresh">>)

DmpStart == Steps(<<"offset_ranges", "accel_bias", "gyro_bias">>) \o On(<<"dmp">>)
              \o ResetFifo

(* mpu9250_dmp_init *)
DmpInit(bus) ==
  DmpOpen(bus) \o DmpClock \o DmpSensors \o DmpSources \o DmpInterrupts
    \o DmpFilters \o DmpFeature \o DmpTune \o DmpStart

-----------------------------------------------------------------------------
(* The MPU6050's dmp_init, by its parts.  What it calls of the driver is the
   code above again: mpu6050_init, the self test, load_firmware, set_feature
   and reset_fifo. *)

Open6050 == <<Step("link")>> \o Init9250 \o Off(<<"sleep">>) \o SelfTest

Sensors6050 ==
  Choose(<<"clock_source", "divider", "accelerometer_range",
           "gyroscope_range", "low_pass_filter">>)
    \o On(<<"temperature_sensor">>) \o Off(<<"cycle_wake_up">>)
    \o Choose(<<"wake_up_frequency">>) \o Off(Axes)

Tests6050 == Off(Tests)

Sources6050 == Off(<<"fifo_temp">> \o Imu) \o On(<<"fifo">>)

Interrupts6050 ==
  Choose(<<"interrupt_level", "interrupt_pin_type", "motion_threshold",
           "motion_duration", "force_accel_sample">>)
    \o On(<<"int_motion", "int_overflow">>)
    \o Off(<<"int_dmp", "int_iic_master", "int_ready">>)

Pins6050 ==
  On(<<"latch", "read_clear">>) \o Choose(<<"extern_sync">>)
    \o Off(<<"fsync_interrupt">>) \o Choose(<<"fsync_level">>)
    \o Off(<<"iic_master", "iic_bypass">>)

Feature6050 == DmpFeature
Tune6050 == DmpTune
Start6050 == DmpStart

(* mpu6050_dmp_init *)
Init6050 ==
  Open6050 \o Sensors6050 \o Tests6050 \o Sources6050 \o Interrupts6050
    \o Pins6050 \o Feature6050 \o Tune6050 \o Start6050

-----------------------------------------------------------------------------
NoCall == [call |-> "none", ok |-> TRUE, slips |-> 0, failed |-> "none",
           ready |-> FALSE]

Asleep == "sleep" \in chip.on

(* The modes that run the chip's processor. *)
Dmps == {"dmp", "mpu6050"}

(* An MPU6050 has no SPI. *)
Modes == {m \in [app : Apps, bus : Buses] :
            m.app = "mpu6050" => m.bus = "iic"}

Init ==
  /\ mode \in Modes
  /\ handle = [inited |-> FALSE, dmp_inited |-> FALSE, mag_inited |-> FALSE]
  /\ chip = [on |-> Defaults, loaded |-> FALSE, tap |-> "unset", queued |-> {}]
  /\ mag = "down"
  /\ call = "none" /\ todo = <<>> /\ undo = <<>>
  /\ saved = {} /\ asked = [on |-> {}, off |-> {}]
  /\ slips = 0 /\ failed = "none" /\ last = NoCall
  /\ ready = FALSE

Idle == call = "none"

Begin(name, steps) ==
  /\ Idle
  /\ call' = name /\ todo' = steps /\ undo' = <<>>
  /\ slips' = 0 /\ failed' = "none" /\ last' = NoCall
  /\ saved' = {} /\ asked' = [on |-> {}, off |-> {}]
  /\ UNCHANGED <<mode, handle, chip, mag>>

CallInit ==
  /\ Begin("init", CASE mode.app = "basic" -> BasicInit(mode.bus)
                     [] mode.app = "fifo" -> FifoInit(mode.bus)
                     [] mode.app = "dmp" -> DmpInit(mode.bus)
                     [] mode.app = "mpu6050" -> Init6050)
  /\ ready' = FALSE

(* A deinit that leaves the magnetometer alone, as dmp_deinit may (a
   mutant). *)
CallDeinitChip == handle.inited /\ Begin("deinit", Deinit) /\ ready' = FALSE

(* basic_deinit, fifo_deinit and the two dmp_deinit. *)
CallDeinit ==
  /\ handle.inited
  /\ Begin("deinit",
       (IF mode.app = "fifo" /\ mode.bus = "iic" THEN Off(<<"fifo">>)
        ELSE <<>>)
       \o (IF mode.app \in {"basic", "fifo"} /\ mode.bus = "iic"
             THEN (IF handle.mag_inited THEN MagDeinit
                   ELSE <<Step("refuse")>>)
           ELSE <<>>)
       \o Deinit)
  /\ ready' = FALSE

(* mpu9250_read: out of the fifo, which it refuses when the fifo's sources
   are others than it can take apart, or the sample of the moment, to which
   the magnetometer's comes by a read of its own. *)
ReadSamples ==
  <<Step("configuration")>> \o
    (IF "fifo" \in chip.on THEN Steps(<<"sources", "drain">>)
     ELSE <<Step("sample")>> \o
            (IF handle.mag_inited THEN <<Step("mag_st1")>> ELSE <<>>))

CallRead ==
  /\ handle.inited /\ mode.app \notin Dmps
  /\ Begin("read", ReadSamples)
  /\ UNCHANGED ready

(* mpu9250_dmp_read, where it finds the fifo overrun. *)
CallDmpRead ==
  /\ handle.dmp_inited
  /\ Begin("read", <<Step("int_status")>> \o ResetFifo)
  /\ UNCHANGED ready

(* The irq_handler, where it finds an overrun.  It returns 0 also if the reset
   fails: last.ok says here that all of its transfers went through. *)
CallIrq ==
  /\ handle.inited /\ mode.app # "basic"
  /\ Begin("irq", <<Step("int_status")>> \o ResetFifo)
  /\ UNCHANGED ready

-----------------------------------------------------------------------------
(* What a step does. *)

(* PWR_MGMT_1 bit 7: everything but the magnetometer.  Whether the chip comes
   back asleep is left open. *)
Reset(c) ==
  {[on |-> s, loaded |-> FALSE, tap |-> "unset", queued |-> {}] :
     s \in {Defaults, Defaults \union {"sleep"}}}

WithOn(c, s) == {[c EXCEPT !.on = @ \union s]}
WithOff(c, s) == {[c EXCEPT !.on = @ \ s]}

(* The second write of USER_CTRL in reset_fifo is made of what the first
   left. *)
Runs == {"fifo"} \union (IF handle.dmp_inited THEN {"dmp"} ELSE {})

(* The chip after a step: one setter, one register or one reset. *)
Outcomes(s, c) ==
  CASE s.do \in {"on", "raise"} -> WithOn(c, {s.opt})
    [] s.do \in {"off", "drop"} -> WithOff(c, {s.opt})
    [] s.do \in {"init_reset", "reset"} -> Reset(c)
    [] s.do = "power_down" ->
         {[c EXCEPT !.on =
              (@ \ ({"cycle_wake_up", "gyro_standby"} \union Inverted))
                \union {"sleep"}]}
    [] s.do = "no_power" -> {[c EXCEPT !.on = (@ \ Power) \union Inverted]}
    [] s.do = "no_master" -> WithOff(c, Master)
    [] s.do = "no_user" -> WithOff(c, UserCtrl)
    [] s.do = "no_tests" -> WithOff(c, Elements(Tests))
    [] s.do \in {"no_irq", "mask_irq"} -> WithOff(c, Interrupts)
    [] s.do \in {"no_sources", "mask_fifo"} -> WithOff(c, Sources)
    [] s.do = "unmask_irq" -> WithOn(c, saved \intersect Interrupts)
    [] s.do = "unmask_fifo" -> WithOn(c, saved \intersect Sources)
    [] s.do = "flush" ->
         {[c EXCEPT !.on = @ \ {"fifo", "dmp"}, !.queued = {}]}
    [] s.do = "run" -> {[c EXCEPT !.on = @ \union Runs, !.queued = {}]}
    [] s.do = "drain" -> {[c EXCEPT !.queued = {}]}
    [] s.do = "load" -> {[c EXCEPT !.loaded = TRUE]}
    [] s.do = "tap_defaults" -> {[c EXCEPT !.tap = "defaults"]}
    [] s.do = "tap_thresh" -> {[c EXCEPT !.tap = "set"]}
    [] OTHER -> {c}

MagAfter(s) ==
  CASE s.do \in {"mag_reset", "mag_down"} -> "down"
    [] s.do = "mag_rom" -> "rom"
    [] s.do = "mag_mode" -> "measuring"
    [] OTHER -> mag

(* What a step stores in the handle, where deinit leaves dmp_inited set (a mutant). *)
HandledHalf(s) ==
  CASE s.do = "poll" ->
         [handle EXCEPT !.inited = TRUE, !.dmp_inited = FALSE]
    [] s.do = "start" -> [handle EXCEPT !.dmp_inited = TRUE]
    [] s.do = "mag_inited" -> [handle EXCEPT !.mag_inited = TRUE]
    [] s.do = "mag_closed" -> [handle EXCEPT !.mag_inited = FALSE]
    [] s.do = "close" -> [handle EXCEPT !.inited = FALSE]
    [] OTHER -> handle

(* What a step stores in the handle. *)
Handled(s) ==
  CASE s.do = "link" ->
         [inited |-> FALSE, dmp_inited |-> FALSE, mag_inited |-> FALSE]
    [] s.do = "poll" ->
         [handle EXCEPT !.inited = TRUE, !.dmp_inited = FALSE]
    [] s.do = "start" -> [handle EXCEPT !.dmp_inited = TRUE]
    [] s.do = "mag_inited" -> [handle EXCEPT !.mag_inited = TRUE]
    [] s.do = "mag_closed" -> [handle EXCEPT !.mag_inited = FALSE]
    [] s.do = "close" ->
         [handle EXCEPT !.inited = FALSE, !.dmp_inited = FALSE]
    [] OTHER -> handle

(* The calls of setters are remembered, the last one of each option. *)
Asked(s) ==
  CASE s.do = "on" -> [on |-> asked.on \union {s.opt},
                       off |-> asked.off \ {s.opt}]
    [] s.do = "off" -> [on |-> asked.on \ {s.opt},
                        off |-> asked.off \union {s.opt}]
    [] OTHER -> asked

(* The host reaches the magnetometer through the bypass alone; mag_deinit
   refuses a magnetometer that is not initialised, mpu9250_read other sources
   than 0x78 and 0x79. *)
MagSteps == {"wia", "mag_reset", "mag_poll", "mag_down", "mag_rom",
             "mag_asa", "mag_mode", "mag_bits", "mag_st1"}
Answers(s) ==
  /\ s.do \in MagSteps => /\ "iic_bypass" \in chip.on
                          /\ "iic_master" \notin chip.on
  /\ s.do = "sources" => chip.on \intersect Sources \in
                            {Elements(Imu), Elements(Imu) \union {"fifo_slv0"}}
  /\ s.do # "refuse"

(* The bus a step uses: load_firmware has iic_write for its last. *)
Via(s) == IF s.do = "start" THEN "iic" ELSE mode.bus

Return(ok) ==
  /\ call' = "none" /\ todo' = <<>> /\ undo' = <<>>
  /\ last' = [call |-> call, ok |-> ok, slips |-> slips',
              failed |-> failed', ready |-> ready]

(* The next of the calls that take back a failed init, or the end of it. *)
GoOn(seq) ==
  IF seq = <<>> THEN Return(FALSE)
  ELSE todo' = Head(seq) /\ undo' = Tail(seq) /\ UNCHANGED <<call, last>>

Advance ==
  /\ todo # <<>>
  /\ LET s == Head(todo) IN
       /\ Answers(s) /\ Via(s) = mode.bus
       /\ chip' \in Outcomes(s, chip)
       /\ mag' = MagAfter(s)
       /\ handle' = Handled(s)
       /\ saved' = IF s.do = "save" THEN chip.on ELSE saved
       /\ asked' = Asked(s)
  /\ UNCHANGED <<mode, slips, failed>>
  /\ IF Len(todo) > 1
       THEN todo' = Tail(todo) /\ UNCHANGED <<call, undo, last, ready>>
     ELSE IF failed = "none"
       THEN Return(TRUE) /\ ready' = (ready \/ call = "init")
     ELSE GoOn(undo) /\ UNCHANGED ready

InReset == {"save", "mask_irq", "mask_fifo", "flush", "run", "unmask_irq",
            "unmask_fifo"}

(* Cleanup that knows of the chip only (a mutant). *)
CleanupChip(s) == IF handle.inited THEN <<Deinit>> ELSE <<>>

(* What the init calls when step s has failed: nothing where mpu9250_init
   itself has. *)
Cleanup(s) ==
  IF ~ handle.inited THEN <<>>
  ELSE IF mode.app \in Dmps \/ ~ handle.mag_inited THEN <<Deinit>>
  ELSE IF mode.app = "fifo" /\ s.opt = "fifo" THEN <<Deinit>>
  ELSE IF mode.app = "fifo" /\ s.do \in InReset
    THEN <<Off(<<"fifo">>), MagDeinit, Deinit>>
  ELSE <<MagDeinit, Deinit>>

(* Storing in the handle takes no transfer. *)
NoTransfer == {"link", "mag_inited", "mag_closed", "close"}

Slip ==
  /\ todo # <<>>
  /\ LET s == Head(todo) IN
       /\ s.do \notin NoTransfer /\ Via(s) = mode.bus
       /\ IF Answers(s)
            THEN /\ slips < MaxSlips /\ slips' = slips + 1
                 /\ chip' \in {chip} \union Outcomes(s, chip)
                 /\ mag' \in {mag, MagAfter(s)}
            ELSE UNCHANGED <<slips, chip, mag>>
       /\ failed' = IF failed = "none"
                      THEN IF s.opt = "none" THEN s.do ELSE s.opt
                    ELSE failed
       /\ IF call # "init" THEN Return(FALSE)
          ELSE GoOn(IF failed = "none" THEN Cleanup(s) ELSE undo)
  /\ ready' = FALSE
  /\ UNCHANGED <<mode, handle, saved, asked>>

-----------------------------------------------------------------------------
(* The process ends and one of the modes is started on the same bus: its
   gs_handle is as the compiler has it, the chip as it is. *)
Dies ==
  /\ handle' = [inited |-> FALSE, dmp_inited |-> FALSE, mag_inited |-> FALSE]
  /\ call' = "none" /\ todo' = <<>> /\ undo' = <<>>
  /\ saved' = {} /\ asked' = [on |-> {}, off |-> {}]
  /\ slips' = 0 /\ failed' = "none" /\ last' = NoCall
  /\ ready' = FALSE
  /\ mode' \in {m \in Modes : /\ m.bus = mode.bus
                              /\ (m.app = "mpu6050") = (mode.app = "mpu6050")}
  /\ UNCHANGED <<chip, mag>>

(* It is killed. *)
Killed == Dies

(* A step over the other bus calls a method of g_i2c_bus, which is a null
   pointer. *)
NullBus == todo # <<>> /\ Via(Head(todo)) # mode.bus /\ Dies

(* The chip stores a packet of the DMP, or a sample of FIFO_EN's sources. *)
Layout == IF "dmp" \in chip.on THEN {"packet"} ELSE chip.on \intersect Sources

Produce ==
  /\ "fifo" \in chip.on /\ ~ Asleep /\ Layout # {}
  /\ "dmp" \in chip.on => chip.loaded
  /\ chip' = [chip EXCEPT !.queued = {Layout}]
  /\ UNCHANGED <<mode, handle, mag, call, todo, undo, saved, asked, slips,
                 failed, last, ready>>

Next == CallInit \/ CallDeinit \/ CallRead \/ CallDmpRead \/ CallIrq \/ Advance \/ Slip
          \/ Killed \/ NullBus \/ Produce

Spec == Init /\ [][Next]_vars
-----------------------------------------------------------------------------
(* Type correctness; the magnetometer's and the DMP's flags are set only in
   an open handle. *)
TypeOK ==
  /\ mode \in Modes
  /\ handle \in [inited : BOOLEAN, dmp_inited : BOOLEAN,
                 mag_inited : BOOLEAN]
  /\ chip.on \subseteq Option /\ chip.loaded \in BOOLEAN
  /\ Cardinality(chip.queued) <= 1
  /\ mag \in {"down", "rom", "measuring"}
  /\ (call = "none") = (todo = <<>>)
  /\ slips \in 0 .. MaxSlips /\ saved \subseteq Option
  /\ asked.on \intersect asked.off = {}
  /\ ready \in BOOLEAN
  /\ handle.dmp_inited => handle.inited /\ mode.app \in Dmps

(* An init that returns 0 leaves every switch as its setters asked for it,
   although a self test that resets the chip, three fifo resets that save and
   restore its enables and the magnetometer's initialisation come between,
   and whatever an earlier, killed program has left.  The bypass alone is not
   what was asked: mag_init opens it. *)
Kept ==
  Idle /\ last.call = "init" /\ last.ok =>
    /\ asked.on \subseteq chip.on
    /\ chip.on \intersect asked.off \subseteq {"iic_bypass"}
    /\ mode.app \in Dmps => chip.tap = "set"

(* After a successful init, and as long as no transfer fails, everything in
   the fifo has the layout by which the mode's read takes it apart: nothing
   from before the last change of FIFO_EN or of the DMP is left in it. *)
Readable ==
  Idle /\ ready =>
    /\ ~ Asleep
    /\ chip.queued \subseteq {Layout}
    /\ mode.app = "basic" => chip.queued = {}
    /\ mode.app = "fifo" =>
         Layout = Elements(Imu) \union (IF mag = "measuring"
                                          THEN {"fifo_slv0"} ELSE {})
    /\ mode.app \in Dmps => Layout = {"packet"}
    /\ mode.bus = "iic" /\ mode.app \notin Dmps => mag = "measuring"

(* After a successful init a read fails only if a transfer does: it finds the
   sources it can take apart, and the magnetometer behind an open bypass. *)
Reads ==
  Idle /\ last.call = "read" /\ last.ready /\ ~ last.ok => last.slips > 0

(* An init that fails once takes back what it did: the handle is closed, the
   chip asleep, unless it did not answer or take the first reset, and the
   magnetometer has been told to stop.  It has not after a set_fifo that
   fails in fifo_init, whose error path lacks the mag_deinit of its
   neighbours (driver_mpu9250_fifo.cpp:740). *)
InitFailsClosed ==
  Idle /\ last.call = "init" /\ ~ last.ok /\ last.slips = 1 =>
    /\ ~ handle.inited /\ ~ handle.dmp_inited
    /\ Asleep \/ last.failed \in {"open", "identify", "init_reset", "poll"}
    /\ handle.mag_inited => last.failed = "fifo"

(* A deinit that returns 0 leaves a closed handle, a chip asleep and, in the
   modes that use it, a magnetometer that does not measure.  The dmp mode
   never tells it anything: one that a killed program of another mode has
   left measuring goes on. *)
DeinitStops ==
  Idle /\ last.call = "deinit" /\ last.ok =>
    /\ ~ handle.inited /\ Asleep
    /\ mode.app \notin Dmps /\ mode.bus = "iic" => mag = "down"
=============================================================================
