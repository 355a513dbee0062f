----------------------------- MODULE DmpDriver -----------------------------
(***************************************************************************)
(* What the driver believes of the DMP and what the chip does.             *)
(*                                                                         *)
(* mpu6050_dmp_read takes packets apart by handle->mask.  What a packet    *)
(* holds is decided elsewhere: by cells of the DMP's memory, which         *)
(* set_feature, set_3x_quaternion and the like write one after the other,  *)
(* while the DMP may be running, and any of their transfers may fail.      *)
(* This module follows the calls of driver_mpu6050.cpp that touch the      *)
(* handle's flags, the mask, those cells, PWR_MGMT_1, USER_CTRL or         *)
(* INT_ENABLE, transfer by transfer, and mpu6050_dmp_init, which is a      *)
(* sequence of them that ends in mpu6050_deinit when one fails.            *)
(*                                                                         *)
(* A call is the sequence todo of the steps it has still to take.  Runs of *)
(* transfers with no effect on the state here are one step, "write".       *)
(***************************************************************************)
EXTENDS Naturals, Sequences

CONSTANTS
  Masks,        \* the masks given to set_feature
  DefaultMask,  \* the mask dmp_init gives to set_feature
  Firmware,     \* external: what freshly loaded firmware may have switched on
  MaxSlips      \* bound: transfers that fail in one call

Quaternion == {"3x_quat", "6x_quat"}

(* The features that a cell of the memory switches; raw_gyro and cal_gyro
   send the same bytes, and so do tap and orient. *)
Part == Quaternion \union {"accel", "gyro", "gesture"}
Feature == Part \union {"gyro_cal"}

(* What the chip sends with both quaternions on is not known; callers use at
   most one. *)
Sound(m) == m \subseteq Feature /\ ~ Quaternion \subseteq m

ASSUME DmpAssumption ==
  /\ \A m \in Masks : Sound(m)
  /\ Sound(DefaultMask)
  /\ Firmware \subseteq SUBSET Feature /\ Firmware # {}
  /\ MaxSlips \in Nat

VARIABLES
  handle,  \* gs_handle: inited, dmp_inited, mask
  chip,    \* external: asleep, loaded, dmp and fifo enabled, irq unmasked,
           \* on (features its memory switches on), queued (the layout of one
           \* of the packets in the fifo, any one)
  call,    \* the call in progress
  todo,    \* its steps still to take
  saved,   \* int_enable, a local variable of reset_fifo
  slips,   \* transfers of this call that failed
  failed,  \* the step of this call that failed first, or "none"
  last,    \* how the previous call ended
  since    \* what has succeeded since the last failed transfer

vars == <<handle, chip, call, todo, saved, slips, failed, last, since>>

-----------------------------------------------------------------------------
(* The steps of the calls. *)

Step(name) == [do |-> name, of |-> {}, is |-> {}]
Write == Step("write")

(* Memory cells: the features "of" become those of "is". *)
Cell(of, m) == [do |-> "cell", of |-> of, is |-> m \intersect of]

(* handle->mask: likewise. *)
SetMask(of, m) == [do |-> "mask", of |-> of, is |-> m \intersect of]

(* a_mpu6050_reset_fifo *)
ResetFifo == <<Step("mask_irq"), Step("flush"), Step("run"),
               Step("unmask_irq")>>

(* set_feature without its else branches, which switch a feature off (a mutant). *)
SetFeatureOnlyOn(m) ==
  <<Write, Cell({"accel", "gyro"}, m), Cell({"gesture"}, m),
    Cell({"gyro_cal"}, m), Write, Cell({"3x_quat"} \intersect m, m)>>
    \o ResetFifo \o <<Cell({"6x_quat"} \intersect m, m)>> \o ResetFifo
    \o <<SetMask(Feature, m)>> \o ResetFifo

(* mpu6050_dmp_set_feature: what the packet holds of the sensors, *)
Sensors(m) ==
  <<Write, Cell({"accel", "gyro"}, m), Cell({"gesture"}, m),
    Cell({"gyro_cal"}, m), Write>>

(* the tap detection's parameters, or the byte that stops it, *)
TapDefaults == <<Write>>

(* the orientation's interrupt, *)
OrientInt == <<Write>>

(* and the quaternions. *)
Quaternions(m) ==
  <<Cell({"3x_quat"}, m)>> \o ResetFifo \o <<Cell({"6x_quat"}, m)>>
    \o ResetFifo

SetFeature(m) ==
  Sensors(m) \o TapDefaults \o OrientInt \o Quaternions(m)
    \o <<SetMask(Feature, m)>> \o ResetFifo

(* mpu6050_dmp_set_3x_quaternion, mpu6050_dmp_set_6x_quaternion *)
SetQuaternion(f, m) ==
  <<Cell({f}, m)>> \o ResetFifo \o <<SetMask({f}, m)>>

(* mpu6050_dmp_set_gyro_calibrate *)
SetGyroCalibrate(m) == <<Cell({"gyro_cal"}, m), SetMask({"gyro_cal"}, m)>>

(* mpu6050_init *)
Init6050 == <<Step("identify"), Step("init_reset"), Step("poll")>>

(* SelfTest without its last step: a chip that stays asleep (a mutant). *)
SelfTestSleeps == <<Step("biases"), Write, Step("reset")>>

(* mpu6050_self_test: twice get_st_biases, then the factory's values, then a
   reset and PWR_MGMT_1 without its sleep bit. *)
SelfTest == <<Step("biases"), Write, Step("reset"), Step("wake")>>

(* mpu6050_dmp_load_firmware *)
LoadFirmware == <<Step("load"), Step("start")>>

(* mpu6050_deinit *)
Deinit == <<Step("sleep"), Step("close")>>

(* What mpu6050_dmp_init sets of the options that RegDriver is about, and,
   after the firmware is loaded, of the parameters that DmpParam is about. *)
Configure == <<Write, Step("fifo_on"), Step("irq_on"), Write>>
Tune == <<Write>>

(* mpu6050_dmp_init *)
DmpInit ==
  <<Step("clear")>> \o Init6050 \o <<Step("wake")>> \o SelfTest
    \o Configure \o LoadFirmware \o Tune \o SetFeature(DefaultMask)
    \o Tune \o <<Step("dmp_on")>> \o ResetFifo
-----------------------------------------------------------------------------
Idle == call = "none"

NoCall == [call |-> "none", ok |-> TRUE, slips |-> 0, failed |-> "none"]

Init ==
  /\ handle = [inited |-> FALSE, dmp_inited |-> FALSE, mask |-> {}]
  /\ chip = [asleep |-> TRUE, loaded |-> FALSE, dmp |-> FALSE,
             fifo |-> FALSE, irq |-> FALSE, on |-> {}, queued |-> {}]
  /\ call = "none" /\ todo = <<>>
  /\ saved = FALSE /\ slips = 0 /\ failed = "none"
  /\ last = NoCall
  /\ since = "nothing"

Begin(name, steps) ==
  /\ Idle
  /\ call' = name /\ todo' = steps
  /\ slips' = 0 /\ failed' = "none"
  /\ last' = NoCall /\ saved' = FALSE
  /\ UNCHANGED <<handle, chip, since>>

(* The guards are those of the calls: return 3, 4 otherwise. *)
Inited == handle.inited
DmpInited == handle.inited /\ handle.dmp_inited

CallDmpInit == Begin("dmp_init", DmpInit)
CallInit == Begin("init", Init6050)
CallLoad == Inited /\ ~ handle.dmp_inited /\ Begin("load", LoadFirmware)
CallSelfTest == Inited /\ Begin("self_test", SelfTest)
CallForceReset == Inited /\ Begin("force_fifo_reset", ResetFifo)
CallDeinit == Inited /\ Begin("deinit", Deinit)

CallSetFeature ==
  DmpInited /\ \E m \in Masks : Begin("set_feature", SetFeature(m))

CallSetQuaternion ==
  /\ DmpInited
  /\ \E f \in Quaternion : \E m \in {{}, {f}} :
       /\ Sound(handle.mask \union m) /\ Sound(chip.on \union m)
       /\ Begin("set_quaternion", SetQuaternion(f, m))

CallSetGyroCalibrate ==
  /\ DmpInited
  /\ \E m \in {{}, {"gyro_cal"}} :
       Begin("set_gyro_calibrate", SetGyroCalibrate(m))

CallSetEnable ==
  /\ DmpInited
  /\ \E s \in {"dmp_on", "dmp_off"} : Begin("set_enable", <<Step(s)>>)

(* mpu6050_dmp_read, where it changes anything: it empties the fifo, or finds
   that it has run over and resets it. *)
CallRead ==
  /\ DmpInited
  /\ \/ Begin("read", <<Step("drain")>>)
     \/ Begin("read", ResetFifo)
-----------------------------------------------------------------------------
(* What a step does to the chip. *)
Reset(c) ==
  {[c EXCEPT !.asleep = TRUE, !.loaded = FALSE, !.dmp = FALSE,
             !.fifo = FALSE, !.irq = FALSE, !.queued = {}]}

(* The two writes of USER_CTRL in reset_fifo; the second still has the reset
   bits set. *)
Flush(c) ==
  {[c EXCEPT !.dmp = FALSE, !.fifo = FALSE, !.queued = {}]}
Run(c) ==
  {[c EXCEPT !.dmp = @ \/ handle.dmp_inited, !.fifo = TRUE, !.queued = {}]}

Outcomes(s, c) ==
  CASE s.do = "cell" -> {[c EXCEPT !.on = (@ \ s.of) \union s.is]}
    [] s.do = "mask_irq" -> {[c EXCEPT !.irq = FALSE]}
    [] s.do = "flush" -> Flush(c)
    [] s.do = "run" -> Run(c)
    [] s.do = "unmask_irq" -> {[c EXCEPT !.irq = saved]}
    [] s.do \in {"init_reset", "reset"} -> Reset(c)
    [] s.do = "wake" -> {[c EXCEPT !.asleep = FALSE]}
    [] s.do = "biases" ->
         {[c EXCEPT !.asleep = FALSE, !.irq = FALSE, !.dmp = FALSE,
                    !.fifo = TRUE, !.queued = {}]}
    [] s.do = "fifo_on" -> {[c EXCEPT !.fifo = TRUE]}
    [] s.do = "irq_on" -> {[c EXCEPT !.irq = TRUE]}
    [] s.do = "load" -> {[c EXCEPT !.loaded = TRUE, !.on = m] : m \in Firmware}
    [] s.do = "dmp_on" -> {[c EXCEPT !.dmp = TRUE]}
    [] s.do = "dmp_off" -> {[c EXCEPT !.dmp = FALSE]}
    [] s.do = "drain" -> {[c EXCEPT !.queued = {}]}
    [] s.do = "sleep" -> {[c EXCEPT !.asleep = TRUE]}
    [] OTHER -> {c}

(* Handled where deinit leaves dmp_inited alone (a mutant). *)
HandledHalf(s, h) ==
  CASE s.do = "mask" -> [h EXCEPT !.mask = (@ \ s.of) \union s.is]
    [] s.do = "clear" -> h
    [] s.do = "poll" -> [h EXCEPT !.inited = TRUE]
    [] s.do = "start" -> [h EXCEPT !.dmp_inited = TRUE]
    [] s.do = "close" -> [h EXCEPT !.inited = FALSE]
    [] OTHER -> h

(* What a step does to the handle; "clear" is DRIVER_MPU6050_LINK_INIT. *)
Handled(s, h) ==
  CASE s.do = "mask" -> [h EXCEPT !.mask = (@ \ s.of) \union s.is]
    [] s.do = "clear" ->
         [inited |-> FALSE, dmp_inited |-> FALSE, mask |-> {}]
    [] s.do = "poll" -> [h EXCEPT !.inited = TRUE, !.dmp_inited = FALSE]
    [] s.do = "start" -> [h EXCEPT !.dmp_inited = TRUE]
    [] s.do = "close" -> [h EXCEPT !.inited = FALSE, !.dmp_inited = FALSE]
    [] OTHER -> h

(* The call returns. *)
Return(ok) ==
  /\ call' = "none" /\ todo' = <<>>
  /\ last' = [call |-> call, ok |-> ok, slips |-> slips', failed |-> failed']

(* What the calls that returned 0 have established since a transfer failed:
   the whole initialisation, or that mask and memory agree. *)
Established ==
  CASE call = "dmp_init" -> "init"
    [] call = "set_feature" /\ since = "nothing" -> "feature"
    [] call \in {"deinit", "self_test", "init", "load"} -> "nothing"
    [] OTHER -> since

Advance ==
  /\ todo # <<>>
  /\ LET s == Head(todo) IN
       /\ chip' \in Outcomes(s, chip)
       /\ handle' = Handled(s, handle)
       /\ saved' = IF s.do = "mask_irq" THEN chip.irq ELSE saved
  /\ UNCHANGED <<slips, failed>>
  /\ IF Len(todo) > 1
       THEN todo' = Tail(todo) /\ UNCHANGED <<call, last, since>>
       ELSE /\ Return(failed = "none")
            /\ since' = IF failed = "none" THEN Established ELSE since

(* Storing in the handle takes no transfer, and iic_deinit, as the program has
   it, does nothing. *)
CanSlip(s) == s.do \notin {"mask", "clear", "start", "close"}

(* Slip of a dmp_init that only returns (a mutant). *)
SlipReturns ==
  /\ todo # <<>> /\ CanSlip(Head(todo)) /\ slips < MaxSlips
  /\ slips' = slips + 1
  /\ failed' = Head(todo).do
  /\ since' = "nothing"
  /\ Return(FALSE)
  /\ chip' \in {chip} \union Outcomes(Head(todo), chip)
  /\ UNCHANGED <<handle, saved>>

(* A transfer of the step fails, and the chip has taken it or has not.
   dmp_init then calls deinit, unless mpu6050_init itself has failed; every
   other call returns. *)
Slip ==
  /\ todo # <<>> /\ CanSlip(Head(todo)) /\ slips < MaxSlips
  /\ slips' = slips + 1
  /\ failed' = IF failed = "none" THEN Head(todo).do ELSE failed
  /\ since' = "nothing"
  /\ IF call = "dmp_init" /\ handle.inited /\ failed = "none"
       THEN todo' = Deinit /\ UNCHANGED <<call, last>>
       ELSE Return(FALSE)
  /\ chip' \in {chip} \union Outcomes(Head(todo), chip)
  /\ UNCHANGED <<handle, saved>>

(* The DMP writes a packet.  Which packet of the fifo the model follows is
   left open: it may take this one. *)
Layout(on) == on \intersect Part

Produce ==
  /\ chip.dmp /\ chip.fifo /\ chip.loaded /\ ~ chip.asleep
  /\ Layout(chip.on) # {}
  /\ chip' = [chip EXCEPT !.queued = {Layout(chip.on)}]
  /\ UNCHANGED <<handle, call, todo, saved, slips, failed, last, since>>

Call ==
  \/ CallDmpInit \/ CallInit \/ CallLoad \/ CallSelfTest \/ CallForceReset
  \/ CallDeinit \/ CallSetFeature \/ CallSetQuaternion
  \/ CallSetGyroCalibrate \/ CallSetEnable \/ CallRead

Next == Call \/ Advance \/ Slip \/ Produce

Spec == Init /\ [][Next]_vars
-----------------------------------------------------------------------------
(* Type correctness. *)
TypeOK ==
  /\ handle \in [inited : BOOLEAN, dmp_inited : BOOLEAN,
                 mask : SUBSET Feature]
  /\ chip \in [asleep : BOOLEAN, loaded : BOOLEAN, dmp : BOOLEAN,
               fifo : BOOLEAN, irq : BOOLEAN, on : SUBSET Feature,
               queued : SUBSET (SUBSET Part)]
  /\ (call = "none") = (todo = <<>>)
  /\ saved \in BOOLEAN /\ slips \in 0 .. MaxSlips
  /\ since \in {"nothing", "feature", "init"}
  /\ handle.dmp_inited => handle.inited

(* Between calls the mask is what the memory sends, and the fifo holds packets
   of that layout only, once a set_feature or a dmp_init has succeeded and for
   as long as no transfer fails: whatever the order of calls and whenever the
   DMP writes a packet in the middle of one. *)
LayoutAgrees ==
  Idle /\ since # "nothing" =>
    /\ chip.on = handle.mask
    /\ chip.queued \subseteq {Layout(handle.mask)}

(* And after a dmp_init, whatever of the calls above comes then, the chip runs:
   it is awake, has the firmware and its interrupts, and its fifo is on.  (A
   caller of set_sleep, set_fifo, set_interrupt or device_reset asks for
   something else; these are not among the calls.) *)
Running ==
  Idle /\ since = "init" =>
    /\ DmpInited
    /\ ~ chip.asleep /\ chip.loaded /\ chip.fifo /\ chip.irq

(* A dmp_init that fails closes the handle and puts the chip to sleep, if
   deinit's transfer did not fail as well; a chip that did not answer or take
   the reset of mpu6050_init is left as it was. *)
InitFailsClosed ==
  Idle /\ last.call = "dmp_init" /\ ~ last.ok /\ last.slips = 1 =>
    /\ ~ handle.inited /\ ~ handle.dmp_inited
    /\ chip.asleep \/ last.failed \in {"identify", "init_reset"}
=============================================================================
