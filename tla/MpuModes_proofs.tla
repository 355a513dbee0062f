--------------------------- MODULE MpuModes_proofs ---------------------------
(***************************************************************************)
(* TypeOK and the properties of MpuModes for any modes, either bus and any *)
(* number of transfers that fail.                                          *)
(*                                                                         *)
(* InitFailsClosed and DeinitStops say what holds when a call has          *)
(* returned; the invariant says where a call is before that (Where).  The  *)
(* long sequences of steps are classified first: every init is the opening *)
(* of the handle, then steps that leave it alone, and in the modes with a  *)
(* magnetometer the way to it through the bypass, the steps that speak to  *)
(* it, and steps that leave the handle alone again (Rests).  What is left  *)
(* of a call after a step is again of such a form.  An init that fails is  *)
(* in one of the few states of its error path (InitCloses), and there only *)
(* what a second failure would excuse may be missing.                      *)
(*                                                                         *)
(* Kept, Readable and Reads say what a whole init has made of the chip.    *)
(* That is proved as of a program without branches: a state of knowledge p *)
(* (which options are on and off, which have been asked for, what may be   *)
(* in the fifo) stands for the worlds Known(p), and Leads(P, t, Q) says    *)
(* that the steps t, begun in any world of P, can all be taken and end in  *)
(* Q, whatever the chip stores in between.  Each part of an init leads     *)
(* from one state of knowledge to the next (From, To), a reset of the fifo *)
(* and a self test by lemmas of their own, and each init to the Aim of its *)
(* mode.  The invariant (Headed) is that what is left of an init or a read *)
(* without a failure leads there from now.                                 *)
(***************************************************************************)
EXTENDS MpuModes, TLAPS, SequenceTheorems, FiniteSetTheorems

Switches == {"on", "off", "raise", "drop"}

(* The steps that open the handle and those that close it; *)
Begins == {"link", "open", "identify", "init_reset", "poll"}
Ends == {"power_down", "close"}

(* these and the others that change a flag of the handle, go to the
   magnetometer or may be refused; *)
Loud ==
  Begins \union Ends \union MagSteps
    \union {"mag_inited", "mag_closed", "start", "refuse", "sources"}

(* and all the others. *)
Plain ==
  {"save", "mask_irq", "mask_fifo", "flush", "run", "unmask_irq", "unmask_fifo",
   "no_power", "no_irq", "no_sources", "no_master", "no_user", "filter", "rate",
   "no_tests", "drain", "factory", "reset", "load", "gyro_sf", "cfg_15",
   "cfg_27", "motion_bias", "gyro_raw_data", "tap_defaults", "tap_axes",
   "tap_count", "tap_times", "shake_defaults", "orient_int", "lp_quat", "cfg_8",
   "fifo_rate", "interrupt_mode", "orientation", "walk_time", "step_count",
   "shake_reject", "tap_time_multi", "tap_time", "min_tap_count", "tap_thresh",
   "offset_ranges", "accel_bias", "gyro_bias", "slv0_addr", "slv0_reg",
   "clock_source", "divider", "interrupt_level", "interrupt_pin_type",
   "extern_sync", "fsync_level", "accelerometer_range", "gyroscope_range",
   "fifo_mode", "gyroscope_choice", "low_pass_filter", "accelerometer_choice",
   "accelerometer_lpf", "low_power", "iic_clock", "iic_read_mode",
   "motion_threshold", "wake_up_frequency", "motion_duration",
   "force_accel_sample", "configuration", "sample", "int_status"}

Quiet == [do : Plain, opt : {"none"}] \union [do : Switches, opt : Option]
AStep == Quiet \union [do : Loud, opt : {"none"}]

(* Those of a dmp_init once the handle is open; those that go to the
   magnetometer in an init and in a deinit; those of a deinit up to the last
   two; and those of a read or an irq_handler. *)
Starting == Quiet \union {Step("start")}
MagOn == {Step(x) : x \in MagSteps \union {"mag_inited"}}
MagOff == {Step(x) : x \in {"wia", "mag_down", "mag_closed"}}
Leaving == [do : Switches, opt : Option] \union MagOff \union {Step("refuse")}
Reading == Quiet \union {Step("sources"), Step("mag_st1")}

-----------------------------------------------------------------------------
(* Sequences. *)
LEMMA InFront ==
  ASSUME NEW S, NEW s \in Seq(S), NEW t \in Seq(S), s # <<>>
  PROVE  /\ s \o t # <<>> /\ s \o t \in Seq(S)
         /\ Head(s \o t) = Head(s) /\ Head(s) \in S
         /\ Tail(s \o t) = Tail(s) \o t /\ Tail(s) \in Seq(S)
<1>1. /\ s \o t \in Seq(S) /\ Len(s \o t) = Len(s) + Len(t)
      /\ \A i \in 1 .. Len(s) + Len(t) :
           (s \o t)[i] = IF i <= Len(s) THEN s[i] ELSE t[i - Len(s)]
  BY ConcatProperties
<1>2. Len(s) \in Nat \ {0} /\ Len(t) \in Nat
  BY EmptySeq, LenProperties
<1>3. /\ Head(s) \in S /\ Tail(s) \in Seq(S) /\ Len(Tail(s)) = Len(s) - 1
      /\ \A i \in 1 .. Len(Tail(s)) : Tail(s)[i] = s[i + 1]
  BY HeadTailProperties
<1>4. s \o t # <<>>
  BY <1>1, <1>2
<1>5. Head(s \o t) = Head(s)
  <2>1. Head(s \o t) = (s \o t)[1] /\ Head(s) = s[1]
    BY <1>1, <1>2
  <2> QED
    BY <1>1, <1>2, <2>1
<1>6. /\ Tail(s \o t) \in Seq(S) /\ Len(Tail(s \o t)) = Len(s) + Len(t) - 1
      /\ \A i \in 1 .. Len(s) + Len(t) - 1 : Tail(s \o t)[i] = (s \o t)[i + 1]
  BY <1>1, <1>2, <1>4, HeadTailProperties
<1>7. /\ Tail(s) \o t \in Seq(S) /\ Len(Tail(s) \o t) = Len(s) - 1 + Len(t)
      /\ \A i \in 1 .. Len(s) - 1 + Len(t) :
           (Tail(s) \o t)[i] = IF i <= Len(s) - 1 THEN Tail(s)[i]
                               ELSE t[i - (Len(s) - 1)]
  BY <1>3, ConcatProperties
<1>8. ASSUME NEW i \in 1 .. Len(s) + Len(t) - 1
      PROVE  Tail(s \o t)[i] = (Tail(s) \o t)[i]
  <2>1. Tail(s \o t)[i] = (s \o t)[i + 1] /\ i + 1 \in 1 .. Len(s) + Len(t)
    BY <1>2, <1>6
  <2>2. CASE i <= Len(s) - 1
    <3>1. (s \o t)[i + 1] = s[i + 1]
      BY <1>1, <1>2, <2>1, <2>2
    <3>2. (Tail(s) \o t)[i] = s[i + 1]
      BY <1>2, <1>3, <1>7, <2>2
    <3> QED
      BY <2>1, <3>1, <3>2
  <2>3. CASE ~(i <= Len(s) - 1)
    <3>1. (s \o t)[i + 1] = t[(i + 1) - Len(s)]
      BY <1>1, <1>2, <2>1, <2>3
    <3>2. (Tail(s) \o t)[i] = t[i - (Len(s) - 1)]
      BY <1>2, <1>7, <2>3
    <3>3. (i + 1) - Len(s) = i - (Len(s) - 1)
      BY <1>2
    <3> QED
      BY <2>1, <3>1, <3>2, <3>3
  <2> QED
    BY <2>2, <2>3
<1>9. Tail(s \o t) = Tail(s) \o t
  BY <1>2, <1>6, <1>7, <1>8, SeqEqual
<1> QED
  BY <1>1, <1>3, <1>4, <1>5, <1>9

LEMMA OneInFront ==
  ASSUME NEW S, NEW a \in S, NEW t \in Seq(S)
  PROVE  /\ <<a>> \in Seq(S) /\ <<a>> \o t # <<>> /\ <<a>> \o t \in Seq(S)
         /\ Head(<<a>> \o t) = a /\ Tail(<<a>> \o t) = t
<1>1. <<a>> \in Seq(S) /\ <<a>> # <<>> /\ Head(<<a>>) = a /\ Tail(<<a>>) = <<>>
  OBVIOUS
<1>2. <<>> \o t = t
  BY ConcatEmptySeq
<1> HIDE DEF Head, Tail
<1> QED
  BY <1>1, <1>2, InFront

LEMMA ConcatSeq ==
  ASSUME NEW S, NEW s \in Seq(S), NEW t \in Seq(S)
  PROVE  s \o t \in Seq(S)
BY ConcatProperties

LEMMA LenIs ==
  ASSUME NEW S, NEW s \in Seq(S), NEW n \in Nat, DOMAIN s = 1 .. n
  PROVE  Len(s) = n
<1>1. DOMAIN s = 1 .. Len(s) /\ Len(s) \in Nat
  BY LenProperties
<1>2. CASE Len(s) < n
  <2>1. n \in 1 .. n /\ n \notin 1 .. Len(s)
    BY <1>1, <1>2
  <2> QED
    BY <1>1, <2>1
<1>3. CASE n < Len(s)
  <2>1. Len(s) \in 1 .. Len(s) /\ Len(s) \notin 1 .. n
    BY <1>1, <1>3
  <2> QED
    BY <1>1, <2>1
<1> QED
  BY <1>1, <1>2, <1>3

(* Sequences of steps of one kind. *)
LEMMA StepsSeq ==
  ASSUME NEW N, NEW Q, \A x \in N : Step(x) \in Q, NEW t \in Seq(N), t # <<>>
  PROVE  /\ Steps(t) \in Seq(Q) /\ Steps(t) # <<>>
         /\ Head(Steps(t)) = Step(Head(t)) /\ Tail(Steps(t)) = Steps(Tail(t))
         /\ Head(t) \in N /\ Tail(t) \in Seq(N)
<1>1. /\ DOMAIN t = 1 .. Len(t) /\ Len(t) \in Nat \ {0}
      /\ \A i \in 1 .. Len(t) : t[i] \in N
  BY ElementOfSeq, LenProperties, EmptySeq
<1>2. \A u \in Seq(N) : Steps(u) \in Seq(Q) /\ Len(Steps(u)) = Len(u)
                          /\ \A i \in 1 .. Len(u) : Steps(u)[i] = Step(u[i])
  <2> SUFFICES ASSUME NEW u \in Seq(N)
               PROVE  /\ Steps(u) \in Seq(Q) /\ Len(Steps(u)) = Len(u)
                      /\ \A i \in 1 .. Len(u) : Steps(u)[i] = Step(u[i])
    OBVIOUS
  <2>1. DOMAIN u = 1 .. Len(u) /\ Len(u) \in Nat
    BY LenProperties
  <2>2. \A i \in 1 .. Len(u) : Step(u[i]) \in Q
    BY ElementOfSeq
  <2>3. Steps(u) = [i \in 1 .. Len(u) |-> Step(u[i])]
    BY <2>1 DEF Steps
  <2>4. Steps(u) \in [1 .. Len(u) -> Q] /\ DOMAIN Steps(u) = 1 .. Len(u)
    BY <2>2, <2>3
  <2>5. Steps(u) \in Seq(Q)
    <3>1. \A f : f \in [1 .. Len(u) -> Q] => f \in Seq(Q)
      BY <2>1, SeqDef
    <3> QED
      BY <2>4, <3>1
  <2>6. Len(Steps(u)) = Len(u)
    BY <2>1, <2>4, <2>5, LenIs
  <2> QED
    BY <2>3, <2>5, <2>6
<1>3. /\ Head(t) = t[1] /\ Tail(t) \in Seq(N) /\ Len(Tail(t)) = Len(t) - 1
      /\ \A i \in 1 .. Len(Tail(t)) : Tail(t)[i] = t[i + 1]
  BY <1>1, HeadTailProperties
<1>4. /\ Steps(t) \in Seq(Q) /\ Len(Steps(t)) = Len(t)
      /\ \A i \in 1 .. Len(t) : Steps(t)[i] = Step(t[i])
  BY <1>2
<1>5. /\ Steps(Tail(t)) \in Seq(Q) /\ Len(Steps(Tail(t))) = Len(t) - 1
      /\ \A i \in 1 .. Len(t) - 1 : Steps(Tail(t))[i] = Step(t[i + 1])
  <2> DEFINE u == Tail(t)
  <2>1. /\ u \in Seq(N) /\ Len(u) = Len(t) - 1
        /\ \A i \in 1 .. Len(u) : u[i] = t[i + 1]
    BY <1>3
  <2> HIDE DEF u
  <2>2. /\ Steps(u) \in Seq(Q) /\ Len(Steps(u)) = Len(u)
        /\ \A i \in 1 .. Len(u) : Steps(u)[i] = Step(u[i])
    BY <1>2, <2>1
  <2>3. /\ Steps(u) \in Seq(Q) /\ Len(Steps(u)) = Len(t) - 1
        /\ \A i \in 1 .. Len(t) - 1 : Steps(u)[i] = Step(t[i + 1])
    BY <2>1, <2>2
  <2> QED
    BY <2>3 DEF u
<1>6. Steps(t) # <<>>
  BY <1>1, <1>4
<1>7. /\ Tail(Steps(t)) \in Seq(Q) /\ Len(Tail(Steps(t))) = Len(t) - 1
      /\ \A i \in 1 .. Len(t) - 1 : Tail(Steps(t))[i] = Steps(t)[i + 1]
      /\ Head(Steps(t)) = Steps(t)[1]
  BY <1>4, <1>6, HeadTailProperties
<1>8. \A i \in 1 .. Len(t) - 1 : Tail(Steps(t))[i] = Steps(Tail(t))[i]
  BY <1>1, <1>4, <1>5, <1>7
<1>9. Tail(Steps(t)) = Steps(Tail(t))
  BY <1>5, <1>7, <1>8, SeqEqual
<1>10. Head(Steps(t)) = Step(Head(t))
  BY <1>1, <1>3, <1>4, <1>7
<1> QED
  BY <1>1, <1>3, <1>4, <1>6, <1>9, <1>10

LEMMA SwitchesSeq ==
  ASSUME NEW Q, [do : Switches, opt : Option] \subseteq Q, NEW t \in Seq(Option)
  PROVE  /\ On(t) \in Seq(Q) /\ Off(t) \in Seq(Q)
         /\ Raise(t) \in Seq(Q) /\ Drop(t) \in Seq(Q)
         /\ t # <<>> => On(t) # <<>> /\ Off(t) # <<>>
<1>1. DOMAIN t = 1 .. Len(t) /\ Len(t) \in Nat
  BY LenProperties
<1>2. \A i \in 1 .. Len(t) : t[i] \in Option
  BY ElementOfSeq
<1>3. \A x \in Option : \A y \in Switches : [do |-> y, opt |-> x] \in Q
  OBVIOUS
<1>4. \A f : f \in [1 .. Len(t) -> Q] => f \in Seq(Q)
  BY <1>1, SeqDef
<1>5. On(t) \in [1 .. Len(t) -> Q]
  BY <1>1, <1>2, <1>3 DEF On, Switches
<1>6. Off(t) \in [1 .. Len(t) -> Q]
  BY <1>1, <1>2, <1>3 DEF Off, Switches
<1>7. Raise(t) \in [1 .. Len(t) -> Q]
  BY <1>1, <1>2, <1>3 DEF Raise, Switches
<1>8. Drop(t) \in [1 .. Len(t) -> Q]
  BY <1>1, <1>2, <1>3 DEF Drop, Switches
<1>9. t # <<>> => On(t) # <<>> /\ Off(t) # <<>>
  <2> SUFFICES ASSUME t # <<>> PROVE On(t) # <<>> /\ Off(t) # <<>>
    OBVIOUS
  <2>1. 1 \in 1 .. Len(t)
    BY <1>1, EmptySeq
  <2>2. 1 \in DOMAIN On(t) /\ 1 \in DOMAIN Off(t)
    BY <2>1, <1>5, <1>6
  <2> QED
    BY <2>2
<1> QED
  BY <1>4, <1>5, <1>6, <1>7, <1>8, <1>9

-----------------------------------------------------------------------------
(* What the steps are. *)
LEMMA StepIs ==
  ASSUME NEW x
  PROVE  /\ Step(x).do = x /\ Step(x).opt = "none"
         /\ x \in Plain => Step(x) \in Quiet
         /\ x \in Loud => Step(x) \in AStep
BY DEF Step, AStep, Quiet

LEMMA Kinds ==
  /\ [do : Switches, opt : Option] \subseteq Quiet
  /\ [do : Switches, opt : Option] \subseteq Leaving
  /\ Quiet \subseteq Starting /\ Quiet \subseteq Reading
  /\ Quiet \subseteq AStep /\ Starting \subseteq AStep /\ MagOn \subseteq AStep
  /\ MagOff \subseteq Leaving /\ Leaving \subseteq AStep /\ Reading \subseteq AStep
<1>1. [do : Switches, opt : Option] \subseteq Quiet /\ Quiet \subseteq AStep
  BY DEF Quiet, AStep
<1>2. /\ MagSteps \subseteq Loud
      /\ {"mag_inited", "mag_closed", "start", "refuse", "sources", "mag_st1", "wia",
          "mag_down"} \subseteq Loud
  BY DEF Loud, MagSteps
<1>3. \A x \in Loud : Step(x) \in AStep
  BY StepIs
<1>4. Starting \subseteq AStep /\ Reading \subseteq AStep
  BY <1>1, <1>2, <1>3 DEF Starting, Reading
<1>5. MagOn \subseteq AStep
  BY <1>2, <1>3 DEF MagOn
<1>6. MagOff \subseteq AStep
  BY <1>2, <1>3 DEF MagOff
<1>7. Leaving \subseteq AStep
  BY <1>1, <1>2, <1>3, <1>6 DEF Leaving
<1> QED
  BY <1>1, <1>4, <1>5, <1>6, <1>7 DEF Starting, Reading, Leaving

(* And of options. *)
LEMMA OptionsAre ==
  /\ Axes \in Seq(Option) /\ Tests \in Seq(Option) /\ Imu \in Seq(Option)
  /\ Sources \subseteq Option /\ Interrupts \subseteq Option /\ UserCtrl \subseteq Option
  /\ {"sleep", "disable_iic_slave", "fifo_1024kb", "ptat", "temperature_sensor",
      "cycle_wake_up", "latch", "read_clear", "fsync_interrupt", "iic_bypass",
      "gyro_standby", "wake_on_motion", "compare", "iic_multi_master", "iic_wait",
      "iic_delay", "slv0"} \subseteq Option
<1>1. /\ Elements(Axes) \subseteq Option /\ Elements(Tests) \subseteq Option
      /\ Sources \subseteq Option /\ Interrupts \subseteq Option /\ UserCtrl \subseteq Option
  BY DEF Option
<1>2. {"sleep", "disable_iic_slave", "fifo_1024kb", "ptat", "temperature_sensor",
      "cycle_wake_up", "latch", "read_clear", "fsync_interrupt", "iic_bypass",
      "gyro_standby", "wake_on_motion", "compare", "iic_multi_master", "iic_wait",
      "iic_delay", "slv0"} \subseteq Option
  BY DEF Option
<1>3. \A i \in 1 .. 6 : Axes[i] \in Elements(Axes) /\ Tests[i] \in Elements(Tests)
  BY DEF Elements, Axes, Tests
<1>4. Axes \in Seq(Option)
  <2>1. \A i \in 1 .. 6 : Axes[i] \in Option
    BY <1>1, <1>3
  <2> QED
    BY <2>1 DEF Axes
<1>5. Tests \in Seq(Option)
  <2>1. \A i \in 1 .. 6 : Tests[i] \in Option
    BY <1>1, <1>3
  <2> QED
    BY <2>1 DEF Tests
<1>6. Imu \in Seq(Option)
  BY <1>1 DEF Imu, Sources
<1> QED
  BY <1>1, <1>2, <1>4, <1>5, <1>6

LEMMA QuietSteps ==
  ASSUME NEW t \in Seq(Plain), t # <<>>
  PROVE  Steps(t) \in Seq(Quiet) /\ Steps(t) # <<>>
<1>1. \A x \in Plain : Step(x) \in Quiet
  BY StepIs
<1> QED
  BY <1>1, StepsSeq

LEMMA QuietSwitches ==
  ASSUME NEW t \in Seq(Option)
  PROVE  /\ On(t) \in Seq(Quiet) /\ Off(t) \in Seq(Quiet)
         /\ Raise(t) \in Seq(Quiet) /\ Drop(t) \in Seq(Quiet)
         /\ t # <<>> => On(t) # <<>> /\ Off(t) # <<>>
BY Kinds, SwitchesSeq

LEMMA ConcatQuiet ==
  ASSUME NEW s \in Seq(Quiet), NEW t \in Seq(Quiet)
  PROVE  s \o t \in Seq(Quiet)
BY ConcatSeq

-----------------------------------------------------------------------------
(* The calls of the driver. *)
LEMMA ResetFifoIs == ResetFifo \in Seq(Quiet) /\ ResetFifo # <<>>
<1>1. <<"save", "mask_irq", "mask_fifo", "flush", "run", "unmask_irq", "unmask_fifo">>
        \in Seq(Plain)
  BY DEF Plain
<1> QED
  BY <1>1, QuietSteps DEF ResetFifo

LEMMA SelfTestIs == SelfTest \in Seq(Quiet)
<1>1. ASSUME NEW t \in Seq(Quiet) PROVE BiasesSetUp(t) \in Seq(Quiet)
  <2>1. <<"no_power", "no_irq", "no_sources", "no_power", "no_master", "no_user",
          "flush", "filter", "rate", "no_tests", "no_tests">> \in Seq(Plain)
    BY DEF Plain
  <2> QED
    BY <2>1, QuietSteps, ConcatQuiet DEF BiasesSetUp
<1>2. BiasesCollect \in Seq(Quiet)
  <2>1. <<"fifo">> \o Imu \in Seq(Option)
    <3>1. <<"fifo">> \in Seq(Option)
      BY OptionsAre DEF UserCtrl
    <3> QED
      BY <3>1, OptionsAre, ConcatSeq
  <2>2. <<"no_sources", "drain">> \in Seq(Plain)
    BY DEF Plain
  <2> QED
    BY <2>1, <2>2, QuietSteps, QuietSwitches, ConcatQuiet DEF BiasesCollect
<1>3. <<>> \in Seq(Quiet) /\ Raise(Tests) \in Seq(Quiet)
  BY OptionsAre, QuietSwitches
<1>4. Steps(<<"factory", "reset">>) \in Seq(Quiet)
  <2>1. <<"factory", "reset">> \in Seq(Plain)
    BY DEF Plain
  <2> QED
    BY <2>1, QuietSteps
<1>5. Drop(<<"sleep">>) \in Seq(Quiet)
  <2>1. <<"sleep">> \in Seq(Option)
    BY OptionsAre
  <2> QED
    BY <2>1, QuietSwitches
<1>6. BiasesSetUp(<<>>) \o BiasesCollect \in Seq(Quiet)
  BY <1>1, <1>2, <1>3, ConcatQuiet
<1>7. BiasesSetUp(<<>>) \o BiasesCollect \o BiasesSetUp(Raise(Tests)) \in Seq(Quiet)
  BY <1>1, <1>3, <1>6, ConcatQuiet
<1>8. BiasesSetUp(<<>>) \o BiasesCollect \o BiasesSetUp(Raise(Tests))
        \o BiasesCollect \in Seq(Quiet)
  BY <1>2, <1>7, ConcatQuiet
<1>9. BiasesSetUp(<<>>) \o BiasesCollect \o BiasesSetUp(Raise(Tests))
        \o BiasesCollect \o Steps(<<"factory", "reset">>) \in Seq(Quiet)
  BY <1>4, <1>8, ConcatQuiet
<1> QED
  BY <1>5, <1>9, ConcatQuiet DEF SelfTest

LEMMA SetFeatureIs == SetFeature \in Seq(Quiet)
<1>1. SetGyroAccel \in Seq(Quiet) /\ TapThresholds \in Seq(Quiet)
      /\ TapTimes \in Seq(Quiet) /\ OrientInt \in Seq(Quiet)
  <2>1. /\ <<"gyro_sf", "cfg_15", "cfg_27", "motion_bias", "gyro_raw_data">>
              \in Seq(Plain)
        /\ <<"tap_axes", "tap_count", "tap_times", "shake_defaults">> \in Seq(Plain)
    BY DEF Plain
  <2>2. Step("tap_defaults") \in Quiet /\ Step("orient_int") \in Quiet
    BY StepIs DEF Plain
  <2>3. TapThresholds \in Seq(Quiet) /\ OrientInt \in Seq(Quiet)
    BY <2>2 DEF TapThresholds, OrientInt
  <2>4. SetGyroAccel \in Seq(Quiet) /\ TapTimes \in Seq(Quiet)
    BY <2>1, QuietSteps DEF SetGyroAccel, TapTimes
  <2> QED
    BY <2>3, <2>4
<1>2. SetQuaternion \in Seq(Quiet)
  <2>1. <<Step("lp_quat")>> \in Seq(Quiet) /\ <<Step("cfg_8")>> \in Seq(Quiet)
    BY StepIs DEF Plain
  <2>2. <<Step("lp_quat")>> \o ResetFifo \in Seq(Quiet)
    BY <2>1, ResetFifoIs, ConcatQuiet
  <2>3. <<Step("lp_quat")>> \o ResetFifo \o <<Step("cfg_8")>> \in Seq(Quiet)
    BY <2>1, <2>2, ConcatQuiet
  <2> QED
    BY <2>3, ResetFifoIs, ConcatQuiet DEF SetQuaternion
<1>3. SetGyroAccel \o TapThresholds \in Seq(Quiet)
  BY <1>1, ConcatQuiet
<1>4. SetGyroAccel \o TapThresholds \o TapTimes \in Seq(Quiet)
  BY <1>1, <1>3, ConcatQuiet
<1>5. SetGyroAccel \o TapThresholds \o TapTimes \o OrientInt \in Seq(Quiet)
  BY <1>1, <1>4, ConcatQuiet
<1>6. SetGyroAccel \o TapThresholds \o TapTimes \o OrientInt \o SetQuaternion
        \in Seq(Quiet)
  BY <1>2, <1>5, ConcatQuiet
<1> QED
  BY <1>6, ResetFifoIs, ConcatQuiet DEF SetFeature

(* Several one behind the other. *)
LEMMA Together ==
  ASSUME NEW S, NEW a \in Seq(S), NEW b \in Seq(S), NEW c \in Seq(S), NEW d \in Seq(S)
  PROVE  /\ a \o b \in Seq(S) /\ a \o b \o c \in Seq(S)
         /\ a \o b \o c \o d \in Seq(S)
<1>1. a \o b \in Seq(S)
  BY ConcatSeq
<1>2. a \o b \o c \in Seq(S)
  BY <1>1, ConcatSeq
<1> QED
  BY <1>1, <1>2, ConcatSeq

-----------------------------------------------------------------------------
(* The steps of an init before the chip has answered, and after. *)
First == <<Step("link")>> \o Init9250

(* What basic_init and fifo_init set. *)
LEMMA SensorsAre ==
  /\ On(<<"ptat">>) \in Seq(Quiet)
  /\ Off(<<"cycle_wake_up">> \o Axes \o Tests) \in Seq(Quiet)
  /\ BasicSensors \in Seq(Quiet) /\ FifoSensors \in Seq(Quiet)
  /\ DmpSensors \in Seq(Quiet)
<1>1. <<"cycle_wake_up">> \in Seq(Option) /\ <<"ptat">> \in Seq(Option)
  BY OptionsAre
<1>2. <<"cycle_wake_up">> \o Axes \o Tests \in Seq(Option)
  BY <1>1, OptionsAre, Together
<1>3. /\ On(<<"ptat">>) \in Seq(Quiet)
      /\ Off(<<"cycle_wake_up">> \o Axes \o Tests) \in Seq(Quiet)
  BY <1>1, <1>2, QuietSwitches
<1> QED
  BY <1>3, ConcatQuiet DEF BasicSensors, FifoSensors, DmpSensors

LEMMA SourcesAre ==
  /\ BasicFifo \in Seq(Quiet) /\ FifoSources \in Seq(Quiet)
  /\ DmpSources \in Seq(Quiet) /\ Sources6050 \in Seq(Quiet)
<1>1. /\ <<"fifo", "fifo_temp">> \in Seq(Option) /\ <<"fifo_temp">> \in Seq(Option)
      /\ <<"fifo">> \in Seq(Option)
  BY OptionsAre DEF Sources, UserCtrl
<1>2. /\ <<"fifo", "fifo_temp">> \o Imu \in Seq(Option)
      /\ <<"fifo_temp">> \o Imu \in Seq(Option)
  BY <1>1, OptionsAre, ConcatSeq
<1>3. BasicFifo \in Seq(Quiet)
  BY <1>2, QuietSwitches DEF BasicFifo
<1>4. FifoSources \in Seq(Quiet)
  BY <1>1, OptionsAre, QuietSwitches, ConcatQuiet DEF FifoSources
<1>5. Off(<<"fifo_temp">> \o Imu) \o On(<<"fifo">>) \in Seq(Quiet)
  BY <1>1, <1>2, QuietSwitches, ConcatQuiet
<1> QED
  BY <1>3, <1>4, <1>5 DEF DmpSources, Sources6050

(* The pieces of which the parts of the inits are made. *)
LEMMA OptionSeqs ==
  /\ On(<<"latch", "read_clear">>) \in Seq(Quiet)
  /\ Off(<<"fsync_interrupt">>) \in Seq(Quiet)
  /\ Off(<<"iic_master", "iic_bypass">>) \in Seq(Quiet)
  /\ Off(<<"gyro_standby">>) \in Seq(Quiet)
  /\ Off(<<"wake_on_motion">>) \in Seq(Quiet)
  /\ On(<<"compare">>) \in Seq(Quiet)
  /\ Off(<<"sleep">>) \in Seq(Quiet)
  /\ On(<<"disable_iic_slave">>) \in Seq(Quiet)
  /\ On(<<"fifo_1024kb">>) \in Seq(Quiet)
  /\ Off(<<"int_motion">>) \in Seq(Quiet)
  /\ On(<<"int_overflow">>) \in Seq(Quiet)
  /\ Off(<<"int_dmp", "int_fsync", "int_ready">>) \in Seq(Quiet)
<1>1. /\ <<"latch", "read_clear">> \in Seq(Option)
      /\ <<"fsync_interrupt">> \in Seq(Option)
      /\ <<"gyro_standby">> \in Seq(Option)
      /\ <<"wake_on_motion">> \in Seq(Option)
      /\ <<"compare">> \in Seq(Option)
      /\ <<"sleep">> \in Seq(Option)
      /\ <<"disable_iic_slave">> \in Seq(Option)
      /\ <<"fifo_1024kb">> \in Seq(Option)
  BY OptionsAre
<1>2. <<"iic_master", "iic_bypass">> \in Seq(Option)
  BY OptionsAre DEF UserCtrl
<1>3. /\ <<"int_motion">> \in Seq(Option) /\ <<"int_overflow">> \in Seq(Option)
      /\ <<"int_dmp", "int_fsync", "int_ready">> \in Seq(Option)
  BY OptionsAre DEF Interrupts
<1>4. /\ On(<<"latch", "read_clear">>) \in Seq(Quiet)
      /\ Off(<<"fsync_interrupt">>) \in Seq(Quiet)
      /\ Off(<<"iic_master", "iic_bypass">>) \in Seq(Quiet)
      /\ Off(<<"gyro_standby">>) \in Seq(Quiet)
      /\ Off(<<"wake_on_motion">>) \in Seq(Quiet)
      /\ On(<<"compare">>) \in Seq(Quiet)
  BY <1>1, <1>2, QuietSwitches
<1>5. /\ Off(<<"sleep">>) \in Seq(Quiet)
      /\ On(<<"disable_iic_slave">>) \in Seq(Quiet)
      /\ On(<<"fifo_1024kb">>) \in Seq(Quiet)
      /\ Off(<<"int_motion">>) \in Seq(Quiet)
      /\ On(<<"int_overflow">>) \in Seq(Quiet)
      /\ Off(<<"int_dmp", "int_fsync", "int_ready">>) \in Seq(Quiet)
  BY <1>1, <1>3, QuietSwitches
<1> QED
  BY <1>4, <1>5

LEMMA ChooseSeqs ==
  /\ Choose(<<"interrupt_level", "interrupt_pin_type">>) \in Seq(Quiet)
  /\ Choose(<<"extern_sync">>) \in Seq(Quiet)
  /\ Choose(<<"fsync_level">>) \in Seq(Quiet)
  /\ Choose(<<"fifo_mode", "gyroscope_choice", "low_pass_filter",
              "accelerometer_choice", "accelerometer_lpf", "low_power">>) \in Seq(Quiet)
<1>1. /\ <<"interrupt_level", "interrupt_pin_type">> \in Seq(Plain)
      /\ <<"extern_sync">> \in Seq(Plain) /\ <<"fsync_level">> \in Seq(Plain)
      /\ <<"fifo_mode", "gyroscope_choice", "low_pass_filter",
            "accelerometer_choice", "accelerometer_lpf", "low_power">> \in Seq(Plain)
  BY DEF Plain
<1> QED
  BY <1>1, QuietSteps DEF Choose

(* The interrupts of basic_init, fifo_init and dmp_init end alike; *)
LEMMA PinsAre ==
  ASSUME NEW s \in Seq(Quiet)
  PROVE  s \o On(<<"latch", "read_clear">>) \o Choose(<<"extern_sync">>)
           \o Off(<<"fsync_interrupt">>) \o Choose(<<"fsync_level">>)
           \o Off(<<"iic_master", "iic_bypass">>) \in Seq(Quiet)
<1>1. s \o On(<<"latch", "read_clear">>) \o Choose(<<"extern_sync">>)
        \o Off(<<"fsync_interrupt">>) \in Seq(Quiet)
  BY OptionSeqs, ChooseSeqs, Together
<1> QED
  BY <1>1, OptionSeqs, ChooseSeqs, Together

LEMMA InterruptsAre ==
  /\ BasicInterrupts \in Seq(Quiet) /\ FifoInterrupts \in Seq(Quiet)
  /\ DmpInterrupts \in Seq(Quiet) /\ Interrupts6050 \in Seq(Quiet)
  /\ Pins6050 \in Seq(Quiet)
<1>1. /\ <<"int_motion", "int_overflow", "int_dmp", "int_fsync", "int_ready">>
            \in Seq(Option)
      /\ <<"int_motion", "int_overflow">> \in Seq(Option)
      /\ <<"int_dmp", "int_iic_master", "int_ready">> \in Seq(Option)
  BY OptionsAre DEF Interrupts
<1>2. <<"wake_on_motion", "int_motion", "int_overflow">> \in Seq(Option)
  BY OptionsAre DEF Interrupts
<1>3. /\ <<"interrupt_level", "interrupt_pin_type", "motion_threshold">> \in Seq(Plain)
      /\ <<"interrupt_level", "interrupt_pin_type", "motion_threshold",
           "motion_duration", "force_accel_sample">> \in Seq(Plain)
  BY DEF Plain
<1>4. BasicInterrupts \in Seq(Quiet)
  <2>1. Off(<<"int_motion", "int_overflow", "int_dmp", "int_fsync", "int_ready">>)
          \in Seq(Quiet)
    BY <1>1, QuietSwitches
  <2>2. Choose(<<"interrupt_level", "interrupt_pin_type">>)
          \o Off(<<"int_motion", "int_overflow", "int_dmp", "int_fsync", "int_ready">>)
          \in Seq(Quiet)
    BY <2>1, ChooseSeqs, ConcatQuiet
  <2> QED
    BY <2>2, PinsAre DEF BasicInterrupts
<1>5. FifoInterrupts \in Seq(Quiet)
  <2>1. Choose(<<"interrupt_level", "interrupt_pin_type">>)
          \o Off(<<"int_motion">>) \o On(<<"int_overflow">>)
          \o Off(<<"int_dmp", "int_fsync", "int_ready">>) \in Seq(Quiet)
    BY OptionSeqs, ChooseSeqs, Together
  <2> QED
    BY <2>1, PinsAre DEF FifoInterrupts
<1>6. DmpInterrupts \in Seq(Quiet)
  <2>1. /\ Choose(<<"interrupt_level", "interrupt_pin_type", "motion_threshold">>)
             \in Seq(Quiet)
        /\ On(<<"wake_on_motion", "int_motion", "int_overflow">>) \in Seq(Quiet)
    BY <1>2, <1>3, QuietSteps, QuietSwitches DEF Choose
  <2>2. Choose(<<"interrupt_level", "interrupt_pin_type", "motion_threshold">>)
          \o On(<<"wake_on_motion", "int_motion", "int_overflow">>)
          \o Off(<<"int_dmp", "int_fsync", "int_ready">>) \in Seq(Quiet)
    BY <2>1, OptionSeqs, Together
  <2> QED
    BY <2>2, PinsAre DEF DmpInterrupts
<1>7. Interrupts6050 \in Seq(Quiet)
  <2>1. /\ Choose(<<"interrupt_level", "interrupt_pin_type", "motion_threshold",
                    "motion_duration", "force_accel_sample">>) \in Seq(Quiet)
        /\ On(<<"int_motion", "int_overflow">>) \in Seq(Quiet)
        /\ Off(<<"int_dmp", "int_iic_master", "int_ready">>) \in Seq(Quiet)
    BY <1>1, <1>3, QuietSteps, QuietSwitches DEF Choose
  <2> QED
    BY <2>1, Together DEF Interrupts6050
<1>8. Pins6050 \in Seq(Quiet)
  <2>1. On(<<"latch", "read_clear">>) \o Choose(<<"extern_sync">>)
          \o Off(<<"fsync_interrupt">>) \o Choose(<<"fsync_level">>) \in Seq(Quiet)
    BY OptionSeqs, ChooseSeqs, Together
  <2> QED
    BY <2>1, OptionSeqs, ConcatQuiet DEF Pins6050
<1> QED
  BY <1>4, <1>5, <1>6, <1>7, <1>8

LEMMA FiltersAre ==
  /\ BasicFilters \in Seq(Quiet) /\ FifoFilters \in Seq(Quiet)
  /\ DmpFilters \in Seq(Quiet)
<1> DEFINE filters == Choose(<<"fifo_mode", "gyroscope_choice", "low_pass_filter",
                               "accelerometer_choice", "accelerometer_lpf", "low_power">>)
<1>1. Choose(<<"accelerometer_range", "gyroscope_range">>) \in Seq(Quiet)
  <2>1. <<"accelerometer_range", "gyroscope_range">> \in Seq(Plain)
    BY DEF Plain
  <2> QED
    BY <2>1, QuietSteps DEF Choose
<1>2. filters \in Seq(Quiet)
  BY ChooseSeqs
<1>3. BasicFilters =
        Choose(<<"accelerometer_range", "gyroscope_range">>) \o Off(<<"gyro_standby">>)
          \o filters \o Off(<<"wake_on_motion">>) \o On(<<"compare">>)
  BY DEF BasicFilters
<1>4. FifoFilters = Off(<<"gyro_standby">>) \o filters \o Off(<<"wake_on_motion">>)
                      \o On(<<"compare">>)
  BY DEF FifoFilters
<1>5. DmpFilters = Off(<<"gyro_standby">>) \o filters \o On(<<"compare">>)
  BY DEF DmpFilters
<1> HIDE DEF filters
<1>6. Choose(<<"accelerometer_range", "gyroscope_range">>) \o Off(<<"gyro_standby">>)
        \o filters \o Off(<<"wake_on_motion">>) \in Seq(Quiet)
  BY <1>1, <1>2, OptionSeqs, Together
<1> QED
  BY <1>2, <1>3, <1>4, <1>5, <1>6, OptionSeqs, Together

(* What the two dmp_init set of the DMP. *)
LEMMA DmpPartsAre ==
  /\ DmpClock \in Seq(Quiet) /\ DmpTune \in Seq(Quiet) /\ DmpStart \in Seq(Quiet)
  /\ Sensors6050 \in Seq(Quiet) /\ Tests6050 \in Seq(Quiet)
  /\ DmpFeature \in Seq(Starting) /\ Seq(Quiet) \subseteq Seq(Starting)
<1>1. /\ <<"clock_source", "divider", "accelerometer_range", "gyroscope_range",
           "low_pass_filter">> \in Seq(Plain)
      /\ <<"walk_time", "step_count", "shake_reject", "tap_time_multi", "tap_time",
           "min_tap_count", "tap_thresh", "tap_thresh", "tap_thresh">> \in Seq(Plain)
      /\ <<"offset_ranges", "accel_bias", "gyro_bias">> \in Seq(Plain)
  BY DEF Plain
<1>2. /\ <<"wake_up_frequency">> \in Seq(Plain)
      /\ <<"tap_axes", "tap_axes", "tap_axes", "fifo_rate", "interrupt_mode",
           "orientation">> \in Seq(Plain)
  BY DEF Plain
<1>3. /\ Choose(<<"clock_source", "divider", "accelerometer_range", "gyroscope_range",
                  "low_pass_filter">>) \in Seq(Quiet)
      /\ Choose(<<"wake_up_frequency">>) \in Seq(Quiet)
      /\ Steps(<<"offset_ranges", "accel_bias", "gyro_bias">>) \in Seq(Quiet)
  BY <1>1, <1>2, QuietSteps DEF Choose
<1>4. DmpTune \in Seq(Quiet)
  BY <1>1, QuietSteps DEF DmpTune
<1>5. DmpClock \in Seq(Quiet)
  BY <1>3, OptionSeqs, ConcatQuiet DEF DmpClock
<1>6. DmpStart \in Seq(Quiet)
  <2>1. <<"dmp">> \in Seq(Option)
    BY OptionsAre DEF UserCtrl
  <2>2. On(<<"dmp">>) \in Seq(Quiet)
    BY <2>1, QuietSwitches
  <2> QED
    BY <2>2, <1>3, ResetFifoIs, Together DEF DmpStart
<1>7. Sensors6050 \in Seq(Quiet) /\ Tests6050 \in Seq(Quiet)
  <2>1. <<"temperature_sensor">> \in Seq(Option) /\ <<"cycle_wake_up">> \in Seq(Option)
    BY OptionsAre
  <2>2. /\ On(<<"temperature_sensor">>) \in Seq(Quiet)
        /\ Off(<<"cycle_wake_up">>) \in Seq(Quiet)
        /\ Off(Axes) \in Seq(Quiet) /\ Off(Tests) \in Seq(Quiet)
    BY <2>1, OptionsAre, QuietSwitches
  <2>3. Choose(<<"clock_source", "divider", "accelerometer_range", "gyroscope_range",
                  "low_pass_filter">>)
          \o On(<<"temperature_sensor">>) \o Off(<<"cycle_wake_up">>)
          \o Choose(<<"wake_up_frequency">>) \in Seq(Quiet)
    BY <2>2, <1>3, Together
  <2> QED
    BY <2>2, <2>3, ConcatQuiet DEF Sensors6050, Tests6050
<1>8. Seq(Quiet) \subseteq Seq(Starting)
  BY Kinds
<1>9. DmpFeature \in Seq(Starting)
  <2>1. Steps(<<"tap_axes", "tap_axes", "tap_axes", "fifo_rate", "interrupt_mode",
                "orientation">>) \in Seq(Starting)
    BY <1>2, <1>8, QuietSteps
  <2>2. LoadFirmware \in Seq(Starting)
    <3>1. \A x \in {"load", "start"} : Step(x) \in Starting
      BY StepIs DEF Starting, Plain
    <3>2. <<"load", "start">> \in Seq({"load", "start"}) /\ <<"load", "start">> # <<>>
      OBVIOUS
    <3> QED
      BY <3>1, <3>2, StepsSeq DEF LoadFirmware
  <2> QED
    BY <2>1, <2>2, <1>8, SetFeatureIs, Together DEF DmpFeature
<1> QED
  BY <1>4, <1>5, <1>6, <1>7, <1>8, <1>9

-----------------------------------------------------------------------------
(* To the magnetometer: through the bypass, to the end of its steps, and on. *)
Mags == {q \o s : q \in Seq(MagOn) \ {<<>>}, s \in Seq(Quiet)}
Raised == {Raise(<<"iic_bypass">>) \o w : w \in Mags}
Dropped == {Drop(<<"iic_master">>) \o w : w \in Raised}

(* An init that has opened the handle, with and without its magnetometer. *)
DmpRests == Seq(Starting) \ {<<>>}
MagRests ==
  (Seq(Quiet) \ {<<>>}) \union {p \o w : p \in Seq(Quiet), w \in Dropped}
Rests(app) == IF app \in Dmps THEN DmpRests ELSE MagRests

(* And before. *)
Beginning(R) == {First \o r : r \in R}

LEMMA WayIs ==
  /\ Raise(<<"iic_bypass">>) = <<[do |-> "raise", opt |-> "iic_bypass"]>>
  /\ Drop(<<"iic_master">>) = <<[do |-> "drop", opt |-> "iic_master"]>>
  /\ [do |-> "raise", opt |-> "iic_bypass"] \in Quiet \intersect Leaving
  /\ [do |-> "drop", opt |-> "iic_master"] \in Quiet \intersect Leaving
<1>1. "iic_bypass" \in Option /\ "iic_master" \in Option
  BY OptionsAre DEF UserCtrl
<1>2. {"raise", "drop"} \subseteq Switches
  BY DEF Switches
<1>3. /\ [do |-> "raise", opt |-> "iic_bypass"] \in Quiet \intersect Leaving
      /\ [do |-> "drop", opt |-> "iic_master"] \in Quiet \intersect Leaving
  BY <1>1, <1>2, Kinds
<1>4. /\ Raise(<<"iic_bypass">>) = <<[do |-> "raise", opt |-> "iic_bypass"]>>
      /\ Drop(<<"iic_master">>) = <<[do |-> "drop", opt |-> "iic_master"]>>
  BY DEF Raise, Drop
<1> QED
  BY <1>3, <1>4

LEMMA WaySeq ==
  /\ Raise(<<"iic_bypass">>) \in Seq(AStep) /\ Raise(<<"iic_bypass">>) # <<>>
  /\ Drop(<<"iic_master">>) \in Seq(AStep) /\ Drop(<<"iic_master">>) # <<>>
  /\ Raise(<<"iic_bypass">>) \in Seq(Leaving) /\ Drop(<<"iic_master">>) \in Seq(Leaving)
<1>1. /\ [do |-> "raise", opt |-> "iic_bypass"] \in AStep \intersect Leaving
      /\ [do |-> "drop", opt |-> "iic_master"] \in AStep \intersect Leaving
  BY WayIs, Kinds
<1> DEFINE r == [do |-> "raise", opt |-> "iic_bypass"]
           d == [do |-> "drop", opt |-> "iic_master"]
<1> HIDE DEF r, d
<1>2. /\ <<r>> \in Seq(AStep) /\ <<r>> \in Seq(Leaving) /\ <<r>> # <<>>
      /\ <<d>> \in Seq(AStep) /\ <<d>> \in Seq(Leaving) /\ <<d>> # <<>>
  BY <1>1 DEF r, d
<1> QED
  BY <1>2, WayIs DEF r, d

LEMMA SeqsAre ==
  /\ Seq(Quiet) \subseteq Seq(AStep) /\ Seq(Starting) \subseteq Seq(AStep)
  /\ Seq(MagOn) \subseteq Seq(AStep) /\ Seq(Leaving) \subseteq Seq(AStep)
  /\ Seq(MagOff) \subseteq Seq(AStep) /\ Seq(Reading) \subseteq Seq(AStep)
  /\ Seq(Quiet) \subseteq Seq(Reading) /\ Seq(MagOff) \subseteq Seq(Leaving)
  /\ Mags \subseteq Seq(AStep) /\ Raised \subseteq Seq(AStep)
  /\ Dropped \subseteq Seq(AStep)
<1>1. /\ Seq(Quiet) \subseteq Seq(AStep) /\ Seq(Starting) \subseteq Seq(AStep)
      /\ Seq(MagOn) \subseteq Seq(AStep) /\ Seq(Leaving) \subseteq Seq(AStep)
  BY Kinds
<1>2. /\ Seq(MagOff) \subseteq Seq(AStep) /\ Seq(Reading) \subseteq Seq(AStep)
      /\ Seq(Quiet) \subseteq Seq(Reading) /\ Seq(MagOff) \subseteq Seq(Leaving)
  <2>1. MagOff \subseteq AStep
    BY Kinds
  <2> QED
    BY <2>1, Kinds
<1>3. Mags \subseteq Seq(AStep)
  <2> SUFFICES ASSUME NEW w \in Mags PROVE w \in Seq(AStep)
    OBVIOUS
  <2>1. PICK q \in Seq(MagOn), s \in Seq(Quiet) : w = q \o s
    BY SMTT(30) DEF Mags
  <2>2. q \in Seq(AStep) /\ s \in Seq(AStep)
    BY <1>1
  <2> QED
    BY <2>1, <2>2, ConcatSeq
<1>4. Raised \subseteq Seq(AStep)
  BY <1>3, WaySeq, ConcatSeq DEF Raised
<1>5. Dropped \subseteq Seq(AStep)
  BY <1>4, WaySeq, ConcatSeq DEF Dropped
<1> QED
  BY <1>1, <1>2, <1>3, <1>4, <1>5

LEMMA Regroup ==
  ASSUME NEW a \in Seq(AStep), NEW b \in Seq(AStep), NEW c \in Seq(AStep)
  PROVE  (a \o b) \o c = a \o (b \o c)
BY ConcatAssociative

LEMMA DroppedIs ==
  ASSUME NEW q \in Seq(MagOn), q # <<>>, NEW s \in Seq(Quiet)
  PROVE  /\ q \o s \in Mags /\ Raise(<<"iic_bypass">>) \o (q \o s) \in Raised
         /\ Drop(<<"iic_master">>) \o (Raise(<<"iic_bypass">>) \o (q \o s)) \in Dropped
<1>1. q \o s \in Mags
  BY DEF Mags
<1>2. Raise(<<"iic_bypass">>) \o (q \o s) \in Raised
  BY <1>1 DEF Raised
<1> QED
  BY <1>1, <1>2 DEF Dropped

LEMMA DroppedMore ==
  ASSUME NEW w \in Dropped, NEW t \in Seq(Quiet)
  PROVE  w \o t \in Dropped
<1> DEFINE d == Drop(<<"iic_master">>)
           r == Raise(<<"iic_bypass">>)
<1>1. PICK q \in Seq(MagOn) \ {<<>>}, s \in Seq(Quiet) : w = d \o (r \o (q \o s))
  <2>1. PICK u \in Raised : w = d \o u
    BY DEF Dropped
  <2>2. PICK v \in Mags : u = r \o v
    BY DEF Raised
  <2>3. PICK q \in Seq(MagOn) \ {<<>>}, s \in Seq(Quiet) : v = q \o s
    BY SMTT(30) DEF Mags
  <2> QED
    BY <2>1, <2>2, <2>3
<1>2. /\ d \in Seq(AStep) /\ r \in Seq(AStep) /\ q \in Seq(AStep)
      /\ s \in Seq(AStep) /\ t \in Seq(AStep)
  BY WaySeq, SeqsAre
<1>3. d \o (r \o (q \o (s \o t))) \in Dropped
  <2>1. s \o t \in Seq(Quiet)
    BY ConcatQuiet
  <2> QED
    BY <2>1, DroppedIs
<1> HIDE DEF d, r
<1>4. q \o s \in Seq(AStep) /\ (q \o s) \o t = q \o (s \o t)
  BY <1>2, ConcatSeq, Regroup
<1>5. r \o (q \o s) \in Seq(AStep) /\ (r \o (q \o s)) \o t = r \o (q \o (s \o t))
  <2> DEFINE u == q \o s
  <2>1. u \in Seq(AStep) /\ u \o t = q \o (s \o t)
    BY <1>4
  <2> HIDE DEF u
  <2>2. r \in Seq(AStep) /\ u \in Seq(AStep) /\ t \in Seq(AStep)
    BY <1>2, <2>1
  <2>3. r \o u \in Seq(AStep) /\ (r \o u) \o t = r \o (u \o t)
    BY <2>2, ConcatSeq, Regroup
  <2> QED
    BY <2>1, <2>3 DEF u
<1>6. w \o t = d \o (r \o (q \o (s \o t)))
  <2> DEFINE u == r \o (q \o s)
  <2>1. u \in Seq(AStep) /\ u \o t = r \o (q \o (s \o t)) /\ w = d \o u
    BY <1>1, <1>5
  <2> HIDE DEF u
  <2>2. d \in Seq(AStep) /\ u \in Seq(AStep) /\ t \in Seq(AStep)
    BY <1>2, <2>1
  <2>3. (d \o u) \o t = d \o (u \o t)
    BY <2>2, Regroup
  <2> QED
    BY <2>1, <2>3
<1> QED
  BY <1>3, <1>6

(* Bypass is the way there and WIA. *)
LEMMA BypassIs ==
  ASSUME NEW t \in Seq(AStep)
  PROVE  Bypass \o t = Drop(<<"iic_master">>)
                         \o (Raise(<<"iic_bypass">>) \o (<<Step("wia")>> \o t))
<1> DEFINE d == Drop(<<"iic_master">>)
           r == Raise(<<"iic_bypass">>)
           a == <<Step("wia")>>
<1>1. Bypass = d \o r \o a
  BY DEF Bypass
<1>2. d \in Seq(AStep) /\ r \in Seq(AStep)
  BY WaySeq
<1>3. a \in Seq(AStep)
  BY StepIs DEF Loud, MagSteps
<1> HIDE DEF d, r, a
<1>4. d \o r \in Seq(AStep) /\ a \o t \in Seq(AStep)
  BY <1>2, <1>3, ConcatSeq
<1>5. ((d \o r) \o a) \o t = (d \o r) \o (a \o t)
  BY <1>3, <1>4, Regroup, ZenonT(40)
<1>6. (d \o r) \o (a \o t) = d \o (r \o (a \o t))
  BY <1>2, <1>4, Regroup, ZenonT(40)
<1> QED
  BY <1>1, <1>5, <1>6 DEF d, r, a

LEMMA MagInitIs ==
  MagInit \o Steps(<<"mag_mode", "mag_bits">>) \in Dropped
<1> DEFINE i == Steps(<<"mag_reset", "mag_poll", "mag_down", "mag_rom", "mag_asa",
                        "mag_down", "mag_inited">>)
           m == Steps(<<"mag_mode", "mag_bits">>)
<1>1. \A x \in MagSteps \union {"mag_inited"} : Step(x) \in MagOn
  BY DEF MagOn
<1>2. i \in Seq(MagOn) /\ i # <<>>
  <2>1. <<"mag_reset", "mag_poll", "mag_down", "mag_rom", "mag_asa", "mag_down",
          "mag_inited">> \in Seq(MagSteps \union {"mag_inited"})
    BY DEF MagSteps
  <2> QED
    BY <1>1, <2>1, StepsSeq
<1>3. m \in Seq(MagOn)
  <2>1. <<"mag_mode", "mag_bits">> \in Seq(MagSteps \union {"mag_inited"})
    BY DEF MagSteps
  <2> QED
    BY <1>1, <2>1, StepsSeq
<1>4. Step("wia") \in MagOn
  BY <1>1 DEF MagSteps
<1>5. MagInit = Bypass \o i
  BY DEF MagInit
<1> HIDE DEF i, m
<1> DEFINE q == <<Step("wia")>> \o i
<1>6. q \in Seq(MagOn) /\ q # <<>>
  BY <1>2, <1>4, OneInFront
<1>7. MagInit = Drop(<<"iic_master">>) \o (Raise(<<"iic_bypass">>) \o q)
  BY <1>2, <1>5, BypassIs, SeqsAre
<1> HIDE DEF q
<1>8. MagInit \o m = Drop(<<"iic_master">>) \o (Raise(<<"iic_bypass">>) \o (q \o m))
  <2> DEFINE d == Drop(<<"iic_master">>)
             r == Raise(<<"iic_bypass">>)
  <2>1. /\ d \in Seq(AStep) /\ r \in Seq(AStep) /\ q \in Seq(AStep)
        /\ m \in Seq(AStep) /\ MagInit = d \o (r \o q)
    BY <1>3, <1>6, <1>7, WaySeq, SeqsAre
  <2> HIDE DEF d, r
  <2>2. r \o q \in Seq(AStep) /\ (r \o q) \o m = r \o (q \o m)
    BY <2>1, ConcatSeq, Regroup, SMTT(30)
  <2>3. (d \o (r \o q)) \o m = d \o ((r \o q) \o m)
    BY <2>1, <2>2, Regroup, ZenonT(40)
  <2> QED
    BY <2>1, <2>2, <2>3 DEF d, r
<1>9. q \o m \in Seq(MagOn) /\ q \o m # <<>>
  BY <1>3, <1>6, InFront
<1>10. (q \o m) \o <<>> = q \o m
  BY <1>9, ConcatEmptySeq
<1>11. <<>> \in Seq(Quiet)
  OBVIOUS
<1> DEFINE u == q \o m
<1>12. Drop(<<"iic_master">>) \o (Raise(<<"iic_bypass">>) \o (u \o <<>>)) \in Dropped
  <2>1. u \in Seq(MagOn) /\ u # <<>>
    BY <1>9
  <2> HIDE DEF u
  <2> QED
    BY <2>1, <1>11, DroppedIs
<1> QED
  BY <1>8, <1>10, <1>12 DEF m

-----------------------------------------------------------------------------
(* The four inits: the steps of First, and one of the rests. *)
Calm == Beginning(Seq(Quiet) \ {<<>>})

LEMMA FirstIs == First \in Seq(AStep) /\ First # <<>>
<1>1. \A x \in Begins : Step(x) \in AStep
  BY StepIs DEF Loud
<1>2. <<"open", "identify", "init_reset", "poll">> \in Seq(Begins)
  BY DEF Begins
<1>3. Init9250 \in Seq(AStep)
  BY <1>1, <1>2, StepsSeq DEF Init9250
<1>4. Step("link") \in AStep
  BY <1>1 DEF Begins
<1> QED
  BY <1>3, <1>4, OneInFront DEF First

LEMMA CalmMore ==
  ASSUME NEW s \in Calm, NEW t \in Seq(Quiet)
  PROVE  s \o t \in Calm
<1>1. PICK r \in Seq(Quiet) \ {<<>>} : s = First \o r
  BY DEF Calm, Beginning
<1>2. r \o t \in Seq(Quiet) /\ r \o t # <<>>
  BY <1>1, InFront
<1>3. r \in Seq(AStep) /\ t \in Seq(AStep)
  BY <1>1, SeqsAre
<1>4. s \o t = First \o (r \o t)
  BY <1>1, <1>3, FirstIs, Regroup
<1> QED
  BY <1>2, <1>4 DEF Calm, Beginning

LEMMA CalmThree ==
  ASSUME NEW s \in Calm, NEW a \in Seq(Quiet), NEW b \in Seq(Quiet), NEW c \in Seq(Quiet)
  PROVE  /\ s \o a \in Calm /\ s \o a \o b \in Calm /\ s \o a \o b \o c \in Calm
<1>1. s \o a \in Calm
  BY CalmMore
<1>2. s \o a \o b \in Calm
  BY <1>1, CalmMore
<1> QED
  BY <1>1, <1>2, CalmMore

LEMMA CalmOpen == First \o Off(<<"sleep">>) \in Calm
<1>1. <<"sleep">> \in Seq(Option) /\ <<"sleep">> # <<>>
  BY OptionsAre
<1>2. Off(<<"sleep">>) \in Seq(Quiet) \ {<<>>}
  BY <1>1, QuietSwitches
<1> QED
  BY <1>2 DEF Calm, Beginning

(* What follows has the magnetometer, *)
LEMMA CalmRests ==
  ASSUME NEW s \in Calm, NEW w \in Dropped
  PROVE  s \in Beginning(MagRests) /\ s \o w \in Beginning(MagRests)
<1>1. PICK r \in Seq(Quiet) \ {<<>>} : s = First \o r
  BY DEF Calm, Beginning
<1>2. r \in MagRests /\ r \o w \in MagRests
  BY <1>1 DEF MagRests
<1>3. r \in Seq(AStep) /\ w \in Seq(AStep)
  BY <1>1, SeqsAre
<1>4. s \o w = First \o (r \o w)
  BY <1>1, <1>3, FirstIs, Regroup
<1> QED
  BY <1>1, <1>2, <1>4 DEF Beginning

(* or the firmware. *)
LEMMA CalmStarts ==
  ASSUME NEW s \in Calm, NEW t \in Seq(Starting)
  PROVE  s \o t \in Beginning(DmpRests)
<1>1. PICK r \in Seq(Quiet) \ {<<>>} : s = First \o r
  BY DEF Calm, Beginning
<1>2. r \in Seq(Starting)
  BY <1>1, DmpPartsAre
<1>3. r \o t \in Seq(Starting) /\ r \o t # <<>>
  BY <1>1, <1>2, InFront
<1>4. r \in Seq(AStep) /\ t \in Seq(AStep)
  BY <1>2, SeqsAre
<1>5. s \o t = First \o (r \o t)
  BY <1>1, <1>4, FirstIs, Regroup
<1>6. r \o t \in DmpRests
  BY <1>3 DEF DmpRests
<1> QED
  BY <1>5, <1>6 DEF Beginning

LEMMA OpensAre ==
  ASSUME NEW bus
  PROVE  BasicOpen(bus) \in Calm /\ FifoOpen(bus) \in Calm /\ DmpOpen(bus) \in Calm
         /\ Open6050 \in Calm
<1> DEFINE slave == IF bus = "spi" THEN On(<<"disable_iic_slave">>) ELSE <<>>
           open == First \o Off(<<"sleep">>)
           clock == Choose(<<"clock_source", "divider">>)
           ranges == Choose(<<"clock_source", "divider", "accelerometer_range",
                              "gyroscope_range">>)
<1>1. slave \in Seq(Quiet)
  <2>1. <<>> \in Seq(Quiet)
    OBVIOUS
  <2> QED
    BY <2>1, OptionSeqs
<1>2. clock \in Seq(Quiet) /\ ranges \in Seq(Quiet)
  <2>1. /\ <<"clock_source", "divider">> \in Seq(Plain)
        /\ <<"clock_source", "divider", "accelerometer_range", "gyroscope_range">>
              \in Seq(Plain)
    BY DEF Plain
  <2> QED
    BY <2>1, QuietSteps DEF Choose
<1>3. BasicOpen(bus) = open \o slave \o On(<<"fifo_1024kb">>) \o clock
  BY DEF BasicOpen, First
<1>4. FifoOpen(bus) = open \o slave \o On(<<"fifo_1024kb">>) \o ranges
  BY DEF FifoOpen, First
<1>5. DmpOpen(bus) = open \o On(<<"fifo_1024kb">>) \o SelfTest \o slave
  BY DEF DmpOpen, First
<1>6. Open6050 = open \o SelfTest
  BY DEF Open6050, First
<1>7. open \in Calm
  BY CalmOpen
<1> HIDE DEF open, slave, clock, ranges
<1>8. On(<<"fifo_1024kb">>) \in Seq(Quiet) /\ SelfTest \in Seq(Quiet)
  BY OptionSeqs, SelfTestIs
<1>9. open \o slave \o On(<<"fifo_1024kb">>) \o clock \in Calm
  BY <1>1, <1>2, <1>7, <1>8, CalmThree
<1>10. open \o slave \o On(<<"fifo_1024kb">>) \o ranges \in Calm
  BY <1>1, <1>2, <1>7, <1>8, CalmThree
<1>11. open \o On(<<"fifo_1024kb">>) \o SelfTest \o slave \in Calm
  BY <1>1, <1>7, <1>8, CalmThree
<1>12. open \o SelfTest \in Calm
  BY <1>7, <1>8, CalmThree
<1> QED
  BY <1>3, <1>4, <1>5, <1>6, <1>9, <1>10, <1>11, <1>12

LEMMA BasicInitIs ==
  ASSUME NEW bus \in {"iic", "spi"}
  PROVE  BasicInit(bus) \in Beginning(MagRests)
<1> DEFINE s == BasicOpen(bus) \o BasicSensors \o BasicFifo \o BasicInterrupts
                  \o BasicFilters
<1>1. s \in Calm
  <2>1. BasicOpen(bus) \o BasicSensors \o BasicFifo \o BasicInterrupts \in Calm
    BY OpensAre, SensorsAre, SourcesAre, InterruptsAre, CalmThree
  <2> QED
    BY <2>1, FiltersAre, CalmMore
<1>2. BasicInit(bus) = s \o BasicMag(bus)
  BY DEF BasicInit
<1> HIDE DEF s
<1>3. CASE bus = "spi"
  <2>1. BasicMag(bus) = <<>>
    BY <1>3 DEF BasicMag
  <2>2. PICK r \in Seq(Quiet) \ {<<>>} : s = First \o r
    BY <1>1 DEF Calm, Beginning
  <2>3. s \in Seq(AStep)
    BY <2>2, FirstIs, SeqsAre, ConcatSeq
  <2>4. BasicInit(bus) = s
    BY <1>2, <2>1, <2>3, ConcatEmptySeq
  <2> QED
    BY <1>1, <2>4, MagInitIs, CalmRests
<1>4. CASE bus # "spi"
  <2>1. BasicMag(bus) \in Dropped
    BY <1>4, MagInitIs DEF BasicMag
  <2> QED
    BY <1>1, <1>2, <2>1, CalmRests
<1> QED
  BY <1>3, <1>4

LEMMA FifoMagIs == ASSUME NEW bus, bus # "spi" PROVE FifoMag(bus) \in Dropped
<1> DEFINE m == MagInit \o Steps(<<"mag_mode", "mag_bits">>)
           a == On(<<"iic_master">>)
           b == Off(<<"iic_bypass">>)
           c == Choose(<<"iic_clock">>)
           d == On(<<"iic_multi_master">>)
           e == Off(<<"iic_wait">>)
           f == Choose(<<"iic_read_mode">>)
           g == Off(<<"iic_delay">>)
<1>1. FifoMag(bus) = m \o a \o b \o c \o d \o e \o f \o g \o MagSetFifoMode
  BY DEF FifoMag
<1>2. m \in Dropped
  BY MagInitIs
<1>3. /\ <<"iic_master">> \in Seq(Option) /\ <<"iic_bypass">> \in Seq(Option)
      /\ <<"iic_multi_master">> \in Seq(Option) /\ <<"iic_wait">> \in Seq(Option)
      /\ <<"iic_delay">> \in Seq(Option) /\ <<"fifo_slv0", "slv0">> \in Seq(Option)
  BY OptionsAre DEF UserCtrl, Sources
<1>4. /\ <<"iic_clock">> \in Seq(Plain) /\ <<"iic_read_mode">> \in Seq(Plain)
      /\ <<"slv0_addr", "slv0_reg">> \in Seq(Plain)
  BY DEF Plain
<1>5. /\ a \in Seq(Quiet) /\ b \in Seq(Quiet) /\ d \in Seq(Quiet) /\ e \in Seq(Quiet)
      /\ g \in Seq(Quiet)
  BY <1>3, QuietSwitches
<1>6. c \in Seq(Quiet) /\ f \in Seq(Quiet)
  BY <1>4, QuietSteps DEF Choose
<1>7. MagSetFifoMode \in Seq(Quiet)
  <2>1. /\ Raise(<<"iic_master">>) \in Seq(Quiet) /\ Drop(<<"iic_bypass">>) \in Seq(Quiet)
        /\ Raise(<<"fifo_slv0", "slv0">>) \in Seq(Quiet)
        /\ Steps(<<"slv0_addr", "slv0_reg">>) \in Seq(Quiet)
    BY <1>3, <1>4, QuietSwitches, QuietSteps
  <2> QED
    BY <2>1, Together DEF MagSetFifoMode
<1> HIDE DEF m, a, b, c, d, e, f, g
<1>8. \A w \in Dropped : \A t \in Seq(Quiet) : w \o t \in Dropped
  BY DroppedMore
<1>9. m \o a \o b \o c \in Dropped
  BY <1>2, <1>5, <1>6, <1>8
<1>10. m \o a \o b \o c \o d \o e \o f \in Dropped
  BY <1>5, <1>6, <1>8, <1>9
<1> QED
  BY <1>1, <1>5, <1>7, <1>8, <1>10

LEMMA FifoInitIs ==
  ASSUME NEW bus \in {"iic", "spi"}
  PROVE  FifoInit(bus) \in Beginning(MagRests)
<1> DEFINE s == FifoOpen(bus) \o FifoSensors \o FifoSources \o FifoInterrupts
                  \o FifoFilters
<1>1. s \in Calm
  <2>1. FifoOpen(bus) \o FifoSensors \o FifoSources \o FifoInterrupts \in Calm
    BY OpensAre, SensorsAre, SourcesAre, InterruptsAre, CalmThree
  <2> QED
    BY <2>1, FiltersAre, CalmMore
<1>2. FifoInit(bus) = s \o FifoMag(bus) \o FifoStart
  BY DEF FifoInit
<1>3. FifoStart \in Seq(Quiet)
  <2>1. <<"fifo">> \in Seq(Option)
    BY OptionsAre DEF UserCtrl
  <2>2. On(<<"fifo">>) \in Seq(Quiet)
    BY <2>1, QuietSwitches
  <2> QED
    BY <2>2, ResetFifoIs, ConcatQuiet DEF FifoStart
<1> HIDE DEF s
<1>4. s \in Seq(AStep)
  <2>1. PICK r \in Seq(Quiet) \ {<<>>} : s = First \o r
    BY <1>1 DEF Calm, Beginning
  <2> QED
    BY <2>1, FirstIs, SeqsAre, ConcatSeq
<1>5. CASE bus = "spi"
  <2>1. FifoMag(bus) = <<>>
    BY <1>5 DEF FifoMag
  <2>2. FifoInit(bus) = s \o FifoStart
    BY <1>2, <1>4, <2>1, ConcatEmptySeq
  <2>3. s \o FifoStart \in Calm
    BY <1>1, <1>3, CalmMore
  <2> QED
    BY <2>2, <2>3, MagInitIs, CalmRests
<1>6. CASE bus # "spi"
  <2>1. FifoMag(bus) \in Dropped
    BY <1>6, FifoMagIs
  <2>2. FifoMag(bus) \o FifoStart \in Dropped
    BY <1>3, <2>1, DroppedMore
  <2>3. FifoMag(bus) \in Seq(AStep) /\ FifoStart \in Seq(AStep)
    BY <1>3, <2>1, SeqsAre
  <2>4. FifoInit(bus) = s \o (FifoMag(bus) \o FifoStart)
    BY <1>2, <1>4, <2>3, Regroup
  <2> QED
    BY <1>1, <2>2, <2>4, CalmRests
<1> QED
  BY <1>5, <1>6

LEMMA DmpInitIs ==
  ASSUME NEW bus
  PROVE  DmpInit(bus) \in Beginning(DmpRests) /\ Init6050 \in Beginning(DmpRests)
<1> DEFINE s == DmpOpen(bus) \o DmpClock \o DmpSensors \o DmpSources \o DmpInterrupts
                  \o DmpFilters
           v == Open6050 \o Sensors6050 \o Tests6050 \o Sources6050 \o Interrupts6050
                  \o Pins6050
<1>1. s \in Calm
  <2>1. DmpOpen(bus) \o DmpClock \o DmpSensors \o DmpSources \in Calm
    BY OpensAre, DmpPartsAre, SensorsAre, SourcesAre, CalmThree
  <2> QED
    BY <2>1, InterruptsAre, FiltersAre, CalmThree
<1>2. v \in Calm
  <2>1. Open6050 \o Sensors6050 \o Tests6050 \o Sources6050 \in Calm
    BY OpensAre, DmpPartsAre, SourcesAre, CalmThree
  <2> QED
    BY <2>1, InterruptsAre, CalmThree
<1>3. /\ DmpInit(bus) = s \o DmpFeature \o DmpTune \o DmpStart
      /\ Init6050 = v \o DmpFeature \o DmpTune \o DmpStart
  BY DEF DmpInit, Init6050, Feature6050, Tune6050, Start6050
<1> HIDE DEF s, v
<1>4. ASSUME NEW x \in Calm
      PROVE  x \o DmpFeature \o DmpTune \o DmpStart \in Beginning(DmpRests)
  <2>1. /\ DmpFeature \in Seq(Starting) /\ DmpTune \in Seq(Starting)
        /\ DmpStart \in Seq(Starting)
    BY DmpPartsAre
  <2>2. DmpFeature \o DmpTune \in Seq(Starting)
        /\ DmpFeature \o DmpTune \o DmpStart \in Seq(Starting)
    BY <2>1, Together
  <2>3. x \o (DmpFeature \o DmpTune \o DmpStart) \in Beginning(DmpRests)
    BY <2>2, CalmStarts
  <2>4. x \in Seq(AStep)
    <3>1. PICK r \in Seq(Quiet) \ {<<>>} : x = First \o r
      BY <1>4 DEF Calm, Beginning
    <3> QED
      BY <3>1, FirstIs, SeqsAre, ConcatSeq
  <2>5. /\ DmpFeature \in Seq(AStep) /\ DmpTune \in Seq(AStep)
        /\ DmpStart \in Seq(AStep) /\ DmpFeature \o DmpTune \in Seq(AStep)
    BY <2>1, <2>2, SeqsAre
  <2>6. (x \o DmpFeature) \o DmpTune = x \o (DmpFeature \o DmpTune)
    BY <2>4, <2>5, Regroup
  <2>7. (x \o (DmpFeature \o DmpTune)) \o DmpStart
          = x \o ((DmpFeature \o DmpTune) \o DmpStart)
    BY <2>4, <2>5, Regroup, SMTT(30)
  <2> QED
    BY <2>3, <2>6, <2>7
<1> QED
  BY <1>1, <1>2, <1>3, <1>4

-----------------------------------------------------------------------------
(* The deinits. *)
Has(s, x) == \E i \in 1 .. Len(s) : s[i].do = x

LEMMA HasRight ==
  ASSUME NEW S, NEW s \in Seq(S), NEW t \in Seq(S), NEW x, Has(t, x)
  PROVE  Has(s \o t, x)
<1>1. PICK i \in 1 .. Len(t) : t[i].do = x
  BY DEF Has
<1>2. /\ Len(s) \in Nat /\ Len(t) \in Nat /\ Len(s \o t) = Len(s) + Len(t)
      /\ \A j \in 1 .. Len(s) + Len(t) :
           (s \o t)[j] = IF j <= Len(s) THEN s[j] ELSE t[j - Len(s)]
  BY ConcatProperties, LenProperties
<1>3. /\ i + Len(s) \in 1 .. Len(s) + Len(t) /\ ~(i + Len(s) <= Len(s))
      /\ (i + Len(s)) - Len(s) = i
  BY <1>2
<1>4. (s \o t)[i + Len(s)] = t[i]
  BY <1>2, <1>3
<1> QED
  BY <1>1, <1>2, <1>3, <1>4 DEF Has

LEMMA HasTail ==
  ASSUME NEW S, NEW s \in Seq(S), s # <<>>, NEW x, Has(s, x), Head(s).do # x
  PROVE  Has(Tail(s), x)
<1>1. PICK i \in 1 .. Len(s) : s[i].do = x
  BY DEF Has
<1>2. /\ Len(s) \in Nat /\ Head(s) = s[1] /\ Len(Tail(s)) = Len(s) - 1
      /\ \A j \in 1 .. Len(Tail(s)) : Tail(s)[j] = s[j + 1]
  BY HeadTailProperties, LenProperties
<1>3. i # 1
  BY <1>1, <1>2
<1>4. i - 1 \in 1 .. Len(Tail(s)) /\ (i - 1) + 1 = i
  BY <1>2, <1>3
<1> QED
  BY <1>1, <1>2, <1>4 DEF Has

LEMMA HasNot == \A x : ~Has(<<>>, x)
BY DEF Has

(* The last two steps. *)
Close == Steps(<<"close">>)

LEMMA CloseIs ==
  /\ Deinit \in Seq(AStep) /\ Deinit # <<>> /\ Len(Deinit) = 2
  /\ Head(Deinit) = Step("power_down") /\ Tail(Deinit) = Close
  /\ Close \in Seq(AStep) /\ Close # <<>> /\ Len(Close) = 1
  /\ Head(Close) = Step("close") /\ Tail(Close) = <<>>
  /\ Step("power_down") \in AStep /\ Step("close") \in AStep
<1>1. Step("power_down") \in AStep /\ Step("close") \in AStep
  BY StepIs DEF Loud, Ends
<1>2. Deinit = <<Step("power_down"), Step("close")>> /\ Close = <<Step("close")>>
  BY DEF Deinit, Close, Steps
<1> DEFINE a == Step("power_down")
           b == Step("close")
<1>3. a \in AStep /\ b \in AStep
  BY <1>1
<1> HIDE DEF a, b
<1>4. /\ <<a, b>> \in Seq(AStep) /\ <<a, b>> # <<>> /\ Len(<<a, b>>) = 2
      /\ Head(<<a, b>>) = a /\ Tail(<<a, b>>) = <<b>>
      /\ <<b>> \in Seq(AStep) /\ <<b>> # <<>> /\ Len(<<b>>) = 1
      /\ Head(<<b>>) = b /\ Tail(<<b>>) = <<>>
  BY <1>3
<1> QED
  BY <1>1, <1>2, <1>4 DEF a, b

(* From WIA to the end of mag_deinit. *)
Last == <<Step("wia")>> \o Steps(<<"mag_down", "mag_closed">>)

LEMMA LastIs ==
  /\ Last \in Seq(MagOff) /\ Last # <<>>
  /\ Has(Last, "mag_down") /\ Has(Last, "mag_closed")
<1> DEFINE t == Steps(<<"mag_down", "mag_closed">>)
<1>1. \A x \in {"wia", "mag_down", "mag_closed"} : Step(x) \in MagOff
  BY DEF MagOff
<1>2. <<"mag_down", "mag_closed">> \in Seq({"wia", "mag_down", "mag_closed"})
  OBVIOUS
<1>3. t \in Seq(MagOff)
  BY <1>1, <1>2, StepsSeq
<1>4. Has(t, "mag_down") /\ Has(t, "mag_closed")
  <2>1. t = <<Step("mag_down"), Step("mag_closed")>>
    BY DEF Steps
  <2>2. Len(t) = 2 /\ t[1].do = "mag_down" /\ t[2].do = "mag_closed"
    BY <2>1 DEF Step
  <2>3. 1 \in 1 .. Len(t) /\ 2 \in 1 .. Len(t)
    BY <2>2
  <2> QED
    BY <2>2, <2>3 DEF Has
<1>5. Step("wia") \in MagOff
  BY <1>1
<1> HIDE DEF t
<1>6. <<Step("wia")>> \in Seq(MagOff) /\ <<Step("wia")>> \o t \in Seq(MagOff)
      /\ <<Step("wia")>> \o t # <<>>
  BY <1>3, <1>5, OneInFront
<1>7. Has(<<Step("wia")>> \o t, "mag_down") /\ Has(<<Step("wia")>> \o t, "mag_closed")
  BY <1>3, <1>4, <1>6, HasRight
<1> QED
  BY <1>6, <1>7 DEF Last, t

LEMMA MagDeinitIs ==
  /\ MagDeinit = Drop(<<"iic_master">>) \o (Raise(<<"iic_bypass">>) \o Last)
  /\ MagDeinit \in Seq(Leaving) /\ Has(MagDeinit, "mag_down")
<1> DEFINE t == Steps(<<"mag_down", "mag_closed">>)
           d == Drop(<<"iic_master">>)
           r == Raise(<<"iic_bypass">>)
<1>1. MagDeinit = d \o (r \o Last)
  <2>1. \A x \in {"mag_down", "mag_closed"} : Step(x) \in AStep
    BY StepIs DEF Loud, MagSteps
  <2>2. <<"mag_down", "mag_closed">> \in Seq({"mag_down", "mag_closed"})
    OBVIOUS
  <2>3. t \in Seq(AStep)
    BY <2>1, <2>2, StepsSeq
  <2> QED
    BY <2>3, BypassIs DEF MagDeinit, Last
<1>2. d \in Seq(Leaving) /\ r \in Seq(Leaving) /\ Last \in Seq(Leaving)
  BY WaySeq, LastIs, SeqsAre
<1> HIDE DEF d, r
<1>3. r \o Last \in Seq(Leaving) /\ d \o (r \o Last) \in Seq(Leaving)
  BY <1>2, ConcatSeq
<1>4. Has(r \o Last, "mag_down")
  BY <1>2, LastIs, HasRight
<1>5. Has(d \o (r \o Last), "mag_down")
  BY <1>2, <1>3, <1>4, HasRight
<1> QED
  BY <1>1, <1>3, <1>5 DEF d, r

(* What goes before the last two steps of a deinit, if mag says that it goes to
   the magnetometer. *)
Before(spins) ==
  {m \in Seq(Leaving) : spins => Has(m, "mag_down") \/ Has(m, "refuse")}

LEMMA BeforeIs ==
  ASSUME NEW a \in {Off(<<"fifo">>), <<>>},
         NEW b \in {MagDeinit, <<Step("refuse")>>, <<>>}
  PROVE  a \o b \in Before(b # <<>>)
<1>1. a \in Seq(Leaving)
  <2>1. <<>> \in Seq(Leaving)
    OBVIOUS
  <2>2. <<"fifo">> \in Seq(Option)
    BY OptionsAre DEF UserCtrl
  <2>3. Off(<<"fifo">>) \in Seq(Leaving)
    BY <2>2, Kinds, SwitchesSeq
  <2> QED
    BY <2>1, <2>3
<1>2. b \in Seq(Leaving) /\ (b # <<>> => Has(b, "mag_down") \/ Has(b, "refuse"))
  <2>1. CASE b = MagDeinit
    BY <2>1, MagDeinitIs
  <2>2. CASE b = <<Step("refuse")>>
    <3>1. Step("refuse") \in Leaving /\ Step("refuse").do = "refuse"
      BY StepIs DEF Leaving
    <3> DEFINE r == Step("refuse")
    <3>2. r \in Leaving /\ r.do = "refuse" /\ b = <<r>>
      BY <2>2, <3>1
    <3> HIDE DEF r
    <3>3. b \in Seq(Leaving) /\ Len(b) = 1 /\ b[1].do = "refuse"
      BY <3>2
    <3>4. 1 \in 1 .. Len(b)
      BY <3>3
    <3> QED
      BY <3>3, <3>4 DEF Has
  <2>3. CASE b = <<>>
    BY <2>3
  <2> QED
    BY <2>1, <2>2, <2>3
<1>3. a \o b \in Seq(Leaving)
  BY <1>1, <1>2, ConcatSeq
<1>4. b # <<>> => Has(a \o b, "mag_down") \/ Has(a \o b, "refuse")
  BY <1>1, <1>2, HasRight
<1> QED
  BY <1>3, <1>4 DEF Before

(* A read and an irq_handler. *)
LEMMA ReadsAre ==
  /\ ReadSamples \in Seq(Reading) \ {<<>>}
  /\ <<Step("int_status")>> \o ResetFifo \in Seq(Reading) \ {<<>>}
<1>1. /\ Step("configuration") \in Reading /\ Step("int_status") \in Reading
      /\ Step("sources") \in Reading /\ Step("drain") \in Reading
      /\ Step("sample") \in Reading /\ Step("mag_st1") \in Reading
  BY StepIs, Kinds DEF Plain, Reading
<1>2. ResetFifo \in Seq(Reading)
  BY ResetFifoIs, SeqsAre
<1>3. Steps(<<"sources", "drain">>) \in Seq(Reading)
  <2>1. \A x \in {"sources", "drain"} : Step(x) \in Reading
    BY <1>1
  <2>2. <<"sources", "drain">> \in Seq({"sources", "drain"})
    OBVIOUS
  <2> QED
    BY <2>1, <2>2, StepsSeq
<1>4. <<Step("sample")>> \o (IF handle.mag_inited THEN <<Step("mag_st1")>> ELSE <<>>)
        \in Seq(Reading)
  <2>1. <<>> \in Seq(Reading) /\ <<Step("mag_st1")>> \in Seq(Reading)
    BY <1>1
  <2> QED
    BY <1>1, <2>1, OneInFront
<1>5. ReadSamples \in Seq(Reading) \ {<<>>}
  BY <1>1, <1>3, <1>4, OneInFront DEF ReadSamples
<1> QED
  BY <1>1, <1>2, <1>5, OneInFront

-----------------------------------------------------------------------------
(* The invariant. *)
Handles == [inited : BOOLEAN, dmp_inited : BOOLEAN, mag_inited : BOOLEAN]
Few == {{}} \union {{x} : x \in SUBSET (Sources \union {"packet"})}
Chips == [on : SUBSET Option, loaded : BOOLEAN, tap : {"unset", "defaults", "set"},
          queued : Few]
Mag == {"down", "rom", "measuring"}

Types ==
  /\ mode \in Modes /\ handle \in Handles /\ chip \in Chips /\ mag \in Mag
  /\ saved \subseteq Option /\ slips \in 0 .. MaxSlips /\ ready \in BOOLEAN
  /\ asked \in [on : SUBSET Option, off : SUBSET Option]
  /\ asked.on \intersect asked.off = {}

Flags ==
  /\ handle.dmp_inited => handle.inited /\ mode.app \in Dmps
  /\ handle.mag_inited => mode.app \notin Dmps

(* The host reaches the magnetometer. *)
Through == "iic_bypass" \in chip.on /\ "iic_master" \notin chip.on

Lefts == {<<"open", "identify", "init_reset", "poll">>,
          <<"identify", "init_reset", "poll">>, <<"init_reset", "poll">>, <<"poll">>}

(* An init of which no transfer has failed: before the handle is cleared, before
   the chip has answered, after it, and on the way to the magnetometer. *)
InitOpens ==
  /\ call = "init" /\ failed = "none" /\ slips = 0 /\ undo = <<>>
  /\ \E r \in Rests(mode.app) :
       \/ todo = First \o r
       \/ /\ \E t \in Lefts : todo = Steps(t) \o r
          /\ ~ handle.inited /\ ~ handle.mag_inited

InitRuns ==
  /\ call = "init" /\ failed = "none" /\ slips = 0 /\ undo = <<>>
  /\ handle.inited
  /\ \/ todo \in Rests(mode.app)
     \/ mode.app \notin Dmps /\ todo \in Raised /\ "iic_master" \notin chip.on
     \/ mode.app \notin Dmps /\ todo \in Mags /\ Through

(* One of which one has failed: before mag_deinit, in it, and in deinit. *)
InitCloses ==
  /\ call = "init" /\ failed # "none" /\ slips # 0
  /\ \/ todo = Off(<<"fifo">>) /\ undo = <<MagDeinit, Deinit>>
     \/ /\ undo = <<Deinit>>
        /\ \/ todo = MagDeinit
           \/ /\ todo = Raise(<<"iic_bypass">>) \o Last
              /\ slips = 1 => "iic_master" \notin chip.on
           \/ /\ todo \in Seq(MagOff) \ {<<>>}
              /\ slips = 1 =>
                   Through /\ (handle.mag_inited => Has(todo, "mag_closed"))
     \/ /\ undo = <<>>
        /\ slips = 1 => (handle.mag_inited => failed = "fifo")
        /\ \/ todo = Deinit
           \/ todo = Close /\ (slips = 1 => Asleep)

(* A deinit, up to its last two steps and in them. *)
Spins == mode.app \notin Dmps /\ mode.bus = "iic"

Deinits ==
  /\ call = "deinit" /\ failed = "none" /\ undo = <<>>
  /\ \/ \E m \in Before(Spins /\ mag # "down") : todo = m \o Deinit
     \/ todo = Close /\ Asleep /\ (Spins => mag = "down")

Reads9250 ==
  /\ call \in {"read", "irq"} /\ failed = "none" /\ undo = <<>>
  /\ todo \in Seq(Reading) \ {<<>>}

Rested ==
  /\ call = "none" /\ todo = <<>>
  /\ InitFailsClosed /\ DeinitStops

Where == Rested \/ InitOpens \/ InitRuns \/ InitCloses \/ Deinits \/ Reads9250

IInv == Types /\ Flags /\ Where

-----------------------------------------------------------------------------
(* What a step does to the chip, *)
LEMMA OptionSets ==
  /\ "sleep" \in Option /\ "fifo" \in Option /\ "dmp" \in Option
  /\ Inverted \subseteq Option /\ Defaults \subseteq Option
  /\ Runs \subseteq Option
<1>1. "fifo" \in Option /\ "dmp" \in Option /\ "sleep" \in Option
  BY OptionsAre DEF UserCtrl
<1>2. Inverted \subseteq Option /\ Defaults \subseteq Option
  BY OptionsAre DEF Inverted, Defaults
<1> QED
  BY <1>1, <1>2 DEF Runs

LEMMA OutcomesAre ==
  ASSUME NEW c \in Chips, NEW s \in AStep, NEW b \in Outcomes(s, c), saved \subseteq Option
  PROVE  /\ b \in Chips
         /\ s.do \in Loud \ {"init_reset", "power_down"} => b = c
         /\ s.do = "power_down" => "sleep" \in b.on
         /\ s.do = "raise" => b.on = c.on \union {s.opt}
         /\ s.do = "drop" => b.on = c.on \ {s.opt}
<1> DEFINE Good ==
      /\ b \in Chips
      /\ s.do \in Loud \ {"init_reset", "power_down"} => b = c
      /\ s.do = "power_down" => "sleep" \in b.on
      /\ s.do = "raise" => b.on = c.on \union {s.opt}
      /\ s.do = "drop" => b.on = c.on \ {s.opt}
<1> SUFFICES Good
  OBVIOUS
<1>1. {} \in Few
  BY DEF Few
<1>2. ASSUME NEW on \in SUBSET Option PROVE [c EXCEPT !.on = on] \in Chips
  BY DEF Chips
<1>3. ASSUME s.do \notin Loud \union {"raise", "drop"}, b \in Chips PROVE Good
  BY <1>3 DEF Loud, Ends
<1>4. s.do \in Switches => s.opt \in Option
  BY DEF AStep, Quiet, Plain, Loud, Switches, Begins, Ends, MagSteps
<1>5. CASE s.do \in {"on", "raise"}
  <2>1. b \in WithOn(c, {s.opt})
    BY <1>5, Zenon DEF Outcomes
  <2>2. b = [c EXCEPT !.on = @ \union {s.opt}]
    BY <2>1 DEF WithOn
  <2>3. s.opt \in Option
    BY <1>4, <1>5 DEF Switches
  <2>4. b \in Chips /\ b.on = c.on \union {s.opt}
    BY <2>2, <2>3 DEF Chips
  <2> QED
    BY <1>5, <2>4 DEF Loud, Begins, Ends, MagSteps
<1>6. CASE s.do \in {"off", "drop"}
  <2>1. b \in WithOff(c, {s.opt})
    BY <1>6, Zenon DEF Outcomes
  <2>2. b = [c EXCEPT !.on = @ \ {s.opt}]
    BY <2>1 DEF WithOff
  <2>3. b \in Chips /\ b.on = c.on \ {s.opt}
    BY <2>2 DEF Chips
  <2> QED
    BY <1>6, <2>3 DEF Loud, Begins, Ends, MagSteps
<1>7. CASE s.do \in {"init_reset", "reset"}
  <2>1. b \in Reset(c)
    BY <1>7, Zenon DEF Outcomes
  <2>2. PICK x \in {Defaults, Defaults \union {"sleep"}} :
            b = [on |-> x, loaded |-> FALSE, tap |-> "unset", queued |-> {}]
    BY <2>1 DEF Reset
  <2>3. x \subseteq Option
    BY OptionSets
  <2>4. b \in Chips
    BY <1>1, <2>2, <2>3 DEF Chips
  <2> QED
    BY <1>7, <2>4 DEF Loud, Begins, Ends, MagSteps
<1>8. CASE s.do = "power_down"
  <2>1. b \in {[c EXCEPT !.on =
                   (@ \ ({"cycle_wake_up", "gyro_standby"} \union Inverted))
                     \union {"sleep"}]}
    BY <1>8, Zenon DEF Outcomes
  <2>2. b \in Chips /\ "sleep" \in b.on
    BY <2>1, OptionSets DEF Chips
  <2> QED
    BY <1>8, <2>2
<1>9. CASE s.do = "no_power"
  <2>1. b \in {[c EXCEPT !.on = (@ \ Power) \union Inverted]}
    BY <1>9, Zenon DEF Outcomes
  <2>2. b \in Chips
    BY <2>1, OptionSets DEF Chips
  <2> QED
    BY <1>3, <1>9, <2>2 DEF Loud, Begins, Ends, MagSteps
<1>10. ASSUME NEW x, b \in WithOff(c, x) PROVE b \in Chips
  <2>1. b = [c EXCEPT !.on = @ \ x]
    BY <1>10 DEF WithOff
  <2> QED
    BY <2>1 DEF Chips
<1>11. ASSUME NEW x \in SUBSET Option, b \in WithOn(c, x) PROVE b \in Chips
  <2>1. b = [c EXCEPT !.on = @ \union x]
    BY <1>11 DEF WithOn
  <2> QED
    BY <2>1 DEF Chips
<1>12. CASE s.do = "no_master"
  <2>1. b \in WithOff(c, Master)
    BY <1>12, Zenon DEF Outcomes
  <2> QED
    BY <1>3, <1>10, <1>12, <2>1 DEF Loud, Begins, Ends, MagSteps
<1>13. CASE s.do = "no_user"
  <2>1. b \in WithOff(c, UserCtrl)
    BY <1>13, Zenon DEF Outcomes
  <2> QED
    BY <1>3, <1>10, <1>13, <2>1 DEF Loud, Begins, Ends, MagSteps
<1>14. CASE s.do = "no_tests"
  <2>1. b \in WithOff(c, Elements(Tests))
    BY <1>14, Zenon DEF Outcomes
  <2> QED
    BY <1>3, <1>10, <1>14, <2>1 DEF Loud, Begins, Ends, MagSteps
<1>15. CASE s.do \in {"no_irq", "mask_irq"}
  <2>1. b \in WithOff(c, Interrupts)
    BY <1>15, Zenon DEF Outcomes
  <2> QED
    BY <1>3, <1>10, <1>15, <2>1 DEF Loud, Begins, Ends, MagSteps
<1>16. CASE s.do \in {"no_sources", "mask_fifo"}
  <2>1. b \in WithOff(c, Sources)
    BY <1>16, Zenon DEF Outcomes
  <2> QED
    BY <1>3, <1>10, <1>16, <2>1 DEF Loud, Begins, Ends, MagSteps
<1>17. CASE s.do = "unmask_irq"
  <2>1. b \in WithOn(c, saved \intersect Interrupts)
    BY <1>17, Zenon DEF Outcomes
  <2>2. b \in Chips
    BY <1>11, <2>1
  <2> QED
    BY <1>3, <1>17, <2>2 DEF Loud, Begins, Ends, MagSteps
<1>18. CASE s.do = "unmask_fifo"
  <2>1. b \in WithOn(c, saved \intersect Sources)
    BY <1>18, Zenon DEF Outcomes
  <2>2. b \in Chips
    BY <1>11, <2>1
  <2> QED
    BY <1>3, <1>18, <2>2 DEF Loud, Begins, Ends, MagSteps
<1>19. CASE s.do = "flush"
  <2>1. b \in {[c EXCEPT !.on = @ \ {"fifo", "dmp"}, !.queued = {}]}
    BY <1>19, Zenon DEF Outcomes
  <2>2. b \in Chips
    BY <1>1, <2>1 DEF Chips
  <2> QED
    BY <1>3, <1>19, <2>2 DEF Loud, Begins, Ends, MagSteps
<1>20. CASE s.do = "run"
  <2>1. b \in {[c EXCEPT !.on = @ \union Runs, !.queued = {}]}
    BY <1>20, Zenon DEF Outcomes
  <2>2. b \in Chips
    BY <1>1, <2>1, OptionSets DEF Chips
  <2> QED
    BY <1>3, <1>20, <2>2 DEF Loud, Begins, Ends, MagSteps
<1>21. CASE s.do = "drain"
  <2>1. b \in {[c EXCEPT !.queued = {}]}
    BY <1>21, Zenon DEF Outcomes
  <2>2. b \in Chips
    BY <1>1, <2>1 DEF Chips
  <2> QED
    BY <1>3, <1>21, <2>2 DEF Loud, Begins, Ends, MagSteps
<1>22. CASE s.do = "load"
  <2>1. b \in {[c EXCEPT !.loaded = TRUE]}
    BY <1>22, Zenon DEF Outcomes
  <2>2. b \in Chips
    BY <2>1 DEF Chips
  <2> QED
    BY <1>3, <1>22, <2>2 DEF Loud, Begins, Ends, MagSteps
<1>23. CASE s.do = "tap_defaults"
  <2>1. b \in {[c EXCEPT !.tap = "defaults"]}
    BY <1>23, Zenon DEF Outcomes
  <2>2. b \in Chips
    BY <2>1 DEF Chips
  <2> QED
    BY <1>3, <1>23, <2>2 DEF Loud, Begins, Ends, MagSteps
<1>24. CASE s.do = "tap_thresh"
  <2>1. b \in {[c EXCEPT !.tap = "set"]}
    BY <1>24, Zenon DEF Outcomes
  <2>2. b \in Chips
    BY <2>1 DEF Chips
  <2> QED
    BY <1>3, <1>24, <2>2 DEF Loud, Begins, Ends, MagSteps
<1>25. CASE s.do \notin {"on", "raise", "off", "drop", "init_reset", "reset",
                         "power_down", "no_power", "no_master", "no_user",
                         "no_tests", "no_irq", "mask_irq", "no_sources",
                         "mask_fifo", "unmask_irq", "unmask_fifo", "flush", "run",
                         "drain", "load", "tap_defaults", "tap_thresh"}
  <2>1. b \in {c}
    BY <1>25, Zenon DEF Outcomes
  <2> QED
    BY <1>25, <2>1
<1> HIDE DEF Good
<1> QED
  BY <1>5, <1>6, <1>7, <1>8, <1>9, <1>12, <1>13, <1>14, <1>15, <1>16, <1>17,
     <1>18, <1>19, <1>20, <1>21, <1>22, <1>23, <1>24, <1>25

(* to the handle, *)
LEMMA HandledIs ==
  ASSUME NEW s, handle \in Handles
  PROVE  /\ Handled(s) \in Handles
         /\ s.do \notin {"link", "poll", "start", "mag_inited", "mag_closed", "close"} =>
              Handled(s) = handle
         /\ s.do \in {"link", "close"} =>
              ~ Handled(s).inited /\ ~ Handled(s).dmp_inited
         /\ s.do = "link" => ~ Handled(s).mag_inited
         /\ s.do = "poll" => Handled(s).inited /\ ~ Handled(s).dmp_inited
         /\ s.do \in {"poll", "start", "close"} =>
              (Handled(s).mag_inited <=> handle.mag_inited)
         /\ s.do \in {"start", "mag_inited", "mag_closed"} =>
              (Handled(s).inited <=> handle.inited)
         /\ s.do \in {"mag_inited", "mag_closed"} =>
              (Handled(s).dmp_inited <=> handle.dmp_inited)
         /\ s.do = "mag_closed" => ~ Handled(s).mag_inited
<1>1. CASE s.do = "link"
  BY <1>1 DEF Handled, Handles
<1>2. CASE s.do = "poll"
  BY <1>2 DEF Handled, Handles
<1>3. CASE s.do = "start"
  BY <1>3 DEF Handled, Handles
<1>4. CASE s.do = "mag_inited"
  BY <1>4 DEF Handled, Handles
<1>5. CASE s.do = "mag_closed"
  BY <1>5 DEF Handled, Handles
<1>6. CASE s.do = "close"
  BY <1>6 DEF Handled, Handles
<1>7. CASE s.do \notin {"link", "poll", "start", "mag_inited", "mag_closed", "close"}
  <2>1. Handled(s) = handle
    BY <1>7, Zenon DEF Handled
  <2> QED
    BY <1>7, <2>1
<1> QED
  BY <1>1, <1>2, <1>3, <1>4, <1>5, <1>6, <1>7

(* to the magnetometer, and to what has been asked. *)
LEMMA OthersAre ==
  ASSUME NEW s \in AStep, Types
  PROVE  /\ MagAfter(s) \in Mag
         /\ s.do = "mag_down" => MagAfter(s) = "down"
         /\ s.do \notin {"mag_reset", "mag_down", "mag_rom", "mag_mode"} => MagAfter(s) = mag
         /\ Asked(s) \in [on : SUBSET Option, off : SUBSET Option]
         /\ Asked(s).on \intersect Asked(s).off = {}
<1>1. /\ MagAfter(s) \in Mag
      /\ s.do = "mag_down" => MagAfter(s) = "down"
      /\ s.do \notin {"mag_reset", "mag_down", "mag_rom", "mag_mode"} => MagAfter(s) = mag
  BY DEF MagAfter, Mag, Types
<1>2. s.do \in {"on", "off"} => s.opt \in Option
  BY DEF AStep, Quiet, Plain, Loud, Switches, Begins, Ends, MagSteps
<1>3. CASE s.do = "on"
  <2>1. Asked(s) = [on |-> asked.on \union {s.opt}, off |-> asked.off \ {s.opt}]
    BY <1>3, Zenon DEF Asked
  <2> QED
    BY <1>1, <1>2, <1>3, <2>1 DEF Types
<1>4. CASE s.do = "off"
  <2>1. Asked(s) = [on |-> asked.on \ {s.opt}, off |-> asked.off \union {s.opt}]
    BY <1>4, Zenon DEF Asked
  <2> QED
    BY <1>1, <1>2, <1>4, <2>1 DEF Types
<1>5. CASE s.do \notin {"on", "off"}
  <2>1. Asked(s) = asked
    BY <1>5, Zenon DEF Asked
  <2> QED
    BY <1>1, <2>1 DEF Types
<1> QED
  BY <1>3, <1>4, <1>5

-----------------------------------------------------------------------------
(* Every call is a sequence of steps. *)
LEMMA RestsAre ==
  ASSUME NEW app, NEW r \in Rests(app)
  PROVE  r \in Seq(AStep) /\ r # <<>>
<1>1. CASE r \in Seq(Starting) \ {<<>>}
  BY <1>1, SeqsAre
<1>2. CASE r \in Seq(Quiet) \ {<<>>}
  BY <1>2, SeqsAre
<1>3. CASE \E p \in Seq(Quiet) : \E w \in Dropped : r = p \o w
  <2>1. PICK p \in Seq(Quiet), w \in Dropped : r = p \o w
    BY <1>3
  <2>2. p \in Seq(AStep) /\ w \in Seq(AStep)
    BY SeqsAre
  <2>3. PICK u \in Raised : w = Drop(<<"iic_master">>) \o u
    BY DEF Dropped
  <2>4. w # <<>>
    BY <2>3, WaySeq, SeqsAre, InFront
  <2>5. p \o w # <<>>
    <3>1. CASE p = <<>>
      BY <3>1, <2>2, <2>4, ConcatEmptySeq
    <3>2. CASE p # <<>>
      BY <3>2, <2>2, InFront
    <3> QED
      BY <3>1, <3>2
  <2> QED
    BY <2>1, <2>2, <2>5, ConcatSeq
<1> QED
  BY <1>1, <1>2, <1>3 DEF Rests, DmpRests, MagRests

LEMMA LeftsAre ==
  ASSUME NEW t \in Lefts
  PROVE  /\ t \in Seq(Begins \ {"link"}) /\ t # <<>>
         /\ Steps(t) \in Seq(AStep) /\ Steps(t) # <<>>
         /\ Head(Steps(t)) = Step(Head(t)) /\ Tail(Steps(t)) = Steps(Tail(t))
         /\ \/ Tail(t) \in Lefts /\ Head(t) \in {"open", "identify", "init_reset"}
            \/ Tail(t) = <<>> /\ Head(t) = "poll"
<1>1. /\ t \in Seq(Begins \ {"link"}) /\ t # <<>>
      /\ \/ Tail(t) \in Lefts /\ Head(t) \in {"open", "identify", "init_reset"}
         \/ Tail(t) = <<>> /\ Head(t) = "poll"
  <2>1. CASE t = <<"open", "identify", "init_reset", "poll">>
    BY <2>1 DEF Lefts, Begins
  <2>2. CASE t = <<"identify", "init_reset", "poll">>
    BY <2>2 DEF Lefts, Begins
  <2>3. CASE t = <<"init_reset", "poll">>
    BY <2>3 DEF Lefts, Begins
  <2>4. CASE t = <<"poll">>
    BY <2>4 DEF Lefts, Begins
  <2> QED
    BY <2>1, <2>2, <2>3, <2>4 DEF Lefts
<1>2. \A x \in Begins \ {"link"} : Step(x) \in AStep
  BY StepIs DEF Loud
<1> QED
  BY <1>1, <1>2, StepsSeq

LEMMA OffFifo ==
  /\ Off(<<"fifo">>) \in Seq(AStep) /\ Off(<<"fifo">>) # <<>>
  /\ Tail(Off(<<"fifo">>)) = <<>> /\ Head(Off(<<"fifo">>)).do = "off"
<1> DEFINE a == [do |-> "off", opt |-> "fifo"]
<1>1. Off(<<"fifo">>) = <<a>>
  BY DEF Off
<1>2. a \in Quiet
  BY OptionSets DEF Quiet, Switches
<1>3. a \in AStep /\ a.do = "off"
  BY <1>2, Kinds
<1> HIDE DEF a
<1>4. <<a>> \in Seq(AStep) /\ <<a>> # <<>> /\ Tail(<<a>>) = <<>> /\ Head(<<a>>) = a
  BY <1>3
<1> QED
  BY <1>1, <1>3, <1>4

LEMMA TodoIs ==
  ASSUME IInv, todo # <<>>
  PROVE  todo \in Seq(AStep) /\ call # "none"
<1>1. CASE Rested
  BY <1>1 DEF Rested
<1>2. CASE InitOpens
  <2>1. PICK r \in Rests(mode.app) :
           todo = First \o r \/ \E t \in Lefts : todo = Steps(t) \o r
    BY <1>2 DEF InitOpens
  <2>2. r \in Seq(AStep)
    BY RestsAre
  <2>3. First \o r \in Seq(AStep)
    BY <2>2, FirstIs, ConcatSeq
  <2>4. \A t \in Lefts : Steps(t) \o r \in Seq(AStep)
    BY <2>2, LeftsAre, ConcatSeq
  <2> QED
    BY <1>2, <2>1, <2>3, <2>4 DEF InitOpens
<1>3. CASE InitRuns
  <2>1. todo \in Rests(mode.app) => todo \in Seq(AStep)
    BY RestsAre
  <2> QED
    BY <1>3, <2>1, SeqsAre DEF InitRuns
<1>4. CASE InitCloses
  <2>1. Raise(<<"iic_bypass">>) \o Last \in Seq(AStep)
    <3>1. Last \in Seq(AStep)
      BY LastIs, SeqsAre
    <3> QED
      BY <3>1, WaySeq, ConcatSeq
  <2>2. MagDeinit \in Seq(AStep)
    BY MagDeinitIs, SeqsAre
  <2> QED
    BY <1>4, <2>1, <2>2, OffFifo, CloseIs, SeqsAre DEF InitCloses
<1>5. CASE Deinits
  <2>1. ASSUME NEW m \in Before(Spins /\ mag # "down") PROVE m \o Deinit \in Seq(AStep)
    <3>1. m \in Seq(AStep)
      BY SeqsAre DEF Before
    <3> QED
      BY <3>1, CloseIs, ConcatSeq
  <2> QED
    BY <1>5, <2>1, CloseIs DEF Deinits
<1>6. CASE Reads9250
  BY <1>6, SeqsAre DEF Reads9250
<1> QED
  BY <1>1, <1>2, <1>3, <1>4, <1>5, <1>6 DEF IInv, Where

-----------------------------------------------------------------------------
(* What Advance and Slip do to a call. *)
LEMMA TailIs ==
  ASSUME NEW S, NEW s \in Seq(S), s # <<>>
  PROVE  /\ Head(s) \in S /\ Tail(s) \in Seq(S)
         /\ Len(s) > 1 <=> Tail(s) # <<>>
<1>1. Head(s) \in S /\ Tail(s) \in Seq(S) /\ Len(Tail(s)) = Len(s) - 1
  BY HeadTailProperties
<1>2. Len(s) \in Nat \ {0}
  BY EmptySeq, LenProperties
<1>3. Tail(s) = <<>> <=> Len(Tail(s)) = 0
  BY <1>1, EmptySeq
<1> QED
  BY <1>1, <1>2, <1>3

Returned(ok, n, what) ==
  /\ call' = "none" /\ todo' = <<>>
  /\ last'.call = call /\ last'.ok = ok /\ last'.slips = n /\ last'.failed = what

Goes(seq) == todo' = Head(seq) /\ undo' = Tail(seq) /\ call' = call

LEMMA AdvanceIs ==
  ASSUME Advance, todo \in Seq(AStep)
  PROVE  /\ todo # <<>> /\ Head(todo) \in AStep /\ Answers(Head(todo))
         /\ mode' = mode /\ slips' = slips /\ failed' = failed
         /\ chip' \in Outcomes(Head(todo), chip) /\ mag' = MagAfter(Head(todo))
         /\ handle' = Handled(Head(todo))
         /\ Tail(todo) # <<>> => todo' = Tail(todo) /\ call' = call /\ undo' = undo
         /\ Tail(todo) = <<>> /\ failed = "none" => Returned(TRUE, slips, failed)
         /\ Tail(todo) = <<>> /\ failed # "none" /\ undo = <<>> =>
              Returned(FALSE, slips, failed)
         /\ Tail(todo) = <<>> /\ failed # "none" /\ undo # <<>> => Goes(undo)
<1>1. todo # <<>>
  BY DEF Advance
<1>2. Head(todo) \in AStep /\ (Len(todo) > 1 <=> Tail(todo) # <<>>)
  BY <1>1, TailIs
<1>3. /\ Answers(Head(todo)) /\ mode' = mode /\ slips' = slips /\ failed' = failed
      /\ chip' \in Outcomes(Head(todo), chip) /\ mag' = MagAfter(Head(todo))
      /\ handle' = Handled(Head(todo))
  BY DEF Advance
<1>4. Tail(todo) # <<>> => todo' = Tail(todo) /\ call' = call /\ undo' = undo
  BY <1>2, Zenon DEF Advance
<1>5. \A ok : Return(ok) => Returned(ok, slips, failed)
  BY <1>3 DEF Return, Returned
<1>6. Tail(todo) = <<>> /\ failed = "none" => Return(TRUE)
  BY <1>2, Zenon DEF Advance
<1>7. Tail(todo) = <<>> /\ failed # "none" => GoOn(undo)
  BY <1>2, Zenon DEF Advance
<1>8. GoOn(undo) => (undo = <<>> => Return(FALSE)) /\ (undo # <<>> => Goes(undo))
  BY Zenon DEF GoOn, Goes
<1> QED
  BY <1>1, <1>2, <1>3, <1>4, <1>5, <1>6, <1>7, <1>8, Zenon

LEMMA SlipIs ==
  ASSUME Slip, todo \in Seq(AStep)
  PROVE  /\ todo # <<>> /\ Head(todo) \in AStep /\ Head(todo).do \notin NoTransfer
         /\ mode' = mode /\ handle' = handle
         /\ Answers(Head(todo)) =>
              /\ slips < MaxSlips /\ slips' = slips + 1
              /\ chip' \in {chip} \union Outcomes(Head(todo), chip)
              /\ mag' \in {mag, MagAfter(Head(todo))}
         /\ ~ Answers(Head(todo)) => slips' = slips /\ chip' = chip /\ mag' = mag
         /\ failed # "none" => failed' = failed
         /\ failed = "none" =>
              failed' = IF Head(todo).opt = "none" THEN Head(todo).do ELSE Head(todo).opt
         /\ call # "init" => Returned(FALSE, slips', failed')
         /\ call = "init" =>
              \A u : u = (IF failed = "none" THEN Cleanup(Head(todo)) ELSE undo) =>
                /\ u = <<>> => Returned(FALSE, slips', failed')
                /\ u # <<>> => Goes(u)
<1>1. todo # <<>>
  BY DEF Slip
<1>2. Head(todo) \in AStep
  BY <1>1, TailIs
<1>3. Head(todo).do \notin NoTransfer /\ mode' = mode /\ handle' = handle
  BY DEF Slip
<1>4. /\ Answers(Head(todo)) =>
           /\ slips < MaxSlips /\ slips' = slips + 1
           /\ chip' \in {chip} \union Outcomes(Head(todo), chip)
           /\ mag' \in {mag, MagAfter(Head(todo))}
      /\ ~ Answers(Head(todo)) => slips' = slips /\ chip' = chip /\ mag' = mag
  BY Zenon DEF Slip
<1>5. /\ failed # "none" => failed' = failed
      /\ failed = "none" =>
           failed' = IF Head(todo).opt = "none" THEN Head(todo).do ELSE Head(todo).opt
  BY Zenon DEF Slip
<1>6. \A ok : Return(ok) => Returned(ok, slips', failed')
  BY DEF Return, Returned
<1>7. call # "init" => Return(FALSE)
  BY Zenon DEF Slip
<1>8. call = "init" => GoOn(IF failed = "none" THEN Cleanup(Head(todo)) ELSE undo)
  BY Zenon DEF Slip
<1>9. \A u : GoOn(u) => (u = <<>> => Return(FALSE)) /\ (u # <<>> => Goes(u))
  BY Zenon DEF GoOn, Goes
<1> QED
  BY <1>1, <1>2, <1>3, <1>4, <1>5, <1>6, <1>7, <1>8, <1>9, Zenon

LEMMA AdvanceTypes == ASSUME IInv, Advance PROVE Types'
<1>1. Types /\ todo # <<>>
  BY DEF IInv, Advance
<1> DEFINE s == Head(todo)
<1>2. /\ s \in AStep /\ chip' \in Outcomes(s, chip) /\ mag' = MagAfter(s)
      /\ handle' = Handled(s) /\ mode' = mode /\ slips' = slips
  BY <1>1, TodoIs, AdvanceIs
<1>3. asked' = Asked(s) /\ saved' = IF s.do = "save" THEN chip.on ELSE saved
  BY DEF Advance
<1> HIDE DEF s
<1>4. chip' \in Chips /\ saved' \subseteq Option
  BY <1>1, <1>2, <1>3, OutcomesAre DEF Types, Chips
<1>5. handle' \in Handles /\ mag' \in Mag
  BY <1>1, <1>2, HandledIs, OthersAre DEF Types
<1>6. /\ asked' \in [on : SUBSET Option, off : SUBSET Option]
      /\ asked'.on \intersect asked'.off = {}
  BY <1>1, <1>2, <1>3, OthersAre
<1>7. ready' \in BOOLEAN
  BY <1>1 DEF Advance, Types
<1> QED
  BY <1>1, <1>2, <1>4, <1>5, <1>6, <1>7 DEF Types

LEMMA SlipTypes == ASSUME IInv, Slip PROVE Types'
<1>1. Types /\ todo # <<>>
  BY DEF IInv, Slip
<1> DEFINE s == Head(todo)
<1>2. /\ s \in AStep /\ mode' = mode /\ handle' = handle
      /\ Answers(s) => /\ slips < MaxSlips /\ slips' = slips + 1
                       /\ chip' \in {chip} \union Outcomes(s, chip)
                       /\ mag' \in {mag, MagAfter(s)}
      /\ ~ Answers(s) => slips' = slips /\ chip' = chip /\ mag' = mag
  BY <1>1, TodoIs, SlipIs
<1>3. ready' = FALSE /\ saved' = saved /\ asked' = asked
  BY DEF Slip
<1> HIDE DEF s
<1>4. chip' \in Chips
  BY <1>1, <1>2, OutcomesAre DEF Types
<1>5. mag' \in Mag
  BY <1>1, <1>2, OthersAre DEF Types
<1>6. slips' \in 0 .. MaxSlips
  BY <1>1, <1>2, ModesAssumption DEF Types
<1> QED
  BY <1>1, <1>2, <1>3, <1>4, <1>5, <1>6 DEF Types

-----------------------------------------------------------------------------
(* The kinds of steps, by what they do. *)
LEMMA QuietIs ==
  ASSUME NEW s \in Quiet
  PROVE  s.do \notin Loud \union {"none"} /\ Answers(s)
<1>1. s.do \in Plain \union Switches
  BY DEF Quiet
<1>2. \A x \in Plain : x \notin Loud \union {"none"}
  BY DEF Plain, Loud, Begins, Ends, MagSteps
<1>3. \A x \in Switches : x \notin Loud \union {"none"}
  BY DEF Switches, Loud, Begins, Ends, MagSteps
<1>4. s.do \notin Loud \union {"none"}
  BY <1>1, <1>2, <1>3
<1>5. \A x : x \notin Loud => x \notin MagSteps /\ x # "sources" /\ x # "refuse"
  BY DEF Loud
<1>6. Answers(s)
  BY <1>4, <1>5 DEF Answers
<1> QED
  BY <1>4, <1>6

LEMMA MagIs ==
  /\ \A s \in MagOn : s.do \in MagSteps \union {"mag_inited"} /\ s.opt = "none"
  /\ \A s \in MagOff : s.do \in {"wia", "mag_down", "mag_closed"} /\ s.opt = "none"
  /\ Through => \A s \in MagOn \union MagOff : Answers(s)
<1>1. \A s \in MagOn : s.do \in MagSteps \union {"mag_inited"} /\ s.opt = "none"
  BY DEF MagOn, Step
<1>2. \A s \in MagOff : s.do \in {"wia", "mag_down", "mag_closed"} /\ s.opt = "none"
  BY DEF MagOff, Step
<1>3. ASSUME Through, NEW s \in MagOn \union MagOff PROVE Answers(s)
  <2>1. s.do # "sources" /\ s.do # "refuse"
    BY <1>1, <1>2 DEF MagSteps
  <2> QED
    BY <1>3, <2>1 DEF Answers, Through
<1> QED
  BY <1>1, <1>2, <1>3

(* A call that has returned. *)
LEMMA RestedAfter ==
  ASSUME NEW ok \in BOOLEAN, NEW n, NEW what, Returned(ok, n, what),
         call = "init" /\ ~ ok /\ n = 1 =>
           /\ ~ handle'.inited /\ ~ handle'.dmp_inited
           /\ "sleep" \in chip'.on \/ what \in {"open", "identify", "init_reset", "poll"}
           /\ handle'.mag_inited => what = "fifo",
         call = "deinit" /\ ok =>
           /\ ~ handle'.inited /\ "sleep" \in chip'.on
           /\ mode'.app \notin Dmps /\ mode'.bus = "iic" => mag' = "down"
  PROVE  Rested'
<1>1. /\ call' = "none" /\ todo' = <<>> /\ last'.call = call /\ last'.ok = ok
      /\ last'.slips = n /\ last'.failed = what
  BY DEF Returned
<1>2. InitFailsClosed'
  BY <1>1 DEF InitFailsClosed, Asleep
<1>3. DeinitStops'
  BY <1>1 DEF DeinitStops, Asleep
<1> QED
  BY <1>1, <1>2, <1>3 DEF Rested

-----------------------------------------------------------------------------
(* An init that goes on. *)
LEMMA AdvanceOpens ==
  ASSUME IInv, Advance, InitOpens
  PROVE  Flags' /\ Where'
<1> DEFINE s == Head(todo)
<1>1. PICK r \in Rests(mode.app) :
        \/ todo = First \o r
        \/ (\E t \in Lefts : todo = Steps(t) \o r)
             /\ ~ handle.inited /\ ~ handle.mag_inited
  BY DEF InitOpens
<1>2. r \in Seq(AStep) /\ r # <<>>
  BY RestsAre
<1>3. todo \in Seq(AStep) /\ handle \in Handles
  BY TodoIs DEF IInv, Types, Advance
<1>4. /\ s \in AStep /\ handle' = Handled(s)
      /\ mode' = mode /\ slips' = 0 /\ failed' = "none"
      /\ Tail(todo) # <<>> =>
           todo' = Tail(todo) /\ call' = "init" /\ undo' = <<>>
  BY <1>3, AdvanceIs DEF InitOpens
<1>5. r \in Rests(mode'.app)
  BY <1>4
<1>6. CASE todo = First \o r
  <2> DEFINE t == <<"open", "identify", "init_reset", "poll">>
  <2>1. t \in Lefts /\ Init9250 = Steps(t)
    BY DEF Lefts, Init9250
  <2> HIDE DEF t
  <2>2. Init9250 \in Seq(AStep) /\ Init9250 # <<>> /\ Step("link") \in AStep
    BY <2>1, LeftsAre, StepIs DEF Loud, Begins
  <2>3. todo = <<Step("link")>> \o (Init9250 \o r)
    <3>1. <<Step("link")>> \in Seq(AStep)
      BY <2>2
    <3> QED
      BY <1>2, <1>6, <2>2, <3>1, Regroup DEF First
  <2>4. Init9250 \o r \in Seq(AStep) /\ Init9250 \o r # <<>>
    BY <1>2, <2>2, InFront
  <2>5. Head(todo) = Step("link") /\ Tail(todo) = Steps(t) \o r
    BY <2>1, <2>2, <2>3, <2>4, OneInFront
  <2>6. s.do = "link"
    BY <2>5, StepIs
  <2>7. ~ handle'.inited /\ ~ handle'.dmp_inited /\ ~ handle'.mag_inited
    BY <1>3, <1>4, <2>6, HandledIs
  <2>8. todo' = Steps(t) \o r /\ call' = "init" /\ undo' = <<>>
    BY <1>4, <2>1, <2>4, <2>5
  <2>9. InitOpens'
    BY <1>4, <1>5, <2>1, <2>7, <2>8 DEF InitOpens
  <2> QED
    BY <2>7, <2>9 DEF Flags, Where
<1>7. ASSUME NEW t \in Lefts, todo = Steps(t) \o r, ~ handle.inited, ~ handle.mag_inited
      PROVE  Flags' /\ Where'
  <2>1. /\ Steps(t) \in Seq(AStep) /\ Steps(t) # <<>>
        /\ Head(Steps(t)) = Step(Head(t)) /\ Tail(Steps(t)) = Steps(Tail(t))
        /\ \/ Tail(t) \in Lefts /\ Head(t) \in {"open", "identify", "init_reset"}
           \/ Tail(t) = <<>> /\ Head(t) = "poll"
    BY LeftsAre
  <2>2. Head(todo) = Step(Head(t)) /\ Tail(todo) = Steps(Tail(t)) \o r
    <3> DEFINE u == Steps(t)
    <3>1. u \in Seq(AStep) /\ u # <<>> /\ todo = u \o r
      BY <1>7, <2>1
    <3> HIDE DEF u
    <3>2. Head(u \o r) = Head(u) /\ Tail(u \o r) = Tail(u) \o r
      BY <1>2, <3>1, InFront
    <3> QED
      BY <2>1, <3>1, <3>2, Zenon DEF u
  <2>3. s.do = Head(t)
    BY <2>2, StepIs
  <2>4. CASE Tail(t) \in Lefts /\ Head(t) \in {"open", "identify", "init_reset"}
    <3>1. handle' = handle
      BY <1>3, <1>4, <2>3, <2>4, HandledIs
    <3>2. Tail(todo) # <<>>
      <4>1. Steps(Tail(t)) \in Seq(AStep) /\ Steps(Tail(t)) # <<>>
        BY <2>4, LeftsAre
      <4> DEFINE u == Steps(Tail(t))
      <4> HIDE DEF u
      <4>2. u \o r # <<>>
        BY <1>2, <4>1, InFront DEF u
      <4> QED
        BY <2>2, <4>2, Zenon DEF u
    <3>3. todo' = Steps(Tail(t)) \o r /\ call' = "init" /\ undo' = <<>>
      BY <1>4, <2>2, <3>2
    <3>4. InitOpens'
      <4>1. (\E u \in Lefts : todo' = Steps(u) \o r)
        BY <2>4, <3>3
      <4> QED
        BY <1>4, <1>5, <1>7, <3>1, <3>3, <4>1 DEF InitOpens
    <3>5. Flags'
      BY <1>4, <3>1 DEF IInv, Flags
    <3> QED
      BY <3>4, <3>5 DEF Where
  <2>5. CASE Tail(t) = <<>> /\ Head(t) = "poll"
    <3>1. handle'.inited /\ ~ handle'.dmp_inited /\ ~ handle'.mag_inited
      BY <1>3, <1>4, <1>7, <2>3, <2>5, HandledIs
    <3>2. Tail(todo) = r
      <4>1. Steps(<<>>) = <<>>
        BY DEF Steps
      <4> QED
        BY <1>2, <2>2, <2>5, <4>1, ConcatEmptySeq
    <3>3. todo' = r /\ call' = "init" /\ undo' = <<>>
      BY <1>2, <1>4, <3>2
    <3>4. InitRuns'
      BY <1>4, <1>5, <3>1, <3>3 DEF InitRuns
    <3> QED
      BY <3>1, <3>4 DEF Flags, Where
  <2> QED
    BY <2>1, <2>4, <2>5
<1> QED
  BY <1>1, <1>6, <1>7

(* Where the steps that are left tell where it is, *)
LEMMA RunsOn ==
  ASSUME IInv, Advance, InitRuns, handle'.inited,
         Tail(todo) # <<>> =>
           \/ Tail(todo) \in Rests(mode.app)
           \/ mode.app \notin Dmps /\ Tail(todo) \in Raised /\ "iic_master" \notin chip'.on
           \/ mode.app \notin Dmps /\ Tail(todo) \in Mags /\ Through'
  PROVE  Where'
<1>1. todo \in Seq(AStep)
  BY TodoIs DEF Advance
<1>2. /\ mode' = mode /\ slips' = 0 /\ failed' = "none" /\ call = "init"
      /\ Tail(todo) # <<>> => todo' = Tail(todo) /\ call' = call /\ undo' = <<>>
      /\ Tail(todo) = <<>> => Returned(TRUE, slips, failed)
  BY <1>1, AdvanceIs DEF InitRuns
<1>3. CASE Tail(todo) = <<>>
  <2>1. Rested'
    BY <1>2, <1>3, RestedAfter
  <2> QED
    BY <2>1 DEF Where
<1>4. CASE Tail(todo) # <<>>
  <2>1. InitRuns'
    BY <1>2, <1>4 DEF InitRuns
  <2> QED
    BY <2>1 DEF Where
<1> QED
  BY <1>3, <1>4

(* with the firmware, *)
LEMMA AdvanceDmp ==
  ASSUME IInv, Advance, InitRuns, mode.app \in Dmps
  PROVE  Flags' /\ Where'
<1> DEFINE s == Head(todo)
<1>1. todo \in Seq(Starting) /\ todo # <<>> /\ handle.inited /\ handle \in Handles
  BY DEF InitRuns, Rests, DmpRests, Advance, IInv, Types
<1>2. s \in Starting /\ Tail(todo) \in Seq(Starting)
  BY <1>1, TailIs
<1>3. mode' = mode /\ handle' = Handled(s)
  BY <1>1, SeqsAre, AdvanceIs
<1>4. s.do \notin {"link", "poll", "mag_inited", "mag_closed", "close"}
  <2>1. CASE s \in Quiet
    BY <2>1, QuietIs DEF Loud, Begins, Ends
  <2>2. CASE s = Step("start")
    BY <2>2, StepIs
  <2> QED
    BY <1>2, <2>1, <2>2 DEF Starting
<1> HIDE DEF s
<1>5. handle'.inited /\ ~ handle'.mag_inited
  <2>1. ~ handle.mag_inited
    BY DEF IInv, Flags
  <2>2. CASE s.do = "start"
    BY <1>1, <1>3, <2>1, <2>2, HandledIs
  <2>3. CASE s.do # "start"
    <3>1. handle' = handle
      BY <1>1, <1>3, <1>4, <2>3, HandledIs
    <3> QED
      BY <1>1, <2>1, <3>1
  <2> QED
    BY <2>2, <2>3
<1>6. Flags'
  BY <1>3, <1>5 DEF Flags
<1>7. Tail(todo) # <<>> => Tail(todo) \in Rests(mode.app)
  BY <1>2 DEF Rests, DmpRests
<1>8. Where'
  BY <1>5, <1>7, RunsOn
<1> QED
  BY <1>6, <1>8

(* on the way to the magnetometer, *)
LEMMA DropIs ==
  ASSUME NEW w \in Seq(AStep), todo = Drop(<<"iic_master">>) \o w, Advance, IInv
  PROVE  /\ Tail(todo) = w /\ "iic_master" \notin chip'.on /\ handle' = handle
<1> DEFINE d == [do |-> "drop", opt |-> "iic_master"]
<1>1. d \in Quiet /\ todo = <<d>> \o w
  BY WayIs
<1>2. d \in AStep /\ d.do = "drop" /\ d.opt = "iic_master"
  BY <1>1, Kinds
<1>3. d.do \notin Loud
  BY <1>1, QuietIs
<1> HIDE DEF d
<1>4. Head(todo) = d /\ Tail(todo) = w /\ todo \in Seq(AStep)
  BY <1>1, <1>2, OneInFront, ZenonT(40)
<1>5. chip' \in Outcomes(d, chip) /\ handle' = Handled(d)
  BY <1>4, AdvanceIs
<1>6. "iic_master" \notin chip'.on
  BY <1>2, <1>5, OutcomesAre DEF IInv, Types
<1>7. handle' = handle
  BY <1>2, <1>5, HandledIs DEF IInv, Types
<1> QED
  BY <1>4, <1>6, <1>7

LEMMA RaiseIs ==
  ASSUME NEW w \in Seq(AStep), todo = Raise(<<"iic_bypass">>) \o w, Advance, IInv
  PROVE  /\ Tail(todo) = w /\ handle' = handle
         /\ "iic_master" \notin chip.on => Through'
<1> DEFINE d == [do |-> "raise", opt |-> "iic_bypass"]
<1>1. d \in Quiet /\ todo = <<d>> \o w
  BY WayIs
<1>2. d \in AStep /\ d.do = "raise" /\ d.opt = "iic_bypass"
  BY <1>1, Kinds
<1> HIDE DEF d
<1>4. Head(todo) = d /\ Tail(todo) = w /\ todo \in Seq(AStep)
  BY <1>1, <1>2, OneInFront, ZenonT(40)
<1>5. chip' \in Outcomes(d, chip) /\ handle' = Handled(d)
  BY <1>4, AdvanceIs
<1>6. "iic_master" \notin chip.on => Through'
  <2>1. chip'.on = chip.on \union {"iic_bypass"}
    BY <1>2, <1>5, OutcomesAre DEF IInv, Types
  <2> QED
    BY <2>1 DEF Through
<1>7. handle' = handle
  BY <1>2, <1>5, HandledIs DEF IInv, Types
<1> QED
  BY <1>4, <1>6, <1>7

(* and in front of it, with it, and behind it. *)
LEMMA AdvanceMag ==
  ASSUME IInv, Advance, InitRuns, mode.app \notin Dmps
  PROVE  Flags' /\ Where'
<1> DEFINE s == Head(todo)
<1>1. /\ todo \in Seq(AStep) /\ handle.inited /\ handle \in Handles
      /\ todo # <<>> /\ chip \in Chips /\ saved \subseteq Option
  BY TodoIs DEF InitRuns, Advance, IInv, Types
<1>2. /\ s \in AStep /\ mode' = mode /\ handle' = Handled(s) /\ chip' \in Outcomes(s, chip)
  BY <1>1, AdvanceIs
<1> HIDE DEF s
<1>3. ASSUME handle' = handle
      PROVE  Flags' /\ handle'.inited
  BY <1>1, <1>2, <1>3 DEF IInv, Flags
<1>4. ASSUME s \in Quiet PROVE handle' = handle
  <2>1. s.do \notin {"link", "poll", "start", "mag_inited", "mag_closed", "close"}
    BY <1>4, QuietIs DEF Loud, Begins, Ends
  <2> QED
    BY <1>1, <1>2, <2>1, HandledIs
<1>5. CASE todo \in Seq(Quiet)
  <2>1. s \in Quiet /\ Tail(todo) \in Seq(Quiet)
    BY <1>1, <1>5, TailIs DEF s
  <2>2. Tail(todo) # <<>> => Tail(todo) \in Rests(mode.app)
    BY <2>1 DEF Rests, MagRests
  <2> QED
    BY <1>3, <1>4, <2>1, <2>2, RunsOn
<1>6. ASSUME NEW p \in Seq(Quiet), NEW w \in Dropped, todo = p \o w
      PROVE  Flags' /\ Where'
  <2>1. p \in Seq(AStep) /\ w \in Seq(AStep)
    BY SeqsAre
  <2>2. CASE p = <<>>
    <3>1. PICK u \in Raised : w = Drop(<<"iic_master">>) \o u
      BY DEF Dropped
    <3>2. todo = Drop(<<"iic_master">>) \o u /\ u \in Seq(AStep)
      BY <1>6, <2>1, <2>2, <3>1, ConcatEmptySeq, SeqsAre
    <3>3. Tail(todo) \in Raised /\ "iic_master" \notin chip'.on /\ handle' = handle
      BY <3>2, DropIs
    <3> QED
      BY <1>3, <3>3, RunsOn
  <2>3. CASE p # <<>>
    <3>1. /\ Head(p \o w) = Head(p) /\ Tail(p \o w) = Tail(p) \o w
      BY <2>1, <2>3, InFront
    <3>2. Head(p) \in Quiet /\ Tail(p) \in Seq(Quiet)
      BY <2>3, TailIs
    <3>3. s \in Quiet
      BY <1>6, <3>1, <3>2, Zenon DEF s
    <3>4. Tail(todo) \in Rests(mode.app)
      <4> DEFINE u == Tail(p)
      <4>1. u \in Seq(Quiet)
        BY <3>2
      <4> HIDE DEF u
      <4>2. u \o w \in MagRests
        BY <4>1 DEF MagRests
      <4> QED
        BY <1>6, <3>1, <4>2, Zenon DEF Rests, u
    <3> QED
      BY <1>3, <1>4, <3>3, <3>4, RunsOn
  <2> QED
    BY <2>2, <2>3
<1>7. CASE todo \in Raised /\ "iic_master" \notin chip.on
  <2>1. PICK w \in Mags : todo = Raise(<<"iic_bypass">>) \o w
    BY <1>7 DEF Raised
  <2>2. Tail(todo) = w /\ handle' = handle /\ Through'
    BY <1>7, <2>1, SeqsAre, RaiseIs
  <2> QED
    BY <1>3, <2>2, RunsOn
<1>8. CASE todo \in Mags /\ Through
  <2>1. PICK q \in Seq(MagOn) \ {<<>>}, v \in Seq(Quiet) : todo = q \o v
    BY <1>8, SMTT(30) DEF Mags
  <2>2. q \in Seq(AStep) /\ v \in Seq(AStep)
    BY <2>1, SeqsAre
  <2>3. Head(q \o v) = Head(q) /\ Tail(q \o v) = Tail(q) \o v
    BY <2>1, <2>2, InFront
  <2>4. Head(q) \in MagOn /\ Tail(q) \in Seq(MagOn)
    BY <2>1, TailIs
  <2>5. s \in MagOn
    BY <2>1, <2>3, <2>4, Zenon DEF s
  <2>6. s.do \in MagSteps \union {"mag_inited"}
    BY <2>5, MagIs
  <2>7. s.do \in Loud \ {"init_reset", "power_down", "link", "poll", "start",
                         "mag_closed", "close"}
    BY <2>6 DEF Loud, MagSteps
  <2>8. chip' = chip
    BY <1>1, <1>2, <2>7, OutcomesAre
  <2>9. handle'.inited /\ Flags'
    <3>1. CASE s.do = "mag_inited"
      <4>1. (handle'.inited <=> handle.inited) /\ (handle'.dmp_inited <=> handle.dmp_inited)
        BY <1>1, <1>2, <3>1, HandledIs
      <4> QED
        BY <1>1, <1>2, <4>1 DEF IInv, Flags
    <3>2. CASE s.do # "mag_inited"
      <4>1. handle' = handle
        BY <1>1, <1>2, <2>7, <3>2, HandledIs
      <4> QED
        BY <1>3, <4>1
    <3> QED
      BY <3>1, <3>2
  <2>10. Through'
    BY <1>8, <2>8 DEF Through
  <2>11. CASE Tail(q) = <<>>
    <3>1. Tail(todo) = v
      BY <2>1, <2>2, <2>3, <2>11, ConcatEmptySeq
    <3>2. v # <<>> => v \in Rests(mode.app)
      BY DEF Rests, MagRests
    <3>3. Tail(todo) # <<>> => Tail(todo) \in Rests(mode.app)
      BY <3>1, <3>2, Zenon
    <3> QED
      BY <2>9, <3>3, RunsOn
  <2>12. CASE Tail(q) # <<>>
    <3> DEFINE u == Tail(q)
    <3> HIDE DEF u
    <3>1. u \o v \in Mags
      <4>1. u \in Seq(MagOn) \ {<<>>}
        BY <2>4, <2>12 DEF u
      <4> QED
        BY <4>1 DEF Mags
    <3>2. Tail(todo) \in Mags
      BY <2>1, <2>3, <3>1, Zenon DEF u
    <3> QED
      BY <2>9, <2>10, <3>2, RunsOn
  <2> QED
    BY <2>11, <2>12
<1>9. todo \in Rests(mode.app) =>
        todo \in Seq(Quiet) \/ \E p \in Seq(Quiet) : \E w \in Dropped : todo = p \o w
  BY DEF Rests, MagRests
<1> QED
  BY <1>5, <1>6, <1>7, <1>8, <1>9 DEF InitRuns

-----------------------------------------------------------------------------
(* An init in which a transfer fails. *)
LEMMA SlipOpens ==
  ASSUME IInv, Slip, InitOpens
  PROVE  Flags' /\ Where'
<1> DEFINE s == Head(todo)
<1>1. PICK r \in Rests(mode.app) :
        \/ todo = First \o r
        \/ (\E t \in Lefts : todo = Steps(t) \o r)
             /\ ~ handle.inited /\ ~ handle.mag_inited
  BY DEF InitOpens
<1>2. r \in Seq(AStep) /\ r # <<>>
  BY RestsAre
<1>3. todo \in Seq(AStep)
  BY TodoIs DEF Slip
<1>4. /\ s.do \notin NoTransfer /\ mode' = mode /\ handle' = handle
      /\ failed' = IF s.opt = "none" THEN s.do ELSE s.opt
  BY <1>3, SlipIs DEF InitOpens
<1>5. todo # First \o r
  <2> SUFFICES ASSUME todo = First \o r PROVE FALSE
    OBVIOUS
  <2>1. Init9250 \in Seq(AStep) /\ Step("link") \in AStep
    <3>1. <<"open", "identify", "init_reset", "poll">> \in Lefts
      BY DEF Lefts
    <3> QED
      BY <3>1, LeftsAre, StepIs DEF Init9250, Loud, Begins
  <2>2. Head(First) = Step("link")
    BY <2>1, OneInFront DEF First
  <2>3. Head(First \o r) = Head(First)
    BY <1>2, FirstIs, InFront
  <2>4. s.do = "link"
    BY <2>2, <2>3, StepIs
  <2> QED
    BY <1>4, <2>4 DEF NoTransfer
<1>6. PICK t \in Lefts : todo = Steps(t) \o r
  BY <1>1, <1>5
<1>7. ~ handle.inited /\ ~ handle.mag_inited /\ ~ handle.dmp_inited
  BY <1>1, <1>5 DEF IInv, Flags
<1>8. s = Step(Head(t)) /\ Head(t) \in {"open", "identify", "init_reset", "poll"}
  <2>1. /\ Steps(t) \in Seq(AStep) /\ Steps(t) # <<>>
        /\ Head(Steps(t)) = Step(Head(t))
        /\ Head(t) \in {"open", "identify", "init_reset", "poll"}
    BY LeftsAre
  <2> DEFINE u == Steps(t)
  <2>2. u \in Seq(AStep) /\ u # <<>> /\ todo = u \o r
    BY <1>6, <2>1
  <2> HIDE DEF u
  <2>3. Head(u \o r) = Head(u)
    BY <1>2, <2>2, InFront
  <2> QED
    BY <2>1, <2>2, <2>3, Zenon DEF u
<1>9. failed' \in {"open", "identify", "init_reset", "poll"}
  BY <1>4, <1>8, StepIs
<1>10. Returned(FALSE, slips', failed')
  <2>1. Cleanup(s) = <<>>
    BY <1>7 DEF Cleanup
  <2> QED
    BY <1>3, <2>1, SlipIs DEF InitOpens
<1>11. Rested'
  BY <1>4, <1>7, <1>9, <1>10, RestedAfter DEF InitOpens
<1>12. Flags'
  BY <1>4 DEF IInv, Flags
<1> QED
  BY <1>11, <1>12 DEF Where

LEMMA CleanupIs ==
  ASSUME NEW s, handle.inited
  PROVE  \/ Cleanup(s) = <<Deinit>> /\ (mode.app \in Dmps \/ ~ handle.mag_inited
                                          \/ s.opt = "fifo")
         \/ Cleanup(s) = <<MagDeinit, Deinit>>
         \/ Cleanup(s) = <<Off(<<"fifo">>), MagDeinit, Deinit>>
BY DEF Cleanup

LEMMA SlipRuns ==
  ASSUME IInv, Slip, InitRuns
  PROVE  Flags' /\ Where'
<1> DEFINE s == Head(todo)
<1>1. todo \in Seq(AStep) /\ todo # <<>>
  BY TodoIs DEF Slip
<1>2. /\ s \in AStep /\ mode' = mode /\ handle' = handle
      /\ Answers(s) => slips' = 1
      /\ failed' = IF s.opt = "none" THEN s.do ELSE s.opt
      /\ call = "init" /\ handle.inited
      /\ \A u : u = Cleanup(s) =>
           /\ u = <<>> => Returned(FALSE, slips', failed')
           /\ u # <<>> => Goes(u)
  <2>1. call = "init" /\ failed = "none" /\ slips = 0 /\ handle.inited
    BY DEF InitRuns
  <2>2. /\ s \in AStep /\ mode' = mode /\ handle' = handle
        /\ Answers(s) => slips' = slips + 1
        /\ failed' = IF s.opt = "none" THEN s.do ELSE s.opt
    BY <1>1, <2>1, SlipIs
  <2>3. \A u : u = (IF failed = "none" THEN Cleanup(s) ELSE undo) =>
          /\ u = <<>> => Returned(FALSE, slips', failed')
          /\ u # <<>> => Goes(u)
    BY <1>1, <2>1, SlipIs
  <2>4. (IF failed = "none" THEN Cleanup(s) ELSE undo) = Cleanup(s)
    BY <2>1
  <2>5. \A u : u = Cleanup(s) =>
          /\ u = <<>> => Returned(FALSE, slips', failed')
          /\ u # <<>> => Goes(u)
    BY <2>3, <2>4, Zenon
  <2>6. Answers(s) => slips' = 1
    BY <2>1, <2>2
  <2> QED
    BY <2>1, <2>2, <2>5, <2>6, Zenon
<1>3. s \in Starting \/ (s \in MagOn /\ Through)
  <2>1. ASSUME NEW Q, NEW q \in Seq(Q), q # <<>>, NEW w \in Seq(AStep), Q \subseteq AStep,
               todo = q \o w
        PROVE  s \in Q
    <3>1. q \in Seq(AStep)
      BY <2>1
    <3>2. Head(q \o w) = Head(q) /\ Head(q) \in Q
      BY <2>1, <3>1, InFront, TailIs
    <3> QED
      BY <2>1, <3>2, Zenon
  <2>2. ASSUME NEW p \in Seq(Quiet), NEW w \in Dropped, todo = p \o w PROVE s \in Starting
    <3>1. p \in Seq(AStep) /\ w \in Seq(AStep)
      BY SeqsAre
    <3>2. CASE p # <<>>
      BY <2>1, <2>2, <3>1, <3>2, Kinds
    <3>3. CASE p = <<>>
      <4>1. PICK u \in Raised : w = Drop(<<"iic_master">>) \o u
        BY DEF Dropped
      <4>2. todo = Drop(<<"iic_master">>) \o u /\ u \in Seq(AStep)
        BY <2>2, <3>1, <3>3, <4>1, ConcatEmptySeq, SeqsAre
      <4> DEFINE d == [do |-> "drop", opt |-> "iic_master"]
      <4>3. d \in Quiet /\ todo = <<d>> \o u
        BY <4>2, WayIs
      <4> HIDE DEF d
      <4>4. d \in AStep
        BY <4>3, Kinds
      <4> QED
        BY <4>2, <4>3, <4>4, OneInFront, Kinds
    <3> QED
      BY <3>2, <3>3
  <2>3. CASE todo \in Rests(mode.app)
    <3>1. CASE todo \in Seq(Starting)
      BY <1>1, <3>1, TailIs
    <3>2. CASE todo \in Seq(Quiet)
      BY <1>1, <3>2, TailIs, Kinds
    <3>3. CASE \E p \in Seq(Quiet) : \E w \in Dropped : todo = p \o w
      BY <2>2, <3>3
    <3> QED
      BY <2>3, <3>1, <3>2, <3>3, SMTT(30) DEF Rests, DmpRests, MagRests
  <2>4. CASE todo \in Raised
    <3>1. PICK u \in Mags : todo = Raise(<<"iic_bypass">>) \o u
      BY <2>4 DEF Raised
    <3> DEFINE d == [do |-> "raise", opt |-> "iic_bypass"]
    <3>2. d \in Quiet /\ todo = <<d>> \o u /\ u \in Seq(AStep)
      BY <3>1, WayIs, SeqsAre
    <3> HIDE DEF d
    <3>3. d \in AStep
      BY <3>2, Kinds
    <3> QED
      BY <3>2, <3>3, OneInFront, Kinds
  <2>5. CASE todo \in Mags /\ Through
    <3>1. PICK q \in Seq(MagOn) \ {<<>>}, v \in Seq(Quiet) : todo = q \o v
      BY <2>5 DEF Mags
    <3>2. v \in Seq(AStep)
      BY SeqsAre
    <3> QED
      BY <2>1, <2>5, <3>1, <3>2, Kinds
  <2> QED
    BY <2>3, <2>4, <2>5 DEF InitRuns
<1> HIDE DEF s
<1>4. Answers(s) /\ s.do # "none"
  <2>1. CASE s \in Quiet
    BY <2>1, QuietIs
  <2>2. CASE s = Step("start")
    BY <2>2, StepIs DEF Answers, MagSteps
  <2>3. CASE s \in MagOn /\ Through
    BY <2>3, MagIs DEF MagSteps
  <2> QED
    BY <1>3, <2>1, <2>2, <2>3 DEF Starting
<1>5. slips' = 1 /\ failed' # "none" /\ (s.opt = "fifo" => failed' = "fifo")
  BY <1>2, <1>4
<1>6. Flags'
  BY <1>2 DEF IInv, Flags
<1>7. CASE Cleanup(s) = <<Deinit>> /\ (mode.app \in Dmps \/ ~ handle.mag_inited
                                         \/ s.opt = "fifo")
  <2> DEFINE u == <<Deinit>>
  <2>4. u # <<>> /\ Head(u) = Deinit /\ Tail(u) = <<>>
    OBVIOUS
  <2> HIDE DEF u
  <2>5. Cleanup(s) = u
    BY <1>7 DEF u
  <2>1. todo' = Deinit /\ undo' = <<>> /\ call' = "init"
    BY <1>2, <2>4, <2>5 DEF Goes
  <2>2. handle'.mag_inited => failed' = "fifo"
    BY <1>2, <1>5, <1>7 DEF IInv, Flags
  <2>3. InitCloses'
    BY <1>5, <2>1, <2>2 DEF InitCloses
  <2> QED
    BY <1>6, <2>3 DEF Where
<1>8. CASE Cleanup(s) = <<MagDeinit, Deinit>>
  <2> DEFINE u == <<MagDeinit, Deinit>>
  <2>4. u # <<>> /\ Head(u) = MagDeinit /\ Tail(u) = <<Deinit>>
    OBVIOUS
  <2> HIDE DEF u
  <2>5. Cleanup(s) = u
    BY <1>8 DEF u
  <2>1. todo' = MagDeinit /\ undo' = <<Deinit>> /\ call' = "init"
    BY <1>2, <2>4, <2>5 DEF Goes
  <2>2. InitCloses'
    BY <1>5, <2>1 DEF InitCloses
  <2> QED
    BY <1>6, <2>2 DEF Where
<1>9. CASE Cleanup(s) = <<Off(<<"fifo">>), MagDeinit, Deinit>>
  <2> DEFINE o == Off(<<"fifo">>)
  <2> HIDE DEF o
  <2> DEFINE u == <<o, MagDeinit, Deinit>>
  <2>4. u # <<>> /\ Head(u) = o /\ Tail(u) = <<MagDeinit, Deinit>>
    OBVIOUS
  <2> HIDE DEF u
  <2>5. Cleanup(s) = u
    BY <1>9 DEF u, o
  <2>6. todo' = o /\ undo' = <<MagDeinit, Deinit>> /\ call' = "init"
    BY <1>2, <2>4, <2>5 DEF Goes
  <2>1. todo' = Off(<<"fifo">>) /\ undo' = <<MagDeinit, Deinit>> /\ call' = "init"
    BY <2>6 DEF o
  <2>2. InitCloses'
    BY <1>5, <2>1 DEF InitCloses
  <2> QED
    BY <1>6, <2>2 DEF Where
<1> QED
  BY <1>2, <1>7, <1>8, <1>9, CleanupIs

-----------------------------------------------------------------------------
(* An init that takes back what it has done. *)
LEMMA AdvanceCloses ==
  ASSUME IInv, Advance, InitCloses
  PROVE  Flags' /\ Where'
<1> DEFINE s == Head(todo)
<1>1. /\ todo \in Seq(AStep) /\ handle \in Handles /\ todo # <<>>
      /\ chip \in Chips /\ saved \subseteq Option
  BY TodoIs DEF Advance, IInv, Types
<1>2. /\ s \in AStep /\ mode' = mode /\ slips' = slips /\ failed' = failed
      /\ chip' \in Outcomes(s, chip) /\ handle' = Handled(s)
      /\ call = "init" /\ failed # "none" /\ slips # 0
      /\ Tail(todo) # <<>> => todo' = Tail(todo) /\ call' = call /\ undo' = undo
      /\ Tail(todo) = <<>> /\ undo = <<>> => Returned(FALSE, slips, failed)
      /\ Tail(todo) = <<>> /\ undo # <<>> => Goes(undo)
  BY <1>1, AdvanceIs DEF InitCloses
<1> HIDE DEF s
<1>3. ASSUME handle' = handle PROVE Flags'
  BY <1>2, <1>3 DEF IInv, Flags
<1>4. Last \in Seq(AStep) /\ Last # <<>> /\ Raise(<<"iic_bypass">>) \o Last \in Seq(AStep)
      /\ Raise(<<"iic_bypass">>) \o Last # <<>>
  <2>1. Last \in Seq(AStep) /\ Last # <<>>
    BY LastIs, SeqsAre
  <2> QED
    BY <2>1, WaySeq, InFront
<1>5. CASE todo = Off(<<"fifo">>) /\ undo = <<MagDeinit, Deinit>>
  <2>1. s.do = "off" /\ Tail(todo) = <<>>
    BY <1>5, OffFifo DEF s
  <2>2. handle' = handle
    BY <1>1, <1>2, <2>1, HandledIs
  <2>3. todo' = MagDeinit /\ undo' = <<Deinit>> /\ call' = call
    <3>1. /\ Head(<<MagDeinit, Deinit>>) = MagDeinit
          /\ Tail(<<MagDeinit, Deinit>>) = <<Deinit>>
      OBVIOUS
    <3> QED
      BY <1>2, <1>5, <2>1, <3>1 DEF Goes
  <2>4. InitCloses'
    BY <1>2, <2>3 DEF InitCloses
  <2> QED
    BY <1>3, <2>2, <2>4 DEF Where
<1>6. CASE todo = MagDeinit /\ undo = <<Deinit>>
  <2>1. /\ Tail(todo) = Raise(<<"iic_bypass">>) \o Last
        /\ "iic_master" \notin chip'.on /\ handle' = handle
    BY <1>4, <1>6, MagDeinitIs, DropIs
  <2>2. todo' = Raise(<<"iic_bypass">>) \o Last /\ call' = call /\ undo' = <<Deinit>>
    BY <1>2, <1>4, <1>6, <2>1
  <2>3. InitCloses'
    BY <1>2, <2>1, <2>2 DEF InitCloses
  <2> QED
    BY <1>3, <2>1, <2>3 DEF Where
<1>7. CASE /\ undo = <<Deinit>> /\ todo = Raise(<<"iic_bypass">>) \o Last
           /\ slips = 1 => "iic_master" \notin chip.on
  <2>1. Tail(todo) = Last /\ handle' = handle /\ (slips = 1 => Through')
    BY <1>4, <1>7, RaiseIs
  <2>2. todo' = Last /\ call' = call /\ undo' = <<Deinit>>
    BY <1>2, <1>4, <1>7, <2>1
  <2>3. todo' \in Seq(MagOff) \ {<<>>} /\ Has(todo', "mag_closed")
    BY <2>2, LastIs
  <2>4. InitCloses'
    BY <1>2, <2>1, <2>2, <2>3 DEF InitCloses
  <2> QED
    BY <1>3, <2>1, <2>4 DEF Where
<1>8. CASE /\ undo = <<Deinit>> /\ todo \in Seq(MagOff) \ {<<>>}
           /\ slips = 1 => Through /\ (handle.mag_inited => Has(todo, "mag_closed"))
  <2>1. s \in MagOff /\ Tail(todo) \in Seq(MagOff)
    BY <1>8, TailIs DEF s
  <2>2. s.do \in {"wia", "mag_down", "mag_closed"}
    BY <2>1, MagIs
  <2>3. chip' = chip
    <3>1. s.do \in Loud \ {"init_reset", "power_down"}
      BY <2>2 DEF Loud, MagSteps
    <3> QED
      BY <1>1, <1>2, <3>1, OutcomesAre
  <2>4. Flags' /\ (handle'.mag_inited => handle.mag_inited /\ s.do # "mag_closed")
    <3>1. CASE s.do = "mag_closed"
      <4>1. /\ ~ handle'.mag_inited /\ (handle'.inited <=> handle.inited)
            /\ (handle'.dmp_inited <=> handle.dmp_inited)
        BY <1>1, <1>2, <3>1, HandledIs
      <4> QED
        BY <1>2, <4>1 DEF IInv, Flags
    <3>2. CASE s.do # "mag_closed"
      <4>1. handle' = handle
        BY <1>1, <1>2, <2>2, <3>2, HandledIs
      <4> QED
        BY <1>3, <3>2, <4>1
    <3> QED
      BY <3>1, <3>2
  <2>5. slips = 1 => Through' /\ (handle'.mag_inited => Has(Tail(todo), "mag_closed"))
    <3> SUFFICES ASSUME slips = 1
                 PROVE  Through' /\ (handle'.mag_inited => Has(Tail(todo), "mag_closed"))
      OBVIOUS
    <3>1. Through'
      BY <1>8, <2>3 DEF Through
    <3>2. ASSUME handle'.mag_inited PROVE Has(Tail(todo), "mag_closed")
      <4>1. Has(todo, "mag_closed") /\ Head(todo).do # "mag_closed"
        BY <1>8, <2>4, <3>2 DEF s
      <4> QED
        BY <1>1, <4>1, HasTail
    <3> QED
      BY <3>1, <3>2
  <2>6. CASE Tail(todo) # <<>>
    <3>1. todo' = Tail(todo) /\ call' = call /\ undo' = <<Deinit>>
      BY <1>2, <1>8, <2>6
    <3>2. InitCloses'
      BY <1>2, <2>1, <2>5, <2>6, <3>1 DEF InitCloses
    <3> QED
      BY <2>4, <3>2 DEF Where
  <2>7. CASE Tail(todo) = <<>>
    <3>1. todo' = Deinit /\ undo' = <<>> /\ call' = call
      BY <1>2, <1>8, <2>7 DEF Goes
    <3>2. slips = 1 => ~ handle'.mag_inited
      BY <2>5, <2>7, HasNot
    <3>3. InitCloses'
      BY <1>2, <3>1, <3>2 DEF InitCloses
    <3> QED
      BY <2>4, <3>3 DEF Where
  <2> QED
    BY <2>6, <2>7
<1>9. CASE /\ undo = <<>> /\ todo = Deinit
           /\ slips = 1 => (handle.mag_inited => failed = "fifo")
  <2>1. s.do = "power_down" /\ Tail(todo) = Close /\ Close # <<>>
    BY <1>9, CloseIs, StepIs DEF s
  <2>2. handle' = handle /\ "sleep" \in chip'.on
    BY <1>1, <1>2, <2>1, HandledIs, OutcomesAre
  <2>3. todo' = Close /\ call' = call /\ undo' = <<>>
    BY <1>2, <1>9, <2>1
  <2>4. InitCloses'
    BY <1>2, <1>9, <2>2, <2>3 DEF InitCloses, Asleep
  <2> QED
    BY <1>3, <2>2, <2>4 DEF Where
<1>10. CASE /\ undo = <<>> /\ todo = Close /\ (slips = 1 => Asleep)
            /\ slips = 1 => (handle.mag_inited => failed = "fifo")
  <2>1. s.do = "close" /\ Tail(todo) = <<>>
    BY <1>10, CloseIs, StepIs DEF s
  <2>2. /\ ~ handle'.inited /\ ~ handle'.dmp_inited
        /\ (handle'.mag_inited <=> handle.mag_inited)
    BY <1>1, <1>2, <2>1, HandledIs
  <2>3. chip' = chip
    <3>1. s.do \in Loud \ {"init_reset", "power_down"}
      BY <2>1 DEF Loud, Ends
    <3> QED
      BY <1>1, <1>2, <3>1, OutcomesAre
  <2>4. Returned(FALSE, slips, failed)
    BY <1>2, <1>10, <2>1
  <2>5. slips = 1 => "sleep" \in chip'.on /\ (handle'.mag_inited => failed = "fifo")
    BY <1>10, <2>2, <2>3 DEF Asleep
  <2>6. Rested'
    BY <1>2, <2>2, <2>4, <2>5, RestedAfter
  <2>7. Flags'
    BY <1>2, <2>2 DEF IInv, Flags
  <2> QED
    BY <2>6, <2>7 DEF Where
<1> QED
  BY <1>5, <1>6, <1>7, <1>8, <1>9, <1>10 DEF InitCloses

LEMMA SlipCloses ==
  ASSUME IInv, Slip, InitCloses
  PROVE  Flags' /\ Where'
<1> DEFINE s == Head(todo)
<1>1. todo \in Seq(AStep) /\ todo # <<>>
  BY TodoIs DEF Slip
<1>2. /\ s \in AStep /\ s.do \notin NoTransfer /\ mode' = mode /\ handle' = handle
      /\ Answers(s) => slips' = slips + 1
      /\ ~ Answers(s) => slips' = slips
      /\ failed' = failed
  BY <1>1, SlipIs DEF InitCloses
<1>3. /\ undo = <<>> => Returned(FALSE, slips', failed')
      /\ undo # <<>> => Goes(undo)
  <2>1. call = "init" /\ failed # "none"
    BY DEF InitCloses
  <2>2. \A u : u = (IF failed = "none" THEN Cleanup(Head(todo)) ELSE undo) =>
          /\ u = <<>> => Returned(FALSE, slips', failed')
          /\ u # <<>> => Goes(u)
    BY <1>1, <2>1, SlipIs
  <2>3. (IF failed = "none" THEN Cleanup(Head(todo)) ELSE undo) = undo
    BY <2>1
  <2> QED
    BY <2>2, <2>3, Zenon
<1>4. call = "init" /\ failed # "none" /\ slips # 0 /\ slips \in Nat
  BY ModesAssumption DEF InitCloses, IInv, Types
<1> HIDE DEF s
<1>5. Flags'
  BY <1>2 DEF IInv, Flags
<1>6. ASSUME slips = 1 => Answers(s)
      PROVE  slips' # 1 /\ slips' # 0
  BY <1>2, <1>4, <1>6
<1>7. s.do \in Switches \union {"power_down"} => Answers(s)
  BY DEF Answers, MagSteps, Switches
<1>8. CASE todo = Off(<<"fifo">>) /\ undo = <<MagDeinit, Deinit>>
  <2>1. s.do = "off"
    BY <1>8, OffFifo DEF s
  <2>2. slips' # 1 /\ slips' # 0
    BY <1>6, <1>7, <2>1 DEF Switches
  <2> DEFINE u == <<MagDeinit, Deinit>>
  <2>3. u # <<>> /\ Head(u) = MagDeinit /\ Tail(u) = <<Deinit>>
    OBVIOUS
  <2> HIDE DEF u
  <2>4. undo = u
    BY <1>8 DEF u
  <2>5. todo' = MagDeinit /\ undo' = <<Deinit>> /\ call' = "init"
    BY <1>3, <1>4, <2>3, <2>4 DEF Goes
  <2>6. InitCloses'
    BY <1>2, <1>4, <2>2, <2>5 DEF InitCloses
  <2> QED
    BY <1>5, <2>6 DEF Where
<1>9. CASE /\ undo = <<Deinit>>
           /\ \/ todo = MagDeinit
              \/ todo = Raise(<<"iic_bypass">>) \o Last
              \/ /\ todo \in Seq(MagOff) \ {<<>>}
                 /\ slips = 1 => Through
  <2>1. Last \in Seq(AStep) /\ Last # <<>> /\ Raise(<<"iic_bypass">>) \o Last \in Seq(AStep)
    <3>1. Last \in Seq(AStep) /\ Last # <<>>
      BY LastIs, SeqsAre
    <3> QED
      BY <3>1, WaySeq, ConcatSeq
  <2>2. ASSUME todo = MagDeinit PROVE Answers(s)
    <3> DEFINE d == [do |-> "drop", opt |-> "iic_master"]
               w == Raise(<<"iic_bypass">>) \o Last
    <3>1. w \in Seq(AStep) /\ todo = Drop(<<"iic_master">>) \o w
      BY <2>1, <2>2, MagDeinitIs
    <3> HIDE DEF w
    <3>2. d \in Quiet /\ todo = <<d>> \o w
      BY <3>1, WayIs
    <3> HIDE DEF d
    <3>3. d \in AStep /\ Answers(d)
      BY <3>2, Kinds, QuietIs
    <3> QED
      BY <3>1, <3>2, <3>3, OneInFront DEF s
  <2>3. ASSUME todo = Raise(<<"iic_bypass">>) \o Last PROVE Answers(s)
    <3> DEFINE d == [do |-> "raise", opt |-> "iic_bypass"]
    <3>2. d \in Quiet /\ todo = <<d>> \o Last
      BY <2>1, <2>3, WayIs
    <3> HIDE DEF d
    <3>3. d \in AStep /\ Answers(d)
      BY <3>2, Kinds, QuietIs
    <3> QED
      BY <2>1, <3>2, <3>3, OneInFront DEF s
  <2>4. ASSUME todo \in Seq(MagOff) \ {<<>>}, slips = 1 => Through
        PROVE  slips = 1 => Answers(s)
    <3>1. s \in MagOff
      BY <2>4, TailIs DEF s
    <3> QED
      BY <2>4, <3>1, MagIs
  <2>5. slips = 1 => Answers(s)
    BY <1>9, <2>2, <2>3, <2>4
  <2>6. slips' # 1 /\ slips' # 0
    BY <1>6, <2>5
  <2> DEFINE u == <<Deinit>>
  <2>7. u # <<>> /\ Head(u) = Deinit /\ Tail(u) = <<>>
    OBVIOUS
  <2> HIDE DEF u
  <2>8. undo = u
    BY <1>9 DEF u
  <2>9. todo' = Deinit /\ undo' = <<>> /\ call' = "init"
    BY <1>3, <1>4, <2>7, <2>8 DEF Goes
  <2>10. InitCloses'
    BY <1>2, <1>4, <2>6, <2>9 DEF InitCloses
  <2> QED
    BY <1>5, <2>10 DEF Where
<1>10. CASE undo = <<>> /\ todo = Deinit
  <2>1. s.do = "power_down"
    BY <1>10, CloseIs, StepIs DEF s
  <2>2. slips' # 1
    BY <1>6, <1>7, <2>1
  <2>3. Returned(FALSE, slips', failed')
    BY <1>3, <1>10
  <2>4. Rested'
    BY <1>4, <2>2, <2>3, RestedAfter
  <2> QED
    BY <1>5, <2>4 DEF Where
<1>11. todo # Close
  <2>1. todo = Close => s.do = "close"
    BY CloseIs, StepIs DEF s
  <2> QED
    BY <1>2, <2>1 DEF NoTransfer
<1> QED
  BY <1>8, <1>9, <1>10, <1>11 DEF InitCloses

-----------------------------------------------------------------------------
(* A deinit. *)
LEMMA LeavingIs ==
  ASSUME NEW s \in Leaving
  PROVE  s.do \in Switches \union {"wia", "mag_down", "mag_closed", "refuse"}
<1>1. CASE s \in MagOff
  BY <1>1, MagIs
<1>2. CASE s = Step("refuse")
  BY <1>2, StepIs
<1>3. CASE s \in [do : Switches, opt : Option]
  BY <1>3
<1> QED
  BY <1>1, <1>2, <1>3 DEF Leaving

LEMMA AdvanceDeinits ==
  ASSUME IInv, Advance, Deinits
  PROVE  Flags' /\ Where'
<1> DEFINE s == Head(todo)
<1>1. /\ todo \in Seq(AStep) /\ handle \in Handles /\ todo # <<>>
      /\ chip \in Chips /\ saved \subseteq Option /\ Types
  BY TodoIs DEF Advance, IInv, Types
<1>2. /\ s \in AStep /\ Answers(s) /\ mode' = mode /\ failed' = "none"
      /\ chip' \in Outcomes(s, chip) /\ handle' = Handled(s) /\ mag' = MagAfter(s)
      /\ call = "deinit"
      /\ Tail(todo) # <<>> => todo' = Tail(todo) /\ call' = call /\ undo' = <<>>
      /\ Tail(todo) = <<>> => Returned(TRUE, slips, failed)
  BY <1>1, AdvanceIs DEF Deinits
<1> HIDE DEF s
<1>3. ASSUME handle' = handle PROVE Flags'
  BY <1>2, <1>3 DEF IInv, Flags
<1>4. Spins' <=> Spins
  BY <1>2 DEF Spins
<1>5. CASE todo = Close /\ Asleep /\ (Spins => mag = "down")
  <2>1. s.do = "close" /\ Tail(todo) = <<>>
    BY <1>5, CloseIs, StepIs DEF s
  <2>2. ~ handle'.inited /\ ~ handle'.dmp_inited /\ (handle'.mag_inited <=> handle.mag_inited)
    BY <1>1, <1>2, <2>1, HandledIs
  <2>3. chip' = chip
    <3>1. s.do \in Loud \ {"init_reset", "power_down"}
      BY <2>1 DEF Loud, Ends
    <3> QED
      BY <1>1, <1>2, <3>1, OutcomesAre
  <2>4. mag' = mag
    BY <1>1, <1>2, <2>1, OthersAre
  <2>5. Returned(TRUE, slips, failed)
    BY <1>2, <2>1
  <2>6. /\ ~ handle'.inited /\ "sleep" \in chip'.on
        /\ mode'.app \notin Dmps /\ mode'.bus = "iic" => mag' = "down"
    BY <1>2, <1>5, <2>2, <2>3, <2>4 DEF Asleep, Spins
  <2>7. Rested'
    BY <1>2, <2>5, <2>6, RestedAfter
  <2>8. Flags'
    BY <1>2, <2>2 DEF IInv, Flags
  <2> QED
    BY <2>7, <2>8 DEF Where
<1>6. ASSUME NEW m \in Seq(Leaving), todo = m \o Deinit,
             Spins /\ mag # "down" => Has(m, "mag_down") \/ Has(m, "refuse")
      PROVE  Flags' /\ Where'
  <2>1. CASE m = <<>>
    <3>1. todo = Deinit
      BY <1>6, <2>1, CloseIs, ConcatEmptySeq
    <3>2. s.do = "power_down" /\ Tail(todo) = Close /\ Close # <<>>
      BY <3>1, CloseIs, StepIs DEF s
    <3>3. handle' = handle /\ "sleep" \in chip'.on /\ mag' = mag
      BY <1>1, <1>2, <3>2, HandledIs, OutcomesAre, OthersAre
    <3>4. todo' = Close /\ call' = "deinit" /\ undo' = <<>>
      BY <1>2, <3>2
    <3>5. Spins => mag = "down"
      BY <1>6, <2>1, HasNot
    <3>6. Asleep' /\ (Spins' => mag' = "down")
      BY <1>4, <3>3, <3>5 DEF Asleep
    <3>7. Deinits'
      BY <1>2, <3>4, <3>6 DEF Deinits
    <3> QED
      BY <1>3, <3>3, <3>7 DEF Where
  <2>2. CASE m # <<>>
    <3> DEFINE n == Tail(m)
    <3>1. m \in Seq(AStep) /\ Head(m) \in Leaving /\ n \in Seq(Leaving) /\ n \in Seq(AStep)
      BY <2>2, TailIs, SeqsAre
    <3>2. s = Head(m) /\ Tail(todo) = n \o Deinit
      <4>1. Deinit \in Seq(AStep)
        BY CloseIs
      <4>2. Head(m \o Deinit) = Head(m) /\ Tail(m \o Deinit) = Tail(m) \o Deinit
        BY <2>2, <3>1, <4>1, InFront
      <4> QED
        BY <1>6, <4>2, Zenon DEF s
    <3>3. Has(m, "mag_down") /\ s.do # "mag_down" => Has(n, "mag_down")
      BY <2>2, <3>2, HasTail
    <3>4. Has(m, "refuse") /\ s.do # "refuse" => Has(n, "refuse")
      BY <2>2, <3>2, HasTail
    <3> HIDE DEF n
    <3>5. s.do \in Switches \union {"wia", "mag_down", "mag_closed"}
      BY <1>2, <3>1, <3>2, LeavingIs DEF Answers
    <3>6. /\ mag' \in {mag, "down"}
          /\ s.do = "mag_down" => mag' = "down"
      <4>1. s.do = "mag_down" => MagAfter(s) = "down"
        BY <1>1, <1>2, OthersAre
      <4>2. s.do # "mag_down" => s.do \notin {"mag_reset", "mag_down", "mag_rom", "mag_mode"}
        BY <3>5 DEF Switches
      <4>3. s.do # "mag_down" => MagAfter(s) = mag
        BY <1>1, <1>2, <4>2, OthersAre
      <4> QED
        BY <1>2, <4>1, <4>3
    <3>7. Spins' /\ mag' # "down" => Has(n, "mag_down") \/ Has(n, "refuse")
      <4>1. s.do # "refuse"
        BY <1>2 DEF Answers
      <4> QED
        BY <1>4, <1>6, <3>3, <3>4, <3>6, <4>1
    <3>8. Tail(todo) # <<>>
      <4>1. CASE n = <<>>
        BY <3>2, <4>1, CloseIs, ConcatEmptySeq
      <4>2. CASE n # <<>>
        <5>1. Deinit \in Seq(AStep)
          BY CloseIs
        <5>2. n \o Deinit # <<>>
          BY <3>1, <4>2, <5>1, InFront
        <5> QED
          BY <3>2, <5>2, Zenon
      <4> QED
        BY <4>1, <4>2
    <3>9. todo' = n \o Deinit /\ call' = "deinit" /\ undo' = <<>>
      BY <1>2, <3>2, <3>8
    <3>10. Deinits'
      <4>1. n \in Before(Spins' /\ mag' # "down")
        BY <3>1, <3>7, Zenon DEF Before
      <4>2. \E k \in Before(Spins' /\ mag' # "down") : todo' = k \o Deinit
        BY <3>9, <4>1, Zenon
      <4> QED
        BY <1>2, <3>9, <4>2, Zenon DEF Deinits
    <3>11. Flags'
      <4>1. CASE s.do = "mag_closed"
        <5>1. /\ ~ handle'.mag_inited /\ (handle'.inited <=> handle.inited)
              /\ (handle'.dmp_inited <=> handle.dmp_inited)
          BY <1>1, <1>2, <4>1, HandledIs
        <5> QED
          BY <1>2, <5>1 DEF IInv, Flags
      <4>2. CASE s.do # "mag_closed"
        <5>1. s.do \notin {"link", "poll", "start", "mag_inited", "mag_closed", "close"}
          BY <3>5, <4>2 DEF Switches
        <5> QED
          BY <1>1, <1>2, <1>3, <5>1, HandledIs
      <4> QED
        BY <4>1, <4>2
    <3> QED
      BY <3>10, <3>11 DEF Where
  <2> QED
    BY <2>1, <2>2
<1>7. ASSUME NEW m \in Before(Spins /\ mag # "down"), todo = m \o Deinit
      PROVE  Flags' /\ Where'
  <2>1. /\ m \in Seq(Leaving)
        /\ Spins /\ mag # "down" => Has(m, "mag_down") \/ Has(m, "refuse")
    BY Zenon DEF Before
  <2> QED
    BY <1>6, <1>7, <2>1
<1> QED
  BY <1>5, <1>7, Zenon DEF Deinits

(* A read or an irq_handler. *)
LEMMA AdvanceReads ==
  ASSUME IInv, Advance, Reads9250
  PROVE  Flags' /\ Where'
<1> DEFINE s == Head(todo)
<1>1. /\ todo \in Seq(AStep) /\ handle \in Handles /\ todo # <<>>
      /\ todo \in Seq(Reading)
  BY TodoIs DEF Advance, IInv, Types, Reads9250
<1>2. /\ mode' = mode /\ failed' = "none" /\ handle' = Handled(s)
      /\ call \in {"read", "irq"}
      /\ Tail(todo) # <<>> => todo' = Tail(todo) /\ call' = call /\ undo' = <<>>
      /\ Tail(todo) = <<>> => Returned(TRUE, slips, failed)
  BY <1>1, AdvanceIs DEF Reads9250
<1>3. s \in Reading /\ Tail(todo) \in Seq(Reading)
  BY <1>1, TailIs
<1> HIDE DEF s
<1>4. s.do \notin {"link", "poll", "start", "mag_inited", "mag_closed", "close"}
  <2>1. CASE s \in Quiet
    BY <2>1, QuietIs DEF Loud, Begins, Ends
  <2>2. CASE s = Step("sources") \/ s = Step("mag_st1")
    BY <2>2, StepIs
  <2> QED
    BY <1>3, <2>1, <2>2 DEF Reading
<1>5. handle' = handle
  BY <1>1, <1>2, <1>4, HandledIs
<1>6. Flags'
  BY <1>2, <1>5 DEF IInv, Flags
<1>7. CASE Tail(todo) = <<>>
  <2>1. Rested'
    BY <1>2, <1>7, RestedAfter
  <2> QED
    BY <1>6, <2>1 DEF Where
<1>8. CASE Tail(todo) # <<>>
  <2>1. Reads9250'
    BY <1>2, <1>3, <1>8 DEF Reads9250
  <2> QED
    BY <1>6, <2>1 DEF Where
<1> QED
  BY <1>7, <1>8

(* One of these in which a transfer fails. *)
LEMMA SlipOthers ==
  ASSUME IInv, Slip, Deinits \/ Reads9250
  PROVE  Flags' /\ Where'
<1>1. todo \in Seq(AStep) /\ call \in {"deinit", "read", "irq"}
  BY TodoIs DEF Slip, Deinits, Reads9250
<1>2. mode' = mode /\ handle' = handle /\ Returned(FALSE, slips', failed')
  BY <1>1, SlipIs
<1>3. Rested'
  BY <1>1, <1>2, RestedAfter
<1>4. Flags'
  BY <1>2 DEF IInv, Flags
<1> QED
  BY <1>3, <1>4 DEF Where

-----------------------------------------------------------------------------
(* A call that begins. *)
LEMMA BeginTypes ==
  ASSUME NEW name, NEW steps, IInv, Begin(name, steps), ready' \in BOOLEAN
  PROVE  /\ Types' /\ Flags'
         /\ Idle /\ call' = name /\ todo' = steps /\ undo' = <<>>
         /\ slips' = 0 /\ failed' = "none"
         /\ mode' = mode /\ handle' = handle /\ chip' = chip /\ mag' = mag
<1>1. /\ Idle /\ call' = name /\ todo' = steps /\ undo' = <<>>
      /\ slips' = 0 /\ failed' = "none"
      /\ mode' = mode /\ handle' = handle /\ chip' = chip /\ mag' = mag
      /\ saved' = {} /\ asked' = [on |-> {}, off |-> {}]
  BY DEF Begin
<1>2. Flags'
  BY <1>1 DEF IInv, Flags
<1>3. asked' \in [on : SUBSET Option, off : SUBSET Option] /\ asked'.on \intersect asked'.off = {}
  BY <1>1
<1>4. slips' \in 0 .. MaxSlips
  BY <1>1, ModesAssumption
<1>5. Types'
  BY <1>1, <1>3, <1>4 DEF IInv, Types
<1> QED
  BY <1>1, <1>2, <1>5

LEMMA ModeIs ==
  ASSUME Types
  PROVE  mode.app \in {"basic", "fifo", "dmp", "mpu6050"} /\ mode.bus \in {"iic", "spi"}
BY ModesAssumption DEF Types, Modes

LEMMA BeginsInit == ASSUME IInv, CallInit PROVE IInv'
<1> DEFINE steps == CASE mode.app = "basic" -> BasicInit(mode.bus)
                      [] mode.app = "fifo" -> FifoInit(mode.bus)
                      [] mode.app = "dmp" -> DmpInit(mode.bus)
                      [] mode.app = "mpu6050" -> Init6050
<1>1. Begin("init", steps) /\ ready' = FALSE
  BY Zenon DEF CallInit
<1>2. steps \in Beginning(Rests(mode.app))
  <2>1. mode.app \in {"basic", "fifo", "dmp", "mpu6050"} /\ mode.bus \in {"iic", "spi"}
    BY ModeIs DEF IInv
  <2>2. CASE mode.app = "basic"
    <3>1. steps = BasicInit(mode.bus) /\ Rests(mode.app) = MagRests
      BY <2>2 DEF Rests, Dmps
    <3>2. BasicInit(mode.bus) \in Beginning(MagRests)
      BY <2>1, BasicInitIs
    <3> HIDE DEF steps
    <3> QED
      BY <3>1, <3>2, Zenon
  <2>3. CASE mode.app = "fifo"
    <3>1. steps = FifoInit(mode.bus) /\ Rests(mode.app) = MagRests
      BY <2>3 DEF Rests, Dmps
    <3>2. FifoInit(mode.bus) \in Beginning(MagRests)
      BY <2>1, FifoInitIs
    <3> HIDE DEF steps
    <3> QED
      BY <3>1, <3>2, Zenon
  <2>4. CASE mode.app = "dmp"
    <3>1. steps = DmpInit(mode.bus) /\ Rests(mode.app) = DmpRests
      BY <2>4 DEF Rests, Dmps
    <3>2. DmpInit(mode.bus) \in Beginning(DmpRests)
      BY DmpInitIs
    <3> HIDE DEF steps
    <3> QED
      BY <3>1, <3>2, Zenon
  <2>5. CASE mode.app = "mpu6050"
    <3>1. steps = Init6050 /\ Rests(mode.app) = DmpRests
      BY <2>5 DEF Rests, Dmps
    <3>2. Init6050 \in Beginning(DmpRests)
      BY DmpInitIs
    <3> HIDE DEF steps
    <3> QED
      BY <3>1, <3>2, Zenon
  <2> HIDE DEF steps
  <2> QED
    BY <2>1, <2>2, <2>3, <2>4, <2>5
<1> HIDE DEF steps
<1>3. /\ Types' /\ Flags' /\ call' = "init" /\ todo' = steps /\ undo' = <<>>
      /\ slips' = 0 /\ failed' = "none" /\ mode' = mode
  BY <1>1, BeginTypes
<1>4. PICK r \in Rests(mode.app) : steps = First \o r
  BY <1>2 DEF Beginning
<1>5. r \in Rests(mode'.app) /\ todo' = First \o r
  BY <1>3, <1>4
<1>6. InitOpens'
  BY <1>3, <1>5 DEF InitOpens
<1> QED
  BY <1>3, <1>6 DEF IInv, Where

LEMMA BeginsDeinit == ASSUME IInv, CallDeinit PROVE IInv'
<1> DEFINE a == IF mode.app = "fifo" /\ mode.bus = "iic" THEN Off(<<"fifo">>) ELSE <<>>
           b == IF mode.app \in {"basic", "fifo"} /\ mode.bus = "iic"
                  THEN (IF handle.mag_inited THEN MagDeinit ELSE <<Step("refuse")>>)
                ELSE <<>>
<1>1. Begin("deinit", a \o b \o Deinit) /\ ready' = FALSE
  BY Zenon DEF CallDeinit
<1>2. a \in {Off(<<"fifo">>), <<>>} /\ b \in {MagDeinit, <<Step("refuse")>>, <<>>}
  BY Zenon
<1>3. Spins => b # <<>>
  <2> SUFFICES ASSUME Spins PROVE b # <<>>
    OBVIOUS
  <2>1. mode.app \in {"basic", "fifo"} /\ mode.bus = "iic"
    BY ModeIs DEF IInv, Spins, Dmps
  <2>2. MagDeinit # <<>>
    BY MagDeinitIs, HasNot
  <2>3. <<Step("refuse")>> # <<>>
    OBVIOUS
  <2>4. b = IF handle.mag_inited THEN MagDeinit ELSE <<Step("refuse")>>
    BY <2>1, Zenon
  <2> HIDE DEF b
  <2> QED
    BY <2>2, <2>3, <2>4, Zenon
<1> HIDE DEF a, b
<1>4. a \o b \in Before(b # <<>>)
  BY <1>2, BeforeIs
<1>5. /\ Types' /\ Flags' /\ call' = "deinit" /\ todo' = a \o b \o Deinit /\ undo' = <<>>
      /\ failed' = "none" /\ mode' = mode /\ mag' = mag
  BY <1>1, BeginTypes
<1>6. Spins' => Spins
  BY <1>5 DEF Spins
<1>7. a \o b \in Before(Spins' /\ mag' # "down")
  BY <1>3, <1>4, <1>6, Zenon DEF Before
<1>8. \E k \in Before(Spins' /\ mag' # "down") : todo' = k \o Deinit
  BY <1>5, <1>7, Zenon
<1>9. Deinits'
  BY <1>5, <1>8, Zenon DEF Deinits
<1> QED
  BY <1>5, <1>9 DEF IInv, Where

LEMMA BeginsReads == ASSUME IInv, CallRead \/ CallDmpRead \/ CallIrq PROVE IInv'
<1>1. ready' \in BOOLEAN
  BY DEF CallRead, CallDmpRead, CallIrq, IInv, Types
<1>2. PICK steps \in Seq(Reading) \ {<<>>} :
        Begin("read", steps) \/ Begin("irq", steps)
  <2> DEFINE r == ReadSamples
             f == <<Step("int_status")>> \o ResetFifo
  <2>1. r \in Seq(Reading) \ {<<>>} /\ f \in Seq(Reading) \ {<<>>}
    BY ReadsAre
  <2>2. Begin("read", r) \/ Begin("read", f) \/ Begin("irq", f)
    BY Zenon DEF CallRead, CallDmpRead, CallIrq
  <2> HIDE DEF r, f
  <2> QED
    BY <2>1, <2>2
<1>3. /\ Types' /\ Flags' /\ call' \in {"read", "irq"} /\ todo' = steps /\ undo' = <<>>
      /\ failed' = "none"
  <2>1. CASE Begin("read", steps)
    BY <1>1, <2>1, BeginTypes
  <2>2. CASE Begin("irq", steps)
    BY <1>1, <2>2, BeginTypes
  <2> QED
    BY <1>2, <2>1, <2>2
<1>4. Reads9250'
  BY <1>2, <1>3 DEF Reads9250
<1> QED
  BY <1>3, <1>4 DEF IInv, Where

-----------------------------------------------------------------------------
(* The program ends; the chip goes on by itself. *)
LEMMA Fresh ==
  ASSUME call = "none", todo = <<>>, last = NoCall
  PROVE  Rested
BY DEF Rested, InitFailsClosed, DeinitStops, NoCall

LEMMA DiesInv == ASSUME IInv, Dies PROVE IInv'
<1>1. /\ handle' = [inited |-> FALSE, dmp_inited |-> FALSE, mag_inited |-> FALSE]
      /\ call' = "none" /\ todo' = <<>> /\ saved' = {}
      /\ asked' = [on |-> {}, off |-> {}] /\ slips' = 0 /\ last' = NoCall
      /\ ready' = FALSE /\ mode' \in Modes /\ chip' = chip /\ mag' = mag
  BY DEF Dies
<1>2. handle' \in Handles /\ Flags'
  BY <1>1 DEF Handles, Flags
<1>3. asked' \in [on : SUBSET Option, off : SUBSET Option] /\ asked'.on \intersect asked'.off = {}
  BY <1>1
<1>4. slips' \in 0 .. MaxSlips
  BY <1>1, ModesAssumption
<1>5. Types'
  BY <1>1, <1>2, <1>3, <1>4 DEF IInv, Types
<1>6. Rested'
  BY <1>1 DEF Rested, InitFailsClosed, DeinitStops, NoCall
<1> QED
  BY <1>2, <1>5, <1>6 DEF IInv, Where

LEMMA StillWhere ==
  ASSUME Where, chip'.on = chip.on,
         UNCHANGED <<mode, handle, mag, call, todo, undo, slips, failed, last>>
  PROVE  Where'
<1>1. CASE Rested
  <2>1. InitFailsClosed'
    BY <1>1 DEF Rested, InitFailsClosed, Idle, Asleep
  <2>2. DeinitStops'
    BY <1>1 DEF Rested, DeinitStops, Idle, Asleep
  <2> QED
    BY <1>1, <2>1, <2>2 DEF Rested, Where
<1>2. CASE InitOpens
  BY <1>2 DEF InitOpens, Where
<1>3. CASE InitRuns
  BY <1>3 DEF InitRuns, Through, Where
<1>4. CASE InitCloses
  BY <1>4 DEF InitCloses, Through, Asleep, Where
<1>5. CASE Deinits
  BY <1>5 DEF Deinits, Spins, Asleep, Where
<1>6. CASE Reads9250
  BY <1>6 DEF Reads9250, Where
<1> QED
  BY <1>1, <1>2, <1>3, <1>4, <1>5, <1>6 DEF Where

LEMMA ProduceInv == ASSUME IInv, Produce PROVE IInv'
<1>1. /\ chip \in Chips /\ chip' = [chip EXCEPT !.queued = {Layout}]
      /\ UNCHANGED <<mode, handle, mag, call, todo, undo, saved, asked, slips, failed,
                     last, ready>>
  BY DEF Produce, IInv, Types
<1>2. {Layout} \in Few
  <2>1. Layout \in SUBSET (Sources \union {"packet"})
    BY DEF Layout
  <2> DEFINE x == Layout
  <2>2. x \in SUBSET (Sources \union {"packet"})
    BY <2>1
  <2> HIDE DEF x
  <2>3. {x} \in Few
    BY <2>2 DEF Few
  <2> QED
    BY <2>3 DEF x
<1>3. chip' \in Chips /\ chip'.on = chip.on
  BY <1>1, <1>2 DEF Chips
<1>4. Types'
  BY <1>1, <1>3 DEF IInv, Types
<1>5. Flags'
  BY <1>1 DEF IInv, Flags
<1>6. Where'
  BY <1>1, <1>3, StillWhere DEF IInv
<1> QED
  BY <1>4, <1>5, <1>6 DEF IInv

-----------------------------------------------------------------------------
(* The invariant holds at first and is kept. *)
LEMMA InitInv == ASSUME Init PROVE IInv
<1>1. /\ mode \in Modes /\ mag = "down" /\ saved = {} /\ slips = 0 /\ ready = FALSE
      /\ handle = [inited |-> FALSE, dmp_inited |-> FALSE, mag_inited |-> FALSE]
      /\ chip = [on |-> Defaults, loaded |-> FALSE, tap |-> "unset", queued |-> {}]
      /\ asked = [on |-> {}, off |-> {}]
      /\ call = "none" /\ todo = <<>> /\ last = NoCall
  BY DEF Init
<1>2. handle \in Handles /\ Flags
  BY <1>1 DEF Handles, Flags
<1>3. chip \in Chips
  <2>1. {} \in Few /\ Defaults \in SUBSET Option
    BY OptionSets DEF Few
  <2> QED
    BY <1>1, <2>1 DEF Chips
<1>4. asked \in [on : SUBSET Option, off : SUBSET Option] /\ asked.on \intersect asked.off = {}
  BY <1>1
<1>5. slips \in 0 .. MaxSlips
  BY <1>1, ModesAssumption
<1>6. Types
  BY <1>1, <1>2, <1>3, <1>4, <1>5 DEF Types, Mag
<1>7. Rested
  BY <1>1, Fresh
<1> QED
  BY <1>2, <1>6, <1>7 DEF IInv, Where

LEMMA AdvanceInv == ASSUME IInv, Advance PROVE IInv'
<1>1. Types'
  BY AdvanceTypes
<1>2. ~ Rested
  BY DEF Advance, Rested
<1>3. CASE InitRuns
  BY <1>1, <1>3, AdvanceDmp, AdvanceMag DEF IInv
<1> QED
  BY <1>1, <1>2, <1>3, AdvanceOpens, AdvanceCloses, AdvanceDeinits, AdvanceReads DEF IInv, Where

LEMMA SlipInv == ASSUME IInv, Slip PROVE IInv'
<1>1. Types'
  BY SlipTypes
<1>2. ~ Rested
  BY DEF Slip, Rested
<1> QED
  BY <1>1, <1>2, SlipOpens, SlipRuns, SlipCloses, SlipOthers DEF IInv, Where

LEMMA NextInv == ASSUME IInv, [Next]_vars PROVE IInv'
<1>1. CASE CallInit
  BY <1>1, BeginsInit
<1>2. CASE CallDeinit
  BY <1>2, BeginsDeinit
<1>3. CASE CallRead \/ CallDmpRead \/ CallIrq
  BY <1>3, BeginsReads
<1>4. CASE Advance
  BY <1>4, AdvanceInv
<1>5. CASE Slip
  BY <1>5, SlipInv
<1>6. CASE Killed \/ NullBus
  BY <1>6, DiesInv DEF Killed, NullBus
<1>7. CASE Produce
  BY <1>7, ProduceInv
<1>8. CASE UNCHANGED vars
  <2>1. UNCHANGED <<mode, handle, chip, mag, call, todo, undo, saved, asked, slips,
                    failed, last, ready>>
    BY <1>8 DEF vars
  <2>2. Types' /\ Flags'
    BY <2>1 DEF IInv, Types, Flags
  <2>3. Where'
    BY <2>1, StillWhere DEF IInv
  <2> QED
    BY <2>2, <2>3 DEF IInv
<1> QED
  BY <1>1, <1>2, <1>3, <1>4, <1>5, <1>6, <1>7, <1>8 DEF Next

-----------------------------------------------------------------------------
(* What it says. *)
LEMMA Running ==
  ASSUME IInv, ~ Rested
  PROVE  todo # <<>> /\ call # "none"
<1> SUFFICES todo # <<>>
  BY TodoIs
<1>1. CASE InitOpens
  <2>1. PICK r \in Rests(mode.app) :
           todo = First \o r \/ \E t \in Lefts : todo = Steps(t) \o r
    BY <1>1 DEF InitOpens
  <2>2. r \in Seq(AStep)
    BY RestsAre
  <2>3. First \o r # <<>>
    BY <2>2, FirstIs, InFront
  <2>4. ASSUME NEW t \in Lefts PROVE Steps(t) \o r # <<>>
    <3> DEFINE u == Steps(t)
    <3>1. u \in Seq(AStep) /\ u # <<>>
      BY LeftsAre
    <3> HIDE DEF u
    <3>2. u \o r # <<>>
      BY <2>2, <3>1, InFront
    <3> QED
      BY <3>2 DEF u
  <2> QED
    BY <2>1, <2>3, <2>4
<1>2. CASE InitRuns
  <2>1. todo \in Rests(mode.app) => todo # <<>>
    BY RestsAre
  <2>2. ASSUME todo \in Raised PROVE todo # <<>>
    <3>1. PICK w \in Mags : todo = Raise(<<"iic_bypass">>) \o w
      BY <2>2 DEF Raised
    <3> DEFINE u == Raise(<<"iic_bypass">>)
    <3>2. u \in Seq(AStep) /\ u # <<>> /\ w \in Seq(AStep) /\ todo = u \o w
      BY <3>1, WaySeq, SeqsAre
    <3> HIDE DEF u
    <3>3. u \o w # <<>>
      BY <3>2, InFront
    <3> QED
      BY <3>2, <3>3, Zenon
  <2>3. ASSUME todo \in Mags PROVE todo # <<>>
    <3>1. PICK q \in Seq(MagOn) \ {<<>>}, v \in Seq(Quiet) : todo = q \o v
      BY <2>3 DEF Mags
    <3>2. q \in Seq(AStep) /\ v \in Seq(AStep) /\ q # <<>>
      BY SeqsAre
    <3>3. q \o v # <<>>
      BY <3>2, InFront
    <3> QED
      BY <3>1, <3>3, Zenon
  <2> QED
    BY <1>2, <2>1, <2>2, <2>3 DEF InitRuns
<1>3. CASE InitCloses
  <2>1. MagDeinit # <<>> /\ Off(<<"fifo">>) # <<>> /\ Deinit # <<>> /\ Close # <<>>
    BY MagDeinitIs, HasNot, OffFifo, CloseIs
  <2>2. Raise(<<"iic_bypass">>) \o Last # <<>>
    <3> DEFINE u == Raise(<<"iic_bypass">>)
    <3>1. u \in Seq(AStep) /\ u # <<>> /\ Last \in Seq(AStep)
      BY WaySeq, LastIs, SeqsAre
    <3> HIDE DEF u
    <3>2. u \o Last # <<>>
      BY <3>1, InFront
    <3> QED
      BY <3>2 DEF u
  <2> QED
    BY <1>3, <2>1, <2>2 DEF InitCloses
<1>4. CASE Deinits
  <2>1. ASSUME NEW m \in Seq(Leaving) PROVE m \o Deinit # <<>>
    <3>1. m \in Seq(AStep) /\ Deinit \in Seq(AStep) /\ Deinit # <<>>
      BY SeqsAre, CloseIs
    <3>2. CASE m = <<>>
      BY <3>1, <3>2, ConcatEmptySeq
    <3>3. CASE m # <<>>
      BY <3>1, <3>3, InFront
    <3> QED
      BY <3>2, <3>3
  <2>2. \A m \in Before(Spins /\ mag # "down") : m \in Seq(Leaving)
    BY Zenon DEF Before
  <2>3. Close # <<>>
    BY CloseIs
  <2> QED
    BY <1>4, <2>1, <2>2, <2>3, Zenon DEF Deinits
<1>5. CASE Reads9250
  BY <1>5 DEF Reads9250
<1> QED
  BY <1>1, <1>2, <1>3, <1>4, <1>5 DEF IInv, Where

LEMMA InvType == ASSUME IInv PROVE TypeOK
<1>1. Types /\ Flags
  BY DEF IInv
<1>2. mode \in Modes /\ handle \in [inited : BOOLEAN, dmp_inited : BOOLEAN, mag_inited : BOOLEAN]
  BY <1>1 DEF Types, Handles
<1>3. chip.on \subseteq Option /\ chip.loaded \in BOOLEAN /\ chip.queued \in Few
  BY <1>1 DEF Types, Chips
<1>4. Cardinality(chip.queued) <= 1
  <2>1. CASE chip.queued = {}
    BY <2>1, FS_EmptySet
  <2>2. CASE \E x : chip.queued = {x}
    BY <2>2, FS_Singleton
  <2>3. chip.queued = {} \/ \E x : chip.queued = {x}
    BY <1>3 DEF Few
  <2> QED
    BY <2>1, <2>2, <2>3
<1>5. mag \in {"down", "rom", "measuring"} /\ slips \in 0 .. MaxSlips /\ saved \subseteq Option
      /\ asked.on \intersect asked.off = {} /\ ready \in BOOLEAN
  BY <1>1 DEF Types, Mag
<1>6. call = "none" <=> todo = <<>>
  <2>1. CASE Rested
    BY <2>1 DEF Rested
  <2>2. CASE ~ Rested
    BY <2>2, Running
  <2> QED
    BY <2>1, <2>2
<1>7. handle.dmp_inited => handle.inited /\ mode.app \in Dmps
  BY <1>1 DEF Flags
<1> QED
  BY <1>2, <1>3, <1>4, <1>5, <1>6, <1>7 DEF TypeOK

LEMMA InvRested == ASSUME IInv PROVE InitFailsClosed /\ DeinitStops
<1>1. CASE Rested
  BY <1>1 DEF Rested
<1>2. CASE ~ Rested
  <2>1. ~ Idle
    BY <1>2, Running DEF Idle
  <2> QED
    BY <2>1 DEF InitFailsClosed, DeinitStops
<1> QED
  BY <1>1, <1>2

LEMMA SpecInv == Spec => []IInv
<1>1. Init => IInv
  BY InitInv
<1>2. IInv /\ [Next]_vars => IInv'
  BY NextInv
<1> QED
  BY <1>1, <1>2, PTL DEF Spec

(* For every set of modes and buses and any number of failing transfers: the
   state keeps its types, a call is in progress exactly while it has a step to
   take, no option is remembered as asked for both on and off, and a DMP is
   initialised only in an open handle of a mode that has one. *)
THEOREM TypeCorrect == Spec => []TypeOK
<1>1. IInv => TypeOK
  BY InvType
<1> QED
  BY <1>1, SpecInv, PTL

(* An init in which one transfer fails, whichever of its setters it was, gives
   back what it took: basic_init, fifo_init and the two dmp_init return with the
   handle closed and the chip asleep, unless it did not answer at first, and
   with the magnetometer told to stop, but for set_fifo in fifo_init. *)
THEOREM InitFailureCloses == Spec => []InitFailsClosed
<1>1. IInv => InitFailsClosed
  BY InvRested
<1> QED
  BY <1>1, SpecInv, PTL

(* A deinit that returns 0 has closed the handle, put the chip to sleep and, in
   the modes that use it, stopped the magnetometer, whatever a program killed
   before has left. *)
THEOREM DeinitReallyStops == Spec => []DeinitStops
<1>1. IInv => DeinitStops
  BY InvRested
<1> QED
  BY <1>1, SpecInv, PTL

-----------------------------------------------------------------------------
(* The worlds that a call goes through: what its steps can see and change, but
   for the firmware. *)
World == [on : SUBSET Option, queued : Few, tap : {"unset", "defaults", "set"}, mag : Mag,
          saved : SUBSET Option, yes : SUBSET Option, no : SUBSET Option,
          dmp : BOOLEAN, magin : BOOLEAN]

now == [on |-> chip.on, queued |-> chip.queued, tap |-> chip.tap, mag |-> mag,
        saved |-> saved, yes |-> asked.on, no |-> asked.off,
        dmp |-> handle.dmp_inited, magin |-> handle.mag_inited]

(* Layout of a world. *)
Kind(on) == IF "dmp" \in on THEN {"packet"} ELSE on \intersect Sources

(* The chip stores something. *)
Brews(w, v) ==
  /\ "fifo" \in w.on /\ "sleep" \notin w.on /\ Kind(w.on) # {}
  /\ v = [w EXCEPT !.queued = {Kind(w.on)}]

(* Answers of a world; and what an answered step makes of it: of the options
   that are on, of what the chip stores else, and of what is noted. *)
Can(s, w) ==
  /\ s.do \in MagSteps => "iic_bypass" \in w.on /\ "iic_master" \notin w.on
  /\ s.do = "sources" => w.on \intersect Sources \in
                            {Elements(Imu), Elements(Imu) \union {"fifo_slv0"}}
  /\ s.do # "refuse"

(* The steps that change which options are on. *)
Turning == {"on", "off", "raise", "drop", "init_reset", "reset", "power_down", "no_power",
            "no_master", "no_user", "no_tests", "no_irq", "no_sources", "mask_irq",
            "mask_fifo", "unmask_irq", "unmask_fifo", "flush", "run"}

Turned(s, w, v) ==
  /\ s.do \in {"on", "raise"} => v.on = w.on \union {s.opt}
  /\ s.do \in {"off", "drop"} => v.on = w.on \ {s.opt}
  /\ s.do = "init_reset" => v.on \subseteq Defaults \union {"sleep"}
  /\ s.do = "mask_irq" => v.on = w.on \ Interrupts
  /\ s.do = "mask_fifo" => v.on = w.on \ Sources
  /\ s.do = "unmask_irq" => v.on = w.on \union (w.saved \intersect Interrupts)
  /\ s.do = "unmask_fifo" => v.on = w.on \union (w.saved \intersect Sources)
  /\ s.do = "flush" => v.on = w.on \ {"fifo", "dmp"}
  /\ s.do = "run" => v.on = w.on \union {"fifo"} \union (IF w.dmp THEN {"dmp"} ELSE {})
  /\ s.do \notin Turning => v.on = w.on

Stored(s, w, v) ==
  /\ s.do \in {"init_reset", "flush", "run", "drain"} => v.queued = {}
  /\ s.do \notin {"init_reset", "reset", "flush", "run", "drain"} => v.queued = w.queued
  /\ s.do = "tap_thresh" => v.tap = "set"
  /\ s.do \notin {"init_reset", "reset", "tap_thresh", "tap_defaults"} => v.tap = w.tap
  /\ s.do = "mag_mode" => v.mag = "measuring"
  /\ s.do \notin {"mag_reset", "mag_down", "mag_rom", "mag_mode"} => v.mag = w.mag

Noted(s, w, v) ==
  /\ v.saved = IF s.do = "save" THEN w.on ELSE w.saved
  /\ s.do = "on" => v.yes = w.yes \union {s.opt} /\ v.no = w.no \ {s.opt}
  /\ s.do = "off" => v.yes = w.yes \ {s.opt} /\ v.no = w.no \union {s.opt}
  /\ s.do \notin {"on", "off"} => v.yes = w.yes /\ v.no = w.no
  /\ s.do \in {"link", "poll"} => ~ v.dmp
  /\ s.do = "start" => v.dmp
  /\ s.do \notin {"link", "poll", "start", "close"} => v.dmp = w.dmp
  /\ s.do = "link" => ~ v.magin
  /\ s.do \notin {"link", "mag_inited", "mag_closed"} => v.magin = w.magin

Turns(s, w, v) == v \in World /\ Turned(s, w, v) /\ Stored(s, w, v) /\ Noted(s, w, v)

-----------------------------------------------------------------------------
(* A set of what may be left to do, and in which world: whatever happens, it
   can be done, and ends in Q. *)
Pairs == Seq(AStep) \X World

Closed(R, Q) ==
  \A t \in Seq(AStep), w \in World : <<t, w>> \in R =>
    /\ t = <<>> => w \in Q
    /\ t # <<>> => /\ Can(Head(t), w)
                   /\ \A v : Turns(Head(t), w, v) => <<Tail(t), v>> \in R
    /\ \A v : Brews(w, v) => <<t, v>> \in R

Leads(P, t, Q) == \E R \in SUBSET Pairs : Closed(R, Q) /\ \A w \in P : <<t, w>> \in R

Still(P) == P \subseteq World /\ \A w \in P : \A v : Brews(w, v) => v \in P

LEMMA TurnsIn == ASSUME NEW s, NEW w, NEW v, Turns(s, w, v) PROVE v \in World
BY DEF Turns

LEMMA BrewsIn ==
  ASSUME NEW w \in World, NEW v, Brews(w, v)
  PROVE  /\ v \in World /\ v.on = w.on /\ v.tap = w.tap /\ v.mag = w.mag
         /\ v.saved = w.saved /\ v.yes = w.yes /\ v.no = w.no
         /\ v.dmp = w.dmp /\ v.magin = w.magin
         /\ v.queued = {Kind(w.on)}
         /\ "fifo" \in w.on /\ "sleep" \notin w.on /\ Kind(w.on) # {}
<1>1. Kind(w.on) \subseteq Sources \union {"packet"}
  BY DEF Kind
<1>2. {Kind(w.on)} \in Few
  BY <1>1 DEF Few
<1> QED
  BY <1>2 DEF Brews, World

LEMMA LeadsKeep ==
  ASSUME NEW S \in SUBSET AStep, NEW P, Still(P), NEW t \in Seq(S),
         \A s \in S, w \in P : Can(s, w) /\ \A v : Turns(s, w, v) => v \in P
  PROVE  Leads(P, t, P)
<1> DEFINE R == Seq(S) \X P
<1>1. P \subseteq World
  BY DEF Still
<1>2. R \in SUBSET Pairs
  BY <1>1 DEF Pairs
<1>3. Closed(R, P)
  <2> SUFFICES ASSUME NEW u \in Seq(AStep), NEW w \in World, <<u, w>> \in R
               PROVE  /\ u = <<>> => w \in P
                      /\ u # <<>> => /\ Can(Head(u), w)
                                     /\ \A v : Turns(Head(u), w, v) => <<Tail(u), v>> \in R
                      /\ \A v : Brews(w, v) => <<u, v>> \in R
    BY Zenon DEF Closed
  <2>1. u \in Seq(S) /\ w \in P
    OBVIOUS
  <2>2. ASSUME u # <<>> PROVE Head(u) \in S /\ Tail(u) \in Seq(S)
    BY <2>1, <2>2, HeadTailProperties
  <2>3. \A v : Brews(w, v) => v \in P
    BY <2>1 DEF Still
  <2> QED
    BY <2>1, <2>2, <2>3
<1>4. \A w \in P : <<t, w>> \in R
  OBVIOUS
<1> QED
  BY <1>2, <1>3, <1>4 DEF Leads

LEMMA LeadsOne ==
  ASSUME NEW s \in AStep, NEW P, NEW Q, Still(P), Still(Q),
         \A w \in P : Can(s, w) /\ \A v : Turns(s, w, v) => v \in Q
  PROVE  Leads(P, <<s>>, Q)
<1> DEFINE R == ({<<s>>} \X P) \union ({<<>>} \X Q)
<1>1. P \subseteq World /\ Q \subseteq World
  BY DEF Still
<1>2. <<s>> \in Seq(AStep) /\ <<>> \in Seq(AStep) /\ <<s>> # <<>>
      /\ Head(<<s>>) = s /\ Tail(<<s>>) = <<>>
  OBVIOUS
<1>3. R \in SUBSET Pairs
  BY <1>1, <1>2 DEF Pairs
<1>4. Closed(R, Q)
  <2> SUFFICES ASSUME NEW u \in Seq(AStep), NEW w \in World, <<u, w>> \in R
               PROVE  /\ u = <<>> => w \in Q
                      /\ u # <<>> => /\ Can(Head(u), w)
                                     /\ \A v : Turns(Head(u), w, v) => <<Tail(u), v>> \in R
                      /\ \A v : Brews(w, v) => <<u, v>> \in R
    BY Zenon DEF Closed
  <2>1. CASE u = <<s>> /\ w \in P
    <3>1. \A v : Brews(w, v) => v \in P
      BY <2>1 DEF Still
    <3> QED
      BY <1>2, <2>1, <3>1
  <2>2. CASE u = <<>> /\ w \in Q
    <3>1. \A v : Brews(w, v) => v \in Q
      BY <2>2 DEF Still
    <3> QED
      BY <1>2, <2>2, <3>1
  <2> QED
    BY <2>1, <2>2
<1>5. \A w \in P : <<<<s>>, w>> \in R
  OBVIOUS
<1> QED
  BY <1>3, <1>4, <1>5 DEF Leads

LEMMA LeadsThen ==
  ASSUME NEW P, NEW Q, NEW O, NEW s \in Seq(AStep), NEW t \in Seq(AStep),
         Leads(P, s, Q), Leads(Q, t, O), P \subseteq World
  PROVE  Leads(P, s \o t, O)
<1>1. PICK A \in SUBSET Pairs : Closed(A, Q) /\ \A w \in P : <<s, w>> \in A
  BY DEF Leads
<1>2. PICK B \in SUBSET Pairs : Closed(B, O) /\ \A w \in Q : <<t, w>> \in B
  BY DEF Leads
<1> DEFINE C == {p \in Pairs : \E u \in Seq(AStep) : p[1] = u \o t /\ <<u, p[2]>> \in A}
           R == C \union B
<1>3. R \in SUBSET Pairs
  OBVIOUS
<1>4. \A u \in Seq(AStep), w \in World : <<u, w>> \in A => <<u \o t, w>> \in R
  <2> SUFFICES ASSUME NEW u \in Seq(AStep), NEW w \in World, <<u, w>> \in A
               PROVE  <<u \o t, w>> \in C
    OBVIOUS
  <2>1. u \o t \in Seq(AStep)
    BY ConcatSeq
  <2> QED
    BY <2>1 DEF Pairs
<1>5. Closed(R, O)
  <2> SUFFICES ASSUME NEW x \in Seq(AStep), NEW w \in World, <<x, w>> \in R
               PROVE  /\ x = <<>> => w \in O
                      /\ x # <<>> => /\ Can(Head(x), w)
                                     /\ \A v : Turns(Head(x), w, v) => <<Tail(x), v>> \in R
                      /\ \A v : Brews(w, v) => <<x, v>> \in R
    BY Zenon DEF Closed
  <2>1. ASSUME <<x, w>> \in B
        PROVE  /\ x = <<>> => w \in O
               /\ x # <<>> => /\ Can(Head(x), w)
                              /\ \A v : Turns(Head(x), w, v) => <<Tail(x), v>> \in B
               /\ \A v : Brews(w, v) => <<x, v>> \in B
    BY <1>2, <2>1, Zenon DEF Closed
  <2>2. CASE <<x, w>> \in B
    BY <2>1, <2>2
  <2>3. CASE <<x, w>> \in C
    <3>1. PICK u \in Seq(AStep) : x = u \o t /\ <<u, w>> \in A
      BY <2>3
    <3>2. /\ u = <<>> => w \in Q
          /\ u # <<>> => /\ Can(Head(u), w)
                         /\ \A v : Turns(Head(u), w, v) => <<Tail(u), v>> \in A
          /\ \A v : Brews(w, v) => <<u, v>> \in A
      BY <1>1, <3>1, Zenon DEF Closed
    <3>3. CASE u = <<>>
      <4>1. x = t
        BY <3>1, <3>3, ConcatEmptySeq
      <4>2. <<x, w>> \in B
        BY <1>2, <3>2, <3>3, <4>1
      <4> QED
        BY <2>1, <4>2
    <3>4. CASE u # <<>>
      <4>1. x # <<>> /\ Head(x) = Head(u) /\ Tail(x) = Tail(u) \o t /\ Tail(u) \in Seq(AStep)
        BY <3>1, <3>4, InFront
      <4>2. ASSUME NEW v, Turns(Head(x), w, v) PROVE <<Tail(x), v>> \in R
        <5>1. v \in World /\ <<Tail(u), v>> \in A
          BY <3>2, <3>4, <4>1, <4>2, TurnsIn
        <5> QED
          BY <1>4, <4>1, <5>1, Zenon
      <4>3. ASSUME NEW v, Brews(w, v) PROVE <<x, v>> \in R
        <5>1. v \in World /\ <<u, v>> \in A
          BY <3>2, <4>3, BrewsIn
        <5> QED
          BY <1>4, <3>1, <5>1, Zenon
      <4> HIDE DEF R
      <4> QED
        BY <3>2, <3>4, <4>1, <4>2, <4>3
    <3> QED
      BY <3>3, <3>4
  <2> QED
    BY <2>2, <2>3
<1>6. \A w \in P : <<s \o t, w>> \in R
  BY <1>1, <1>4
<1> HIDE DEF R
<1> QED
  BY <1>3, <1>5, <1>6 DEF Leads

LEMMA LeadsLess ==
  ASSUME NEW P, NEW Q, NEW O, NEW U, NEW t, Leads(P, t, Q), O \subseteq P, Q \subseteq U
  PROVE  Leads(O, t, U)
<1>1. PICK R \in SUBSET Pairs : Closed(R, Q) /\ \A w \in P : <<t, w>> \in R
  BY DEF Leads
<1>2. Closed(R, U)
  BY <1>1, Zenon DEF Closed
<1> QED
  BY <1>1, <1>2 DEF Leads


(* The part of Stored that is the chip's. *)
ChipStored(s, c, b) ==
  /\ s.do \in {"init_reset", "flush", "run", "drain"} => b.queued = {}
  /\ s.do \notin {"init_reset", "reset", "flush", "run", "drain"} => b.queued = c.queued
  /\ s.do = "tap_thresh" => b.tap = "set"
  /\ s.do \notin {"init_reset", "reset", "tap_thresh", "tap_defaults"} => b.tap = c.tap

LEMMA OutcomeTurns ==
  ASSUME NEW s, NEW c \in Chips, NEW b \in Outcomes(s, c), NEW w, NEW v,
         w.on = c.on, w.saved = saved, w.dmp <=> handle.dmp_inited, v.on = b.on
  PROVE  Turned(s, w, v) /\ ChipStored(s, c, b)
<1> DEFINE Good == Turned(s, w, v) /\ ChipStored(s, c, b)
<1> SUFFICES Good
  OBVIOUS
<1>1. CASE s.do \in {"on", "raise"}
  <2>1. b \in WithOn(c, {s.opt})
    BY <1>1, Zenon DEF Outcomes
  <2>2. b.on = c.on \union {s.opt} /\ b.queued = c.queued /\ b.tap = c.tap
    BY <2>1 DEF WithOn, Chips
  <2> QED
    BY <1>1, <2>2 DEF Turned, Turning, ChipStored
<1>2. CASE s.do \in {"off", "drop"}
  <2>1. b \in WithOff(c, {s.opt})
    BY <1>2, Zenon DEF Outcomes
  <2>2. b.on = c.on \ {s.opt} /\ b.queued = c.queued /\ b.tap = c.tap
    BY <2>1 DEF WithOff, Chips
  <2> QED
    BY <1>2, <2>2 DEF Turned, Turning, ChipStored
<1>3. CASE s.do \in {"init_reset", "reset"}
  <2>1. b \in Reset(c)
    BY <1>3, Zenon DEF Outcomes
  <2>2. b.on \subseteq Defaults \union {"sleep"} /\ b.queued = {}
    BY <2>1 DEF Reset
  <2> QED
    BY <1>3, <2>2 DEF Turned, Turning, ChipStored
<1>4. CASE s.do = "power_down"
  <2>1. b \in {[c EXCEPT !.on =
                   (@ \ ({"cycle_wake_up", "gyro_standby"} \union Inverted))
                     \union {"sleep"}]}
    BY <1>4, Zenon DEF Outcomes
  <2>2. b.queued = c.queued /\ b.tap = c.tap
    BY <2>1 DEF Chips
  <2> QED
    BY <1>4, <2>2 DEF Turned, Turning, ChipStored
<1>5. CASE s.do = "no_power"
  <2>1. b \in {[c EXCEPT !.on = (@ \ Power) \union Inverted]}
    BY <1>5, Zenon DEF Outcomes
  <2>2. b.queued = c.queued /\ b.tap = c.tap
    BY <2>1 DEF Chips
  <2> QED
    BY <1>5, <2>2 DEF Turned, Turning, ChipStored
<1>6. ASSUME NEW x, b \in WithOff(c, x)
      PROVE  b.on = c.on \ x /\ b.queued = c.queued /\ b.tap = c.tap
  BY <1>6 DEF WithOff, Chips
<1>7. ASSUME NEW x, b \in WithOn(c, x)
      PROVE  b.on = c.on \union x /\ b.queued = c.queued /\ b.tap = c.tap
  BY <1>7 DEF WithOn, Chips
<1>8. CASE s.do \in {"no_master", "no_user", "no_tests", "no_irq", "no_sources"}
  <2>1. \/ b \in WithOff(c, Master) \/ b \in WithOff(c, UserCtrl)
        \/ b \in WithOff(c, Elements(Tests)) \/ b \in WithOff(c, Interrupts)
        \/ b \in WithOff(c, Sources)
    BY <1>8, Zenon DEF Outcomes
  <2>2. b.queued = c.queued /\ b.tap = c.tap
    BY <1>6, <2>1
  <2> QED
    BY <1>8, <2>2 DEF Turned, Turning, ChipStored
<1>9. CASE s.do = "mask_irq"
  <2>1. b \in WithOff(c, Interrupts)
    BY <1>9, Zenon DEF Outcomes
  <2>2. b.on = c.on \ Interrupts /\ b.queued = c.queued /\ b.tap = c.tap
    BY <1>6, <2>1
  <2> QED
    BY <1>9, <2>2 DEF Turned, Turning, ChipStored
<1>10. CASE s.do = "mask_fifo"
  <2>1. b \in WithOff(c, Sources)
    BY <1>10, Zenon DEF Outcomes
  <2>2. b.on = c.on \ Sources /\ b.queued = c.queued /\ b.tap = c.tap
    BY <1>6, <2>1
  <2> QED
    BY <1>10, <2>2 DEF Turned, Turning, ChipStored
<1>11. CASE s.do = "unmask_irq"
  <2>1. b \in WithOn(c, saved \intersect Interrupts)
    BY <1>11, Zenon DEF Outcomes
  <2>2. /\ b.on = c.on \union (saved \intersect Interrupts)
        /\ b.queued = c.queued /\ b.tap = c.tap
    BY <1>7, <2>1
  <2> QED
    BY <1>11, <2>2 DEF Turned, Turning, ChipStored
<1>12. CASE s.do = "unmask_fifo"
  <2>1. b \in WithOn(c, saved \intersect Sources)
    BY <1>12, Zenon DEF Outcomes
  <2>2. /\ b.on = c.on \union (saved \intersect Sources)
        /\ b.queued = c.queued /\ b.tap = c.tap
    BY <1>7, <2>1
  <2> QED
    BY <1>12, <2>2 DEF Turned, Turning, ChipStored
<1>13. CASE s.do = "flush"
  <2>1. b \in {[c EXCEPT !.on = @ \ {"fifo", "dmp"}, !.queued = {}]}
    BY <1>13, Zenon DEF Outcomes
  <2>2. b.on = c.on \ {"fifo", "dmp"} /\ b.queued = {} /\ b.tap = c.tap
    BY <2>1 DEF Chips
  <2> QED
    BY <1>13, <2>2 DEF Turned, Turning, ChipStored
<1>14. CASE s.do = "run"
  <2>1. b \in {[c EXCEPT !.on = @ \union Runs, !.queued = {}]}
    BY <1>14, Zenon DEF Outcomes
  <2>2. b.on = c.on \union Runs /\ b.queued = {} /\ b.tap = c.tap
    BY <2>1 DEF Chips
  <2>3. Runs = {"fifo"} \union (IF w.dmp THEN {"dmp"} ELSE {})
    BY DEF Runs
  <2>4. b.on = w.on \union {"fifo"} \union (IF w.dmp THEN {"dmp"} ELSE {})
    BY <2>2, <2>3
  <2> QED
    BY <1>14, <2>2, <2>4 DEF Turned, Turning, ChipStored
<1>15. CASE s.do = "drain"
  <2>1. b \in {[c EXCEPT !.queued = {}]}
    BY <1>15, Zenon DEF Outcomes
  <2>2. b.on = c.on /\ b.queued = {} /\ b.tap = c.tap
    BY <2>1 DEF Chips
  <2> QED
    BY <1>15, <2>2 DEF Turned, Turning, ChipStored
<1>16. CASE s.do = "load"
  <2>1. b \in {[c EXCEPT !.loaded = TRUE]}
    BY <1>16, Zenon DEF Outcomes
  <2>2. b.on = c.on /\ b.queued = c.queued /\ b.tap = c.tap
    BY <2>1 DEF Chips
  <2> QED
    BY <1>16, <2>2 DEF Turned, Turning, ChipStored
<1>17. CASE s.do = "tap_defaults"
  <2>1. b \in {[c EXCEPT !.tap = "defaults"]}
    BY <1>17, Zenon DEF Outcomes
  <2>2. b.on = c.on /\ b.queued = c.queued
    BY <2>1 DEF Chips
  <2> QED
    BY <1>17, <2>2 DEF Turned, Turning, ChipStored
<1>18. CASE s.do = "tap_thresh"
  <2>1. b \in {[c EXCEPT !.tap = "set"]}
    BY <1>18, Zenon DEF Outcomes
  <2>2. b.on = c.on /\ b.queued = c.queued /\ b.tap = "set"
    BY <2>1 DEF Chips
  <2> QED
    BY <1>18, <2>2 DEF Turned, Turning, ChipStored
<1>19. CASE s.do \notin Turning \union {"drain", "load", "tap_defaults", "tap_thresh"}
  <2>1. b \in {c}
    BY <1>19, Zenon DEF Outcomes, Turning
  <2>2. b = c
    BY <2>1
  <2> QED
    BY <1>19, <2>2 DEF Turned, Turning, ChipStored
<1> HIDE DEF Good
<1> QED
  BY <1>1, <1>2, <1>3, <1>4, <1>5, <1>8, <1>9, <1>10, <1>11, <1>12, <1>13, <1>14,
     <1>15, <1>16, <1>17, <1>18, <1>19 DEF Turning

LEMMA MagTurns ==
  ASSUME NEW s
  PROVE  /\ s.do = "mag_mode" => MagAfter(s) = "measuring"
         /\ s.do \notin {"mag_reset", "mag_down", "mag_rom", "mag_mode"} => MagAfter(s) = mag
BY DEF MagAfter

LEMMA HandleTurns ==
  ASSUME NEW s, handle \in Handles
  PROVE  /\ s.do \in {"link", "poll"} => ~ Handled(s).dmp_inited
         /\ s.do = "start" => Handled(s).dmp_inited
         /\ s.do \notin {"link", "poll", "start", "close"} =>
              (Handled(s).dmp_inited <=> handle.dmp_inited)
         /\ s.do = "link" => ~ Handled(s).mag_inited
         /\ s.do \notin {"link", "mag_inited", "mag_closed"} =>
              (Handled(s).mag_inited <=> handle.mag_inited)
<1>1. s.do = "start" => Handled(s).dmp_inited
  BY DEF Handled, Handles
<1>2. Handled(s).dmp_inited \in BOOLEAN /\ handle.dmp_inited \in BOOLEAN
      /\ Handled(s).mag_inited \in BOOLEAN /\ handle.mag_inited \in BOOLEAN
  BY HandledIs DEF Handles
<1>3. s.do \in {"mag_inited", "mag_closed"} => (Handled(s).dmp_inited <=> handle.dmp_inited)
  BY HandledIs
<1>4. s.do \in {"poll", "start", "close"} => (Handled(s).mag_inited <=> handle.mag_inited)
  BY HandledIs
<1>5. s.do \notin {"link", "poll", "start", "mag_inited", "mag_closed", "close"} =>
        Handled(s) = handle
  BY HandledIs
<1>6. /\ s.do \in {"link", "poll"} => ~ Handled(s).dmp_inited
      /\ s.do = "link" => ~ Handled(s).mag_inited
  BY HandledIs
<1> QED
  BY <1>1, <1>3, <1>4, <1>5, <1>6

LEMMA NowIn == ASSUME Types PROVE now \in World
<1>1. handle.dmp_inited \in BOOLEAN /\ handle.mag_inited \in BOOLEAN
  BY DEF Types, Handles
<1>2. /\ chip.on \in SUBSET Option /\ chip.queued \in Few
      /\ chip.tap \in {"unset", "defaults", "set"}
  BY DEF Types, Chips
<1>3. asked.on \in SUBSET Option /\ asked.off \in SUBSET Option /\ mag \in Mag
      /\ saved \in SUBSET Option
  BY DEF Types
<1> QED
  BY <1>1, <1>2, <1>3 DEF now, World

LEMMA AdvanceTurns ==
  ASSUME IInv, Advance
  PROVE  Can(Head(todo), now) /\ Turns(Head(todo), now, now')
<1> DEFINE s == Head(todo)
<1>1. Types /\ Types'
  BY AdvanceTypes DEF IInv
<1>2. now \in World /\ (now \in World)'
  <2>1. Types' => (now \in World)'
    BY NowIn, PTL
  <2> QED
    BY <1>1, <2>1, NowIn
<1>3. /\ Answers(s) /\ chip' \in Outcomes(s, chip) /\ mag' = MagAfter(s)
      /\ handle' = Handled(s) /\ asked' = Asked(s)
      /\ saved' = IF s.do = "save" THEN chip.on ELSE saved
  BY DEF Advance
<1> HIDE DEF s
<1>4. /\ now.on = chip.on /\ now.queued = chip.queued /\ now.tap = chip.tap
      /\ now.mag = mag /\ now.saved = saved /\ now.yes = asked.on /\ now.no = asked.off
      /\ now.dmp = handle.dmp_inited /\ now.magin = handle.mag_inited
  BY DEF now
<1>5. /\ now'.on = chip'.on /\ now'.queued = chip'.queued /\ now'.tap = chip'.tap
      /\ now'.mag = mag' /\ now'.saved = saved' /\ now'.yes = asked'.on
      /\ now'.no = asked'.off
      /\ now'.dmp = handle'.dmp_inited /\ now'.magin = handle'.mag_inited
  BY DEF now
<1>6. Can(s, now)
  BY <1>3, <1>4 DEF Can, Answers
<1>7. Turned(s, now, now') /\ ChipStored(s, chip, chip')
  <2> DEFINE w == now
             v == now'
             b == chip'
  <2>1. /\ chip \in Chips /\ b \in Outcomes(s, chip) /\ w.on = chip.on /\ w.saved = saved
        /\ w.dmp = handle.dmp_inited /\ v.on = b.on
    BY <1>1, <1>3, <1>4, <1>5 DEF Types
  <2> HIDE DEF w, v, b
  <2>2. Turned(s, w, v) /\ ChipStored(s, chip, b)
    BY <2>1, OutcomeTurns
  <2> QED
    BY <2>2 DEF w, v, b
<1>8. Stored(s, now, now')
  BY <1>3, <1>4, <1>5, <1>7, MagTurns DEF Stored, ChipStored
<1>9. Noted(s, now, now')
  <2>1. now'.saved = IF s.do = "save" THEN now.on ELSE now.saved
    BY <1>3, <1>4, <1>5
  <2>2. /\ s.do = "on" => now'.yes = now.yes \union {s.opt} /\ now'.no = now.no \ {s.opt}
        /\ s.do = "off" => now'.yes = now.yes \ {s.opt} /\ now'.no = now.no \union {s.opt}
        /\ s.do \notin {"on", "off"} => now'.yes = now.yes /\ now'.no = now.no
    BY <1>3, <1>4, <1>5 DEF Asked
  <2>3. /\ s.do \in {"link", "poll"} => ~ now'.dmp
        /\ s.do = "start" => now'.dmp
        /\ s.do \notin {"link", "poll", "start", "close"} => (now'.dmp <=> now.dmp)
        /\ s.do = "link" => ~ now'.magin
        /\ s.do \notin {"link", "mag_inited", "mag_closed"} => (now'.magin <=> now.magin)
    BY <1>1, <1>3, <1>4, <1>5, HandleTurns DEF Types
  <2>4. /\ now.dmp \in BOOLEAN /\ now'.dmp \in BOOLEAN
        /\ now.magin \in BOOLEAN /\ now'.magin \in BOOLEAN
    BY <1>1, <1>4, <1>5 DEF Types, Handles
  <2> QED
    BY <2>1, <2>2, <2>3, <2>4 DEF Noted
<1> QED
  BY <1>2, <1>6, <1>7, <1>8, <1>9 DEF Turns, s

LEMMA SlipAnswers ==
  ASSUME Slip, Can(Head(todo), now)
  PROVE  slips' = slips + 1
<1>1. Answers(Head(todo))
  BY DEF Can, Answers, now
<1> QED
  BY <1>1, Zenon DEF Slip

LEMMA ProduceBrews ==
  ASSUME IInv, Produce
  PROVE  Brews(now, now')
<1>1. chip \in Chips /\ chip' = [chip EXCEPT !.queued = {Layout}]
      /\ UNCHANGED <<mode, handle, mag, call, todo, undo, saved, asked, slips, failed,
                     last, ready>>
  BY DEF Produce, IInv, Types
<1>2. Layout = Kind(now.on)
  BY DEF Layout, Kind, now
<1>3. "fifo" \in now.on /\ "sleep" \notin now.on /\ Kind(now.on) # {}
  BY <1>2 DEF Produce, Asleep, now
<1>4. chip'.on = chip.on /\ chip'.queued = {Layout} /\ chip'.tap = chip.tap
  BY <1>1 DEF Chips
<1>5. now' = [now EXCEPT !.queued = {Kind(now.on)}]
  BY <1>1, <1>2, <1>4 DEF now
<1> QED
  BY <1>3, <1>5 DEF Brews


(* What is known of a world: the setters' wishes hold, but for those in loose
   (asked for on, perhaps off) and odd (asked for off, perhaps on); which
   options are on and off; which have not been asked for on or off; and what
   the flags, the magnetometer, the tap detection and the fifo may be. *)
Fits(p, w) ==
  /\ p.fifo = "none" => w.queued = {}
  /\ p.fifo = "fit" => w.queued \subseteq {Kind(w.on)}

Known(p) ==
  {w \in World :
     /\ w.yes \subseteq w.on \union p.loose
     /\ w.on \intersect w.no \subseteq {"iic_bypass"} \union p.odd
     /\ p.on \subseteq w.on /\ p.off \intersect w.on = {}
     /\ p.notyes \intersect w.yes = {} /\ p.notno \intersect w.no = {}
     /\ w.dmp \in p.dmp /\ w.magin \in p.magin /\ w.mag \in p.mag /\ w.tap \in p.tap
     /\ Fits(p, w)}

(* The chip cannot store what p excludes. *)
Shut(p) == p.fifo = "none" => "fifo" \in p.off \/ "sleep" \in p.on

Weaker(p, q) ==
  /\ p.loose \subseteq q.loose /\ p.odd \subseteq q.odd
  /\ q.on \subseteq p.on /\ q.off \subseteq p.off
  /\ q.notyes \subseteq p.notyes /\ q.notno \subseteq p.notno
  /\ p.dmp \subseteq q.dmp /\ p.magin \subseteq q.magin
  /\ p.mag \subseteq q.mag /\ p.tap \subseteq q.tap
  /\ q.fifo \in {"any", p.fifo}

LEMMA KnownIn == ASSUME NEW p PROVE Known(p) \subseteq World
BY DEF Known

LEMMA KnownLess ==
  ASSUME NEW p, NEW q, Weaker(p, q)
  PROVE  Known(p) \subseteq Known(q)
<1> SUFFICES ASSUME NEW w \in Known(p) PROVE w \in Known(q)
  OBVIOUS
<1>1. Fits(q, w)
  BY DEF Known, Fits, Weaker
<1>2. /\ w \in World /\ w.yes \subseteq w.on \union p.loose
      /\ w.on \intersect w.no \subseteq {"iic_bypass"} \union p.odd
      /\ p.on \subseteq w.on /\ p.off \intersect w.on = {}
      /\ p.notyes \intersect w.yes = {} /\ p.notno \intersect w.no = {}
      /\ w.dmp \in p.dmp /\ w.magin \in p.magin /\ w.mag \in p.mag /\ w.tap \in p.tap
  BY DEF Known
<1>3. /\ w.yes \subseteq w.on \union q.loose
      /\ w.on \intersect w.no \subseteq {"iic_bypass"} \union q.odd
  BY <1>2 DEF Weaker
<1>4. /\ q.on \subseteq w.on /\ q.off \intersect w.on = {}
      /\ q.notyes \intersect w.yes = {} /\ q.notno \intersect w.no = {}
  BY <1>2 DEF Weaker
<1>5. w.dmp \in q.dmp /\ w.magin \in q.magin /\ w.mag \in q.mag /\ w.tap \in q.tap
  BY <1>2 DEF Weaker
<1> QED
  BY <1>1, <1>2, <1>3, <1>4, <1>5 DEF Known

LEMMA StillKnown == ASSUME NEW p, Shut(p) PROVE Still(Known(p))
<1> SUFFICES ASSUME NEW w \in Known(p), NEW v, Brews(w, v) PROVE v \in Known(p)
  BY KnownIn DEF Still
<1>1. w \in World
  BY KnownIn
<1>2. /\ v \in World /\ v.on = w.on /\ v.tap = w.tap /\ v.mag = w.mag
      /\ v.yes = w.yes /\ v.no = w.no /\ v.dmp = w.dmp /\ v.magin = w.magin
      /\ v.queued = {Kind(w.on)} /\ "fifo" \in w.on /\ "sleep" \notin w.on
  BY <1>1, BrewsIn
<1>3. p.fifo # "none"
  BY <1>2 DEF Known, Shut
<1>4. Fits(p, v)
  BY <1>2, <1>3 DEF Fits
<1> QED
  BY <1>2, <1>4 DEF Known

(* Step by step. *)
LEMMA KnownThen ==
  ASSUME NEW p, NEW q, NEW r, NEW s \in Seq(AStep), NEW t \in Seq(AStep),
         Leads(Known(p), s, Known(q)), Leads(Known(q), t, Known(r))
  PROVE  Leads(Known(p), s \o t, Known(r))
BY KnownIn, LeadsThen

LEMMA KnownMore ==
  ASSUME NEW p, NEW q, NEW r, NEW s, Leads(Known(p), s, Known(q)), Weaker(q, r)
  PROVE  Leads(Known(p), s, Known(r))
BY KnownLess, LeadsLess

(* The steps that change something else. *)
Changing ==
  Turning \union {"drain", "tap_thresh", "tap_defaults", "mag_reset", "mag_down",
                  "mag_rom", "mag_mode", "save", "link", "poll", "start", "close",
                  "mag_inited", "mag_closed"}

LEMMA NothingTurns ==
  ASSUME NEW s, NEW w, NEW v, s.do \notin Changing, Turns(s, w, v)
  PROVE  /\ v \in World /\ v.on = w.on /\ v.queued = w.queued /\ v.tap = w.tap
         /\ v.mag = w.mag /\ v.saved = w.saved /\ v.yes = w.yes /\ v.no = w.no
         /\ v.dmp = w.dmp /\ v.magin = w.magin
<1>1. v \in World /\ Turned(s, w, v) /\ Stored(s, w, v) /\ Noted(s, w, v)
  BY DEF Turns
<1>2. v.on = w.on
  BY <1>1 DEF Turned, Changing
<1>3. v.queued = w.queued /\ v.tap = w.tap /\ v.mag = w.mag
  BY <1>1 DEF Stored, Changing, Turning
<1>4. /\ v.saved = w.saved /\ v.yes = w.yes /\ v.no = w.no
      /\ v.dmp = w.dmp /\ v.magin = w.magin
  BY <1>1 DEF Noted, Changing, Turning
<1> QED
  BY <1>1, <1>2, <1>3, <1>4

LEMMA SwitchTurns ==
  ASSUME NEW s, NEW w, NEW v, s.do \in Switches, Turns(s, w, v)
  PROVE  /\ v \in World /\ v.queued = w.queued /\ v.tap = w.tap
         /\ v.mag = w.mag /\ v.saved = w.saved
         /\ v.dmp = w.dmp /\ v.magin = w.magin
         /\ s.do \in {"on", "raise"} => v.on = w.on \union {s.opt}
         /\ s.do \in {"off", "drop"} => v.on = w.on \ {s.opt}
         /\ s.do = "on" => v.yes = w.yes \union {s.opt} /\ v.no = w.no \ {s.opt}
         /\ s.do = "off" => v.yes = w.yes \ {s.opt} /\ v.no = w.no \union {s.opt}
         /\ s.do \in {"raise", "drop"} => v.yes = w.yes /\ v.no = w.no
<1>1. v \in World /\ Turned(s, w, v) /\ Stored(s, w, v) /\ Noted(s, w, v)
  BY DEF Turns
<1>2. v.queued = w.queued /\ v.tap = w.tap /\ v.mag = w.mag
  BY <1>1 DEF Stored, Switches
<1>3. v.saved = w.saved /\ v.dmp = w.dmp /\ v.magin = w.magin
  BY <1>1 DEF Noted, Switches
<1>4. /\ s.do = "on" => v.yes = w.yes \union {s.opt} /\ v.no = w.no \ {s.opt}
      /\ s.do = "off" => v.yes = w.yes \ {s.opt} /\ v.no = w.no \union {s.opt}
      /\ s.do \in {"raise", "drop"} => v.yes = w.yes /\ v.no = w.no
  BY <1>1 DEF Noted
<1>5. /\ s.do \in {"on", "raise"} => v.on = w.on \union {s.opt}
      /\ s.do \in {"off", "drop"} => v.on = w.on \ {s.opt}
  BY <1>1 DEF Turned
<1> QED
  BY <1>1, <1>2, <1>3, <1>4, <1>5

(* A step that is always answered. *)
Mute == {"sources", "refuse"} \union MagSteps

LEMMA CanAlways == ASSUME NEW s, NEW w, s.do \notin Mute PROVE Can(s, w)
BY DEF Can, Mute

(* What a switch makes of what is known. *)
Learns(p, s, q) ==
  /\ s.do \in {"on", "raise"} =>
       q.on \subseteq p.on \union {s.opt} /\ q.off \subseteq p.off \ {s.opt}
  /\ s.do \in {"off", "drop"} =>
       q.on \subseteq p.on \ {s.opt} /\ q.off \subseteq p.off \union {s.opt}
  /\ s.do = "on" =>
       q.notyes \subseteq p.notyes \ {s.opt} /\ q.notno \subseteq p.notno \union {s.opt}
  /\ s.do = "off" =>
       q.notyes \subseteq p.notyes \union {s.opt} /\ q.notno \subseteq p.notno \ {s.opt}
  /\ s.do \in {"raise", "drop"} =>
       q.notyes \subseteq p.notyes /\ q.notno \subseteq p.notno
  /\ s.do = "raise" => s.opt \in p.notno \union q.odd \union {"iic_bypass"}
  /\ s.do = "drop" => s.opt \in p.notyes \union q.loose
  /\ p.loose \ (IF s.do = "drop" THEN {} ELSE {s.opt}) \subseteq q.loose
  /\ p.odd \ (IF s.do = "raise" THEN {} ELSE {s.opt}) \subseteq q.odd
  /\ p.dmp \subseteq q.dmp /\ p.magin \subseteq q.magin
  /\ p.mag \subseteq q.mag /\ p.tap \subseteq q.tap
  /\ p.fifo # "fit" /\ q.fifo \in {"any", p.fifo}

LEMMA SwitchKnown ==
  ASSUME NEW p, NEW q, NEW s \in [do : Switches, opt : Option], Learns(p, s, q),
         NEW w \in Known(p), NEW v, Turns(s, w, v)
  PROVE  v \in Known(q)
<1>1. s.do \in {"on", "off", "raise", "drop"}
  BY DEF Switches
<1>2. /\ v \in World /\ v.queued = w.queued /\ v.tap = w.tap
      /\ v.mag = w.mag /\ v.dmp = w.dmp /\ v.magin = w.magin
      /\ s.do \in {"on", "raise"} => v.on = w.on \union {s.opt}
      /\ s.do \in {"off", "drop"} => v.on = w.on \ {s.opt}
      /\ s.do = "on" => v.yes = w.yes \union {s.opt} /\ v.no = w.no \ {s.opt}
      /\ s.do = "off" => v.yes = w.yes \ {s.opt} /\ v.no = w.no \union {s.opt}
      /\ s.do \in {"raise", "drop"} => v.yes = w.yes /\ v.no = w.no
  BY <1>1, SwitchTurns DEF Switches
<1>3. /\ w \in World /\ w.yes \subseteq w.on \union p.loose
      /\ w.on \intersect w.no \subseteq {"iic_bypass"} \union p.odd
      /\ p.on \subseteq w.on /\ p.off \intersect w.on = {}
      /\ p.notyes \intersect w.yes = {} /\ p.notno \intersect w.no = {}
      /\ w.dmp \in p.dmp /\ w.magin \in p.magin /\ w.mag \in p.mag /\ w.tap \in p.tap
      /\ Fits(p, w)
  BY DEF Known
<1>4. v.dmp \in q.dmp /\ v.magin \in q.magin /\ v.mag \in q.mag /\ v.tap \in q.tap
  BY <1>2, <1>3 DEF Learns
<1>5. Fits(q, v)
  BY <1>2, <1>3 DEF Learns, Fits
<1>6. CASE s.do = "on"
  <2>1. /\ v.yes \subseteq v.on \union q.loose
        /\ v.on \intersect v.no \subseteq {"iic_bypass"} \union q.odd
    BY <1>2, <1>3, <1>6 DEF Learns
  <2>2. /\ q.on \subseteq v.on /\ q.off \intersect v.on = {}
        /\ q.notyes \intersect v.yes = {} /\ q.notno \intersect v.no = {}
    BY <1>2, <1>3, <1>6 DEF Learns
  <2> QED
    BY <1>2, <1>4, <1>5, <2>1, <2>2 DEF Known
<1>7. CASE s.do = "off"
  <2>1. /\ v.yes \subseteq v.on \union q.loose
        /\ v.on \intersect v.no \subseteq {"iic_bypass"} \union q.odd
    BY <1>2, <1>3, <1>7 DEF Learns
  <2>2. /\ q.on \subseteq v.on /\ q.off \intersect v.on = {}
        /\ q.notyes \intersect v.yes = {} /\ q.notno \intersect v.no = {}
    BY <1>2, <1>3, <1>7 DEF Learns
  <2> QED
    BY <1>2, <1>4, <1>5, <2>1, <2>2 DEF Known
<1>8. CASE s.do = "raise"
  <2>1. /\ v.yes \subseteq v.on \union q.loose
        /\ v.on \intersect v.no \subseteq {"iic_bypass"} \union q.odd
    BY <1>2, <1>3, <1>8 DEF Learns
  <2>2. /\ q.on \subseteq v.on /\ q.off \intersect v.on = {}
        /\ q.notyes \intersect v.yes = {} /\ q.notno \intersect v.no = {}
    BY <1>2, <1>3, <1>8 DEF Learns
  <2> QED
    BY <1>2, <1>4, <1>5, <2>1, <2>2 DEF Known
<1>9. CASE s.do = "drop"
  <2>1. /\ v.yes \subseteq v.on \union q.loose
        /\ v.on \intersect v.no \subseteq {"iic_bypass"} \union q.odd
    BY <1>2, <1>3, <1>9 DEF Learns
  <2>2. /\ q.on \subseteq v.on /\ q.off \intersect v.on = {}
        /\ q.notyes \intersect v.yes = {} /\ q.notno \intersect v.no = {}
    BY <1>2, <1>3, <1>9 DEF Learns
  <2> QED
    BY <1>2, <1>4, <1>5, <2>1, <2>2 DEF Known
<1> QED
  BY <1>1, <1>6, <1>7, <1>8, <1>9


LEMMA SwitchLeads ==
  ASSUME NEW p, NEW q, NEW s \in [do : Switches, opt : Option], Learns(p, s, q),
         Shut(p), Shut(q)
  PROVE  Leads(Known(p), <<s>>, Known(q))
<1>1. s \in AStep /\ s.do \notin Mute
  BY Kinds DEF Switches, Mute, MagSteps
<1>2. Still(Known(p)) /\ Still(Known(q))
  BY StillKnown
<1>3. ASSUME NEW w \in Known(p)
      PROVE  Can(s, w) /\ \A v : Turns(s, w, v) => v \in Known(q)
  BY <1>1, CanAlways, SwitchKnown
<1> QED
  BY <1>1, <1>2, <1>3, LeadsOne

(* Setters of U for on, of V for off, and what is no switch. *)
Mild(U, V) ==
  {s \in AStep : \/ s.do \notin Changing \union Mute
                 \/ s.do = "on" /\ s.opt \in U
                 \/ s.do = "off" /\ s.opt \in V}

Bears(p, U, V) ==
  /\ U \intersect (p.off \union p.notyes) = {}
  /\ V \intersect (p.on \union p.notno) = {}

LEMMA MildLeads ==
  ASSUME NEW p, NEW U \in SUBSET Option, NEW V \in SUBSET Option,
         Bears(p, U, V), Shut(p), p.fifo # "fit", NEW t \in Seq(Mild(U, V))
  PROVE  Leads(Known(p), t, Known(p))
<1>1. ASSUME NEW s \in Mild(U, V), NEW w \in Known(p), NEW v, Turns(s, w, v)
      PROVE  v \in Known(p)
  <2>1. CASE s.do \notin Changing \union Mute
    <3>1. /\ v \in World /\ v.on = w.on /\ v.queued = w.queued /\ v.tap = w.tap
          /\ v.mag = w.mag /\ v.yes = w.yes /\ v.no = w.no
          /\ v.dmp = w.dmp /\ v.magin = w.magin
      BY <1>1, <2>1, NothingTurns
    <3> QED
      BY <3>1 DEF Known, Fits
  <2>2. CASE s.do \in {"on", "off"}
    <3>1. s \in [do : Switches, opt : Option]
      <4>1. s \in AStep
        BY DEF Mild
      <4> QED
        BY <2>2, <4>1 DEF AStep, Quiet, Plain, Loud, Begins, Ends, MagSteps, Switches
    <3>2. /\ s.do = "on" => s.opt \in U
          /\ s.do = "off" => s.opt \in V
      BY <2>2 DEF Mild, Changing, Turning
    <3>3. Learns(p, s, p)
      BY <2>2, <3>2 DEF Learns, Bears
    <3> QED
      BY <1>1, <3>1, <3>3, SwitchKnown
  <2> QED
    BY <2>1, <2>2 DEF Mild
<1>2. ASSUME NEW s \in Mild(U, V), NEW w \in Known(p) PROVE Can(s, w)
  <2>1. s.do \notin Mute
    BY DEF Mild, Mute, MagSteps
  <2> QED
    BY <2>1, CanAlways
<1>3. Mild(U, V) \in SUBSET AStep
  BY DEF Mild
<1>4. Still(Known(p))
  BY StillKnown
<1> DEFINE S == Mild(U, V)
<1> HIDE DEF S
<1>5. /\ S \in SUBSET AStep /\ t \in Seq(S)
      /\ \A s \in S, w \in Known(p) : Can(s, w) /\ \A v : Turns(s, w, v) => v \in Known(p)
  BY <1>1, <1>2, <1>3 DEF S
<1> QED
  BY <1>4, <1>5, LeadsKeep

(* The first steps of every init. *)
LEMMA OpenTurns ==
  ASSUME NEW w, NEW v, NEW s \in AStep, s.do \in Begins, Turns(s, w, v)
  PROVE  /\ v \in World /\ v.yes = w.yes /\ v.no = w.no /\ v.mag = w.mag
         /\ s.do \in {"link", "poll"} => ~ v.dmp
         /\ s.do = "link" => ~ v.magin
         /\ s.do # "link" => v.magin = w.magin
         /\ s.do \notin {"link", "poll"} => v.dmp = w.dmp
         /\ s.do = "init_reset" => v.on \subseteq Defaults \union {"sleep"} /\ v.queued = {}
         /\ s.do # "init_reset" => v.on = w.on /\ v.queued = w.queued
<1>1. v \in World /\ Turned(s, w, v) /\ Stored(s, w, v) /\ Noted(s, w, v)
  BY DEF Turns
<1>2. /\ s.do = "init_reset" => v.on \subseteq Defaults \union {"sleep"}
      /\ s.do # "init_reset" => v.on = w.on
  BY <1>1 DEF Turned, Begins, Turning
<1>3. /\ s.do = "init_reset" => v.queued = {}
      /\ s.do # "init_reset" => v.queued = w.queued
      /\ v.mag = w.mag
  BY <1>1 DEF Stored, Begins
<1>4. /\ v.yes = w.yes /\ v.no = w.no
      /\ s.do \in {"link", "poll"} => ~ v.dmp
      /\ s.do = "link" => ~ v.magin
      /\ s.do # "link" => v.magin = w.magin
      /\ s.do \notin {"link", "poll"} => v.dmp = w.dmp
  BY <1>1 DEF Noted, Begins
<1> QED
  BY <1>1, <1>2, <1>3, <1>4

(* Known of a world after the reset: the options a mode may rely on not to be
   on, nothing asked for, nothing in the fifo. *)
Late == {"fifo", "dmp", "iic_master"} \union Sources
Taps == {"unset", "defaults", "set"}

Unasked == {w \in World : w.yes = {} /\ w.no = {}}
Linked == {w \in Unasked : ~ w.dmp /\ ~ w.magin}
Clear == {w \in Linked : w.on \intersect Late = {} /\ w.queued = {}}

LEMMA FirstLeads == Leads(Unasked, First, Clear)
<1>1. Still(Unasked) /\ Still(Linked) /\ Still(Clear)
  <2>1. ASSUME NEW w \in World, NEW v, Brews(w, v)
        PROVE  /\ v \in World /\ v.yes = w.yes /\ v.no = w.no
               /\ v.dmp = w.dmp /\ v.magin = w.magin /\ "fifo" \in w.on
    BY <2>1, BrewsIn
  <2>2. Unasked \subseteq World /\ Linked \subseteq Unasked /\ Clear \subseteq Linked
    BY DEF Unasked, Linked, Clear
  <2>3. Still(Unasked)
    BY <2>1, <2>2 DEF Still, Unasked
  <2>4. Still(Linked)
    BY <2>1, <2>2 DEF Still, Unasked, Linked
  <2>5. Still(Clear)
    <3>1. \A w \in Clear : w \in World /\ "fifo" \notin w.on
      BY <2>2 DEF Clear, Late
    <3> QED
      BY <2>1, <3>1 DEF Still
  <2> QED
    BY <2>3, <2>4, <2>5
<1>2. /\ Step("link") \in AStep /\ Step("open") \in AStep /\ Step("identify") \in AStep
      /\ Step("init_reset") \in AStep /\ Step("poll") \in AStep
  BY StepIs DEF Loud, Begins
<1>3. \A x \in Begins : \A w : Can(Step(x), w)
  BY CanAlways, StepIs DEF Begins, Mute, MagSteps
<1>4. \A x : Step(x).do = x
  BY StepIs
<1>5. Leads(Unasked, <<Step("link")>>, Linked)
  <2>1. \A w \in Unasked : \A v : Turns(Step("link"), w, v) => v \in Linked
    <3> SUFFICES ASSUME NEW w \in Unasked, NEW v, Turns(Step("link"), w, v)
                 PROVE  v \in Linked
      OBVIOUS
    <3>1. v \in World /\ v.yes = w.yes /\ v.no = w.no /\ ~ v.dmp /\ ~ v.magin
      BY <1>2, <1>4, OpenTurns DEF Begins
    <3> QED
      BY <3>1 DEF Unasked, Linked
  <2> QED
    BY <1>1, <1>2, <1>3, <2>1, LeadsOne DEF Begins
<1>6. ASSUME NEW x \in {"open", "identify"} PROVE Leads(Linked, <<Step(x)>>, Linked)
  <2>1. \A w \in Linked : \A v : Turns(Step(x), w, v) => v \in Linked
    <3> SUFFICES ASSUME NEW w \in Linked, NEW v, Turns(Step(x), w, v)
                 PROVE  v \in Linked
      OBVIOUS
    <3>1. v \in World /\ v.yes = w.yes /\ v.no = w.no /\ v.dmp = w.dmp /\ v.magin = w.magin
      BY <1>2, <1>4, OpenTurns DEF Begins
    <3> QED
      BY <3>1 DEF Unasked, Linked
  <2> QED
    BY <1>1, <1>2, <1>3, <2>1, LeadsOne DEF Begins
<1>7. Leads(Linked, <<Step("init_reset")>>, Clear)
  <2>1. \A w \in Linked : \A v : Turns(Step("init_reset"), w, v) => v \in Clear
    <3> SUFFICES ASSUME NEW w \in Linked, NEW v, Turns(Step("init_reset"), w, v)
                 PROVE  v \in Clear
      OBVIOUS
    <3>1. /\ v \in World /\ v.yes = w.yes /\ v.no = w.no /\ v.dmp = w.dmp
          /\ v.magin = w.magin /\ v.on \subseteq Defaults \union {"sleep"} /\ v.queued = {}
      BY <1>2, <1>4, OpenTurns DEF Begins
    <3>2. (Defaults \union {"sleep"}) \intersect Late = {}
      BY DEF Defaults, Inverted, Late, Sources
    <3> QED
      BY <3>1, <3>2 DEF Unasked, Linked, Clear
  <2> QED
    BY <1>1, <1>2, <1>3, <2>1, LeadsOne DEF Begins
<1>8. Leads(Clear, <<Step("poll")>>, Clear)
  <2>1. \A w \in Clear : \A v : Turns(Step("poll"), w, v) => v \in Clear
    <3> SUFFICES ASSUME NEW w \in Clear, NEW v, Turns(Step("poll"), w, v)
                 PROVE  v \in Clear
      OBVIOUS
    <3>1. /\ v \in World /\ v.yes = w.yes /\ v.no = w.no /\ ~ v.dmp
          /\ v.magin = w.magin /\ v.on = w.on /\ v.queued = w.queued
      BY <1>2, <1>4, OpenTurns DEF Begins
    <3> QED
      BY <3>1 DEF Unasked, Linked, Clear
  <2> QED
    BY <1>1, <1>2, <1>3, <2>1, LeadsOne DEF Begins
<1> DEFINE a == <<Step("open")>>
           b == <<Step("identify")>>
           c == <<Step("init_reset")>>
           d == <<Step("poll")>>
           l == <<Step("link")>>
<1>9. /\ a \in Seq(AStep) /\ b \in Seq(AStep) /\ c \in Seq(AStep) /\ d \in Seq(AStep)
      /\ l \in Seq(AStep)
  BY <1>2
<1>10. First = l \o (a \o b \o c \o d)
  <2>1. Init9250 = a \o b \o c \o d
    BY DEF Init9250, Steps, Step
  <2> QED
    BY <2>1 DEF First
<1>11. /\ Leads(Unasked, l, Linked) /\ Leads(Linked, a, Linked) /\ Leads(Linked, b, Linked)
       /\ Leads(Linked, c, Clear) /\ Leads(Clear, d, Clear)
  BY <1>5, <1>6, <1>7, <1>8
<1>12. Unasked \subseteq World /\ Linked \subseteq World /\ Clear \subseteq World
  BY DEF Unasked, Linked, Clear
<1> HIDE DEF a, b, c, d, l
<1>13. a \o b \in Seq(AStep) /\ a \o b \o c \in Seq(AStep) /\ a \o b \o c \o d \in Seq(AStep)
  BY <1>9, Together
<1>14. Leads(Linked, a \o b, Linked)
  BY <1>9, <1>11, <1>12, LeadsThen
<1>15. Leads(Linked, a \o b \o c, Clear)
  BY <1>9, <1>11, <1>12, <1>13, <1>14, LeadsThen
<1>16. Leads(Linked, a \o b \o c \o d, Clear)
  BY <1>9, <1>11, <1>12, <1>13, <1>15, LeadsThen
<1>17. Leads(Unasked, l \o (a \o b \o c \o d), Clear)
  BY <1>9, <1>11, <1>12, <1>13, <1>16, LeadsThen
<1> QED
  BY <1>10, <1>17


-----------------------------------------------------------------------------
(* reset_fifo: what it takes away it puts back, but for the DMP's bit, which it
   writes by dmp_inited.  The worlds between its steps, by the one it began
   in. *)
Alike(w, v) ==
  /\ v \in World /\ v.tap = w.tap /\ v.mag = w.mag /\ v.yes = w.yes /\ v.no = w.no
  /\ v.dmp = w.dmp /\ v.magin = w.magin

RunBits(w) == {"fifo"} \union (IF w.dmp THEN {"dmp"} ELSE {})
Bare(w) == w.on \ (Interrupts \union Sources \union {"fifo", "dmp"})

Empties(v) == v.queued \subseteq {{"packet"}} /\ ("dmp" \notin v.on => v.queued = {})

Mid(P, i) ==
  {v \in World : \E w \in P :
     /\ Alike(w, v) /\ v.saved = w.on
     /\ i = 1 => v.on = w.on
     /\ i = 2 => v.on = w.on \ Interrupts
     /\ i = 3 => v.on = w.on \ (Interrupts \union Sources)
     /\ i = 4 => v.on = Bare(w) /\ v.queued = {}
     /\ i = 5 => v.on = Bare(w) \union RunBits(w) /\ Empties(v)
     /\ i = 6 => /\ v.on = Bare(w) \union RunBits(w) \union (w.on \intersect Interrupts)
                 /\ Empties(v)
     /\ i = 7 => /\ v.on = (w.on \ {"fifo", "dmp"}) \union RunBits(w)
                 /\ v.queued \subseteq {Kind(v.on)}}

LEMMA StillMid == ASSUME NEW P, NEW i \in 1 .. 7 PROVE Still(Mid(P, i))
<1> SUFFICES ASSUME NEW u \in Mid(P, i), NEW v, Brews(u, v) PROVE v \in Mid(P, i)
  BY DEF Still, Mid
<1>1. PICK w \in P :
     /\ Alike(w, u) /\ u.saved = w.on
     /\ i = 1 => u.on = w.on
     /\ i = 2 => u.on = w.on \ Interrupts
     /\ i = 3 => u.on = w.on \ (Interrupts \union Sources)
     /\ i = 4 => u.on = Bare(w) /\ u.queued = {}
     /\ i = 5 => u.on = Bare(w) \union RunBits(w) /\ Empties(u)
     /\ i = 6 => /\ u.on = Bare(w) \union RunBits(w) \union (w.on \intersect Interrupts)
                 /\ Empties(u)
     /\ i = 7 => /\ u.on = (w.on \ {"fifo", "dmp"}) \union RunBits(w)
                 /\ u.queued \subseteq {Kind(u.on)}
  BY DEF Mid
<1>2. u \in World
  BY DEF Mid
<1>3. /\ v \in World /\ v.on = u.on /\ v.tap = u.tap /\ v.mag = u.mag
      /\ v.saved = u.saved /\ v.yes = u.yes /\ v.no = u.no
      /\ v.dmp = u.dmp /\ v.magin = u.magin /\ v.queued = {Kind(u.on)}
      /\ "fifo" \in u.on /\ Kind(u.on) # {}
  BY <1>2, BrewsIn
<1>4. Alike(w, v) /\ v.saved = w.on
  BY <1>1, <1>3 DEF Alike
<1>5. i # 4
  BY <1>1, <1>3 DEF Bare
<1>6. i \in {5, 6} => Empties(v)
  <2> SUFFICES ASSUME i \in {5, 6} PROVE Empties(v)
    OBVIOUS
  <2>1. u.on \intersect Sources = {}
    <3>1. (w.on \intersect Interrupts) \intersect Sources = {}
      BY DEF Interrupts, Sources
    <3>2. RunBits(w) \intersect Sources = {}
      BY DEF RunBits, Sources
    <3>3. Bare(w) \intersect Sources = {}
      BY DEF Bare
    <3> QED
      BY <1>1, <3>1, <3>2, <3>3
  <2>2. "dmp" \in u.on /\ Kind(u.on) = {"packet"}
    BY <1>3, <2>1 DEF Kind
  <2> QED
    BY <1>3, <2>2 DEF Empties
<1>7. i = 7 => v.queued \subseteq {Kind(v.on)}
  BY <1>3
<1>8. /\ i = 1 => v.on = w.on
      /\ i = 2 => v.on = w.on \ Interrupts
      /\ i = 3 => v.on = w.on \ (Interrupts \union Sources)
      /\ i = 5 => v.on = Bare(w) \union RunBits(w)
      /\ i = 6 => v.on = Bare(w) \union RunBits(w) \union (w.on \intersect Interrupts)
      /\ i = 7 => v.on = (w.on \ {"fifo", "dmp"}) \union RunBits(w)
  BY <1>1, <1>3
<1> QED
  BY <1>3, <1>4, <1>5, <1>6, <1>7, <1>8 DEF Mid

LEMMA ResetTurns ==
  ASSUME NEW w, NEW v, NEW s, s.do \in InReset, Turns(s, w, v)
  PROVE  /\ Alike(w, v)
         /\ v.saved = IF s.do = "save" THEN w.on ELSE w.saved
         /\ s.do \in {"flush", "run"} => v.queued = {}
         /\ s.do \notin {"flush", "run"} => v.queued = w.queued
         /\ s.do = "save" => v.on = w.on
         /\ s.do = "mask_irq" => v.on = w.on \ Interrupts
         /\ s.do = "mask_fifo" => v.on = w.on \ Sources
         /\ s.do = "flush" => v.on = w.on \ {"fifo", "dmp"}
         /\ s.do = "run" => v.on = w.on \union RunBits(w)
         /\ s.do = "unmask_irq" => v.on = w.on \union (w.saved \intersect Interrupts)
         /\ s.do = "unmask_fifo" => v.on = w.on \union (w.saved \intersect Sources)
<1>1. v \in World /\ Turned(s, w, v) /\ Stored(s, w, v) /\ Noted(s, w, v)
  BY DEF Turns
<1>2. /\ v.tap = w.tap /\ v.mag = w.mag
      /\ s.do \in {"flush", "run"} => v.queued = {}
      /\ s.do \notin {"flush", "run"} => v.queued = w.queued
  BY <1>1 DEF Stored, InReset
<1>3. /\ v.yes = w.yes /\ v.no = w.no /\ v.dmp = w.dmp /\ v.magin = w.magin
      /\ v.saved = IF s.do = "save" THEN w.on ELSE w.saved
  BY <1>1 DEF Noted, InReset
<1>4. s.do = "run" => v.on = w.on \union RunBits(w)
  BY <1>1 DEF Turned, RunBits
<1>5. /\ s.do = "save" => v.on = w.on
      /\ s.do = "mask_irq" => v.on = w.on \ Interrupts
      /\ s.do = "mask_fifo" => v.on = w.on \ Sources
      /\ s.do = "flush" => v.on = w.on \ {"fifo", "dmp"}
      /\ s.do = "unmask_irq" => v.on = w.on \union (w.saved \intersect Interrupts)
      /\ s.do = "unmask_fifo" => v.on = w.on \union (w.saved \intersect Sources)
  BY <1>1 DEF Turned, Turning
<1> QED
  BY <1>1, <1>2, <1>3, <1>4, <1>5 DEF Alike

LEMMA ResetStep ==
  ASSUME NEW P, P \subseteq World, NEW x \in InReset, NEW i \in 1 .. 7,
         x = <<"save", "mask_irq", "mask_fifo", "flush", "run", "unmask_irq",
               "unmask_fifo">>[i],
         NEW u \in (IF i = 1 THEN P ELSE Mid(P, i - 1)), NEW v, Turns(Step(x), u, v)
  PROVE  v \in Mid(P, i)
<1> DEFINE s == Step(x)
<1>1. s.do = x
  BY StepIs
<1> HIDE DEF s
<1>2. /\ Alike(u, v)
      /\ v.saved = IF x = "save" THEN u.on ELSE u.saved
      /\ x \in {"flush", "run"} => v.queued = {}
      /\ x \notin {"flush", "run"} => v.queued = u.queued
      /\ x = "save" => v.on = u.on
      /\ x = "mask_irq" => v.on = u.on \ Interrupts
      /\ x = "mask_fifo" => v.on = u.on \ Sources
      /\ x = "flush" => v.on = u.on \ {"fifo", "dmp"}
      /\ x = "run" => v.on = u.on \union RunBits(u)
      /\ x = "unmask_irq" => v.on = u.on \union (u.saved \intersect Interrupts)
      /\ x = "unmask_fifo" => v.on = u.on \union (u.saved \intersect Sources)
  <2>1. Turns(s, u, v) /\ s.do \in InReset
    BY <1>1 DEF s
  <2> QED
    BY <1>1, <2>1, ResetTurns
<1>3. CASE i = 1
  <2>1. x = "save" /\ u \in P
    BY <1>3
  <2>2. v \in World /\ v.on = u.on /\ v.saved = u.on
    BY <1>2, <2>1 DEF Alike
  <2> QED
    BY <1>2, <1>3, <2>1, <2>2 DEF Mid
<1>4. CASE i # 1
  <2>1. u \in Mid(P, i - 1)
    BY <1>4
  <2>2. PICK w \in P :
     /\ Alike(w, u) /\ u.saved = w.on
     /\ i - 1 = 1 => u.on = w.on
     /\ i - 1 = 2 => u.on = w.on \ Interrupts
     /\ i - 1 = 3 => u.on = w.on \ (Interrupts \union Sources)
     /\ i - 1 = 4 => u.on = Bare(w) /\ u.queued = {}
     /\ i - 1 = 5 => u.on = Bare(w) \union RunBits(w) /\ Empties(u)
     /\ i - 1 = 6 => /\ u.on = Bare(w) \union RunBits(w) \union (w.on \intersect Interrupts)
                     /\ Empties(u)
    BY <2>1 DEF Mid
  <2>3. x # "save"
    BY <1>4
  <2>4. Alike(w, v) /\ v.saved = w.on /\ v \in World
    BY <1>2, <2>2, <2>3 DEF Alike
  <2>5. RunBits(u) = RunBits(w)
    BY <2>2 DEF RunBits, Alike
  <2>6. CASE i = 2
    <3>1. v.on = w.on \ Interrupts
      BY <1>2, <2>2, <2>6
    <3> QED
      BY <2>4, <2>6, <3>1 DEF Mid
  <2>7. CASE i = 3
    <3>1. v.on = w.on \ (Interrupts \union Sources)
      <4>1. u.on = w.on \ Interrupts /\ v.on = u.on \ Sources
        BY <1>2, <2>2, <2>7
      <4> QED
        BY <4>1
    <3> QED
      BY <2>4, <2>7, <3>1 DEF Mid
  <2>8. CASE i = 4
    <3>1. u.on = w.on \ (Interrupts \union Sources) /\ v.on = u.on \ {"fifo", "dmp"}
          /\ v.queued = {}
      BY <1>2, <2>2, <2>8
    <3>2. v.on = Bare(w)
      BY <3>1 DEF Bare
    <3> QED
      BY <2>4, <2>8, <3>1, <3>2 DEF Mid
  <2>9. CASE i = 5
    <3>1. v.on = Bare(w) \union RunBits(w) /\ v.queued = {}
      BY <1>2, <2>2, <2>5, <2>9
    <3> QED
      BY <2>4, <2>9, <3>1 DEF Mid, Empties
  <2>10. CASE i = 6
    <3>1. /\ v.on = Bare(w) \union RunBits(w) \union (w.on \intersect Interrupts)
          /\ v.queued = u.queued /\ u.on = Bare(w) \union RunBits(w) /\ Empties(u)
      BY <1>2, <2>2, <2>10
    <3>2. Empties(v)
      BY <3>1 DEF Empties
    <3> QED
      BY <2>4, <2>10, <3>1, <3>2 DEF Mid
  <2>11. CASE i = 7
    <3>1. /\ u.on = Bare(w) \union RunBits(w) \union (w.on \intersect Interrupts)
          /\ v.on = u.on \union (w.on \intersect Sources) /\ v.queued = u.queued
          /\ Empties(u)
      BY <1>2, <2>2, <2>11
    <3>2. v.on = (w.on \ {"fifo", "dmp"}) \union RunBits(w)
      <4>1. Interrupts \intersect {"fifo", "dmp"} = {}
            /\ Sources \intersect {"fifo", "dmp"} = {}
        BY DEF Interrupts, Sources
      <4> HIDE DEF Interrupts, Sources
      <4> QED
        BY <3>1, <4>1 DEF Bare
    <3>3. v.queued \subseteq {Kind(v.on)}
      <4>1. "dmp" \in v.on => "dmp" \in u.on
        BY <3>1 DEF Sources
      <4>2. "dmp" \in v.on => Kind(v.on) = {"packet"}
        BY DEF Kind
      <4>3. "dmp" \notin v.on => "dmp" \notin u.on
        BY <3>1
      <4> QED
        BY <3>1, <4>2, <4>3 DEF Empties
    <3> QED
      <4>1. /\ Alike(w, v) /\ v.saved = w.on
            /\ i = 7 => /\ v.on = (w.on \ {"fifo", "dmp"}) \union RunBits(w)
                        /\ v.queued \subseteq {Kind(v.on)}
        BY <2>4, <3>2, <3>3
      <4>2. i \notin {1, 2, 3, 4, 5, 6}
        BY <2>11
      <4> QED
        BY <2>4, <4>1, <4>2, Zenon DEF Mid
  <2> QED
    BY <1>4, <2>6, <2>7, <2>8, <2>9, <2>10, <2>11
<1> QED
  BY <1>3, <1>4

LEMMA ResetFifoLeads ==
  ASSUME NEW P, Still(P)
  PROVE  Leads(P, ResetFifo, Mid(P, 7))
<1> DEFINE Names == <<"save", "mask_irq", "mask_fifo", "flush", "run", "unmask_irq",
                      "unmask_fifo">>
           At(i) == IF i = 1 THEN P ELSE Mid(P, i - 1)
           One(i) == <<Step(Names[i])>>
<1>1. ASSUME NEW i \in 1 .. 7
      PROVE  /\ Step(Names[i]) \in AStep /\ Names[i] \in InReset
             /\ Step(Names[i]).do \notin Mute
  <2>1. Names[i] \in InReset
    BY DEF InReset
  <2>2. \A x \in InReset : x \in Plain /\ x \notin Mute
    BY DEF InReset, Plain, Mute, MagSteps
  <2> DEFINE x == Names[i]
  <2>3. x \in InReset
    BY <2>1
  <2> HIDE DEF x
  <2>4. Step(x) \in AStep /\ Step(x).do \notin Mute
    BY <2>2, <2>3, StepIs, Kinds
  <2> QED
    BY <2>3, <2>4 DEF x
<1>2. P \subseteq World
  BY DEF Still
<1>3. ASSUME NEW i \in 1 .. 7 PROVE Still(At(i)) /\ At(i) \subseteq World
  <2>1. i # 1 => i - 1 \in 1 .. 7
    OBVIOUS
  <2>2. i # 1 => Still(Mid(P, i - 1))
    BY <2>1, StillMid
  <2>3. Still(At(i))
    BY <2>2
  <2> QED
    BY <2>3 DEF Still
<1>4. ASSUME NEW i \in 1 .. 7
      PROVE  Leads(At(i), One(i), Mid(P, i)) /\ One(i) \in Seq(AStep)
  <2> DEFINE x == Names[i]
             s == Step(x)
             A == At(i)
  <2>1. s \in AStep /\ x \in InReset /\ s.do \notin Mute /\ Still(A)
    BY <1>1, <1>3
  <2>2. Still(Mid(P, i))
    BY StillMid
  <2>3. \A w \in A : \A v : Turns(s, w, v) => v \in Mid(P, i)
    BY <1>2, <2>1, ResetStep
  <2>4. \A w : Can(s, w)
    BY <2>1, CanAlways
  <2> HIDE DEF s, A
  <2>5. Leads(A, <<s>>, Mid(P, i))
    BY <2>1, <2>2, <2>3, <2>4, LeadsOne
  <2>6. <<s>> \in Seq(AStep)
    BY <2>1
  <2> QED
    BY <2>5, <2>6 DEF s, A
<1>5. ResetFifo = One(1) \o One(2) \o One(3) \o One(4) \o One(5) \o One(6) \o One(7)
  BY DEF ResetFifo, Steps, Step
<1>6. /\ At(1) = P /\ At(2) = Mid(P, 1) /\ At(3) = Mid(P, 2) /\ At(4) = Mid(P, 3)
      /\ At(5) = Mid(P, 4) /\ At(6) = Mid(P, 5) /\ At(7) = Mid(P, 6)
  OBVIOUS
<1>7. \A i \in 1 .. 7 : Leads(At(i), One(i), Mid(P, i)) /\ One(i) \in Seq(AStep)
  BY <1>4
<1> HIDE DEF One, At
<1>8. /\ Leads(P, One(1), Mid(P, 1)) /\ Leads(Mid(P, 1), One(2), Mid(P, 2))
      /\ Leads(Mid(P, 2), One(3), Mid(P, 3)) /\ Leads(Mid(P, 3), One(4), Mid(P, 4))
      /\ Leads(Mid(P, 4), One(5), Mid(P, 5)) /\ Leads(Mid(P, 5), One(6), Mid(P, 6))
      /\ Leads(Mid(P, 6), One(7), Mid(P, 7))
  BY <1>6, <1>7
<1>9. /\ One(1) \in Seq(AStep) /\ One(2) \in Seq(AStep) /\ One(3) \in Seq(AStep)
      /\ One(4) \in Seq(AStep) /\ One(5) \in Seq(AStep) /\ One(6) \in Seq(AStep)
      /\ One(7) \in Seq(AStep)
  BY <1>7
<1> DEFINE a == One(1)
           b == a \o One(2)
           c == b \o One(3)
           d == c \o One(4)
           e == d \o One(5)
           f == e \o One(6)
<1>10. a \in Seq(AStep) /\ Leads(P, a, Mid(P, 1))
  BY <1>8, <1>9
<1> HIDE DEF a
<1>11. b \in Seq(AStep) /\ Leads(P, b, Mid(P, 2))
  BY <1>2, <1>8, <1>9, <1>10, ConcatSeq, LeadsThen
<1> HIDE DEF b
<1>12. c \in Seq(AStep) /\ Leads(P, c, Mid(P, 3))
  BY <1>2, <1>8, <1>9, <1>11, ConcatSeq, LeadsThen
<1> HIDE DEF c
<1>13. d \in Seq(AStep) /\ Leads(P, d, Mid(P, 4))
  BY <1>2, <1>8, <1>9, <1>12, ConcatSeq, LeadsThen
<1> HIDE DEF d
<1>14. e \in Seq(AStep) /\ Leads(P, e, Mid(P, 5))
  BY <1>2, <1>8, <1>9, <1>13, ConcatSeq, LeadsThen
<1> HIDE DEF e
<1>15. f \in Seq(AStep) /\ Leads(P, f, Mid(P, 6))
  BY <1>2, <1>8, <1>9, <1>14, ConcatSeq, LeadsThen
<1> HIDE DEF f
<1>16. Leads(P, f \o One(7), Mid(P, 7))
  BY <1>2, <1>8, <1>9, <1>15, LeadsThen
<1>17. ResetFifo = f \o One(7)
  BY <1>5 DEF a, b, c, d, e, f
<1> QED
  BY <1>16, <1>17

(* And of what is known. *)
Started(p) == {"fifo"} \union (IF p.dmp = {TRUE} THEN {"dmp"} ELSE {})

Restarts(p, q) ==
  /\ {"fifo", "dmp"} \subseteq p.notno
  /\ p.dmp = {TRUE} \/ (p.dmp = {FALSE} /\ "dmp" \in p.notyes)
  /\ q.on \subseteq (p.on \ {"fifo", "dmp"}) \union Started(p)
  /\ q.off \subseteq (p.off \union {"fifo", "dmp"}) \ Started(p)
  /\ q.notyes \subseteq p.notyes /\ q.notno \subseteq p.notno
  /\ p.loose \subseteq q.loose /\ p.odd \subseteq q.odd
  /\ p.dmp \subseteq q.dmp /\ p.magin \subseteq q.magin
  /\ p.mag \subseteq q.mag /\ p.tap \subseteq q.tap
  /\ q.fifo # "none"

LEMMA RestartLeads ==
  ASSUME NEW p, NEW q, Shut(p), Restarts(p, q)
  PROVE  Leads(Known(p), ResetFifo, Known(q))
<1>1. Leads(Known(p), ResetFifo, Mid(Known(p), 7))
  BY StillKnown, ResetFifoLeads
<1>2. ASSUME NEW v \in Mid(Known(p), 7) PROVE v \in Known(q)
  <2>1. PICK w \in Known(p) :
             /\ Alike(w, v) /\ v.on = (w.on \ {"fifo", "dmp"}) \union RunBits(w)
             /\ v.queued \subseteq {Kind(v.on)}
    BY DEF Mid
  <2>2. /\ w \in World /\ w.yes \subseteq w.on \union p.loose
        /\ w.on \intersect w.no \subseteq {"iic_bypass"} \union p.odd
        /\ p.on \subseteq w.on /\ p.off \intersect w.on = {}
        /\ p.notyes \intersect w.yes = {} /\ p.notno \intersect w.no = {}
        /\ w.dmp \in p.dmp /\ w.magin \in p.magin /\ w.mag \in p.mag /\ w.tap \in p.tap
    BY DEF Known
  <2>3. RunBits(w) = Started(p)
    <3>1. CASE p.dmp = {TRUE}
      <4>1. w.dmp
        BY <2>2, <3>1
      <4> QED
        BY <3>1, <4>1, Zenon DEF RunBits, Started
    <3>2. CASE p.dmp = {FALSE}
      <4>1. ~ w.dmp
        BY <2>2, <3>2
      <4>2. p.dmp # {TRUE}
        <5>1. FALSE \in p.dmp
          BY <3>2
        <5> QED
          BY <5>1
      <4> QED
        BY <4>1, <4>2, Zenon DEF RunBits, Started
    <3> QED
      BY <3>1, <3>2 DEF Restarts
  <2>4. v.on = (w.on \ {"fifo", "dmp"}) \union Started(p)
    BY <2>1, <2>3
  <2>5. Fits(q, v)
    BY <2>1 DEF Fits, Restarts
  <2>6. q.on \subseteq v.on /\ q.off \intersect v.on = {}
    BY <2>2, <2>4 DEF Restarts
  <2>7. /\ v.yes \subseteq v.on \union q.loose
        /\ v.on \intersect v.no \subseteq {"iic_bypass"} \union q.odd
    <3>1. v.yes = w.yes /\ v.no = w.no
      BY <2>1 DEF Alike
    <3>2. "dmp" \in w.yes => "dmp" \in Started(p)
      BY <2>2 DEF Restarts, Started
    <3>3. Started(p) \intersect w.no = {} /\ "fifo" \in Started(p)
      BY ZenonT(60), <2>2 DEF Restarts, Started
    <3>4. p.loose \subseteq q.loose /\ p.odd \subseteq q.odd
      BY DEF Restarts
    <3> QED
      BY <2>2, <2>4, <3>1, <3>2, <3>3, <3>4
  <2>8. /\ v \in World /\ q.notyes \intersect v.yes = {} /\ q.notno \intersect v.no = {}
        /\ v.dmp \in q.dmp /\ v.magin \in q.magin /\ v.mag \in q.mag /\ v.tap \in q.tap
    BY <2>1, <2>2 DEF Alike, Restarts
  <2> QED
    BY <2>5, <2>6, <2>7, <2>8 DEF Known
<1> QED
  BY <1>1, <1>2, LeadsLess


(* What the inits know on their way. *)
Sure(on, off, notyes, notno) ==
  [loose |-> {}, odd |-> {}, on |-> on, off |-> off, notyes |-> notyes, notno |-> notno,
   dmp |-> {FALSE}, magin |-> BOOLEAN, mag |-> Mag, tap |-> Taps, fifo |-> "any"]

(* One switch. *)
LEMMA SingleIs ==
  ASSUME NEW o
  PROVE  /\ On(<<o>>) = <<[do |-> "on", opt |-> o]>>
         /\ Off(<<o>>) = <<[do |-> "off", opt |-> o]>>
         /\ Raise(<<o>>) = <<[do |-> "raise", opt |-> o]>>
         /\ Drop(<<o>>) = <<[do |-> "drop", opt |-> o]>>
BY DEF On, Off, Raise, Drop

LEMMA OptionElements ==
  \A o \in {"fifo", "dmp", "iic_master", "sleep", "iic_bypass", "slv0", "fifo_1024kb"}
             \union Sources \union Interrupts : o \in Option
BY OptionsAre DEF UserCtrl

Waiting == [Sure({}, Late, Option, Option) EXCEPT !.magin = {FALSE}, !.fifo = "none"]
Opened ==
  [Sure({}, Late \union {"sleep"}, Option, Option \ {"sleep"})
     EXCEPT !.magin = {FALSE}, !.fifo = "none"]

LEMMA OpenLeads == Leads(Unasked, First \o Off(<<"sleep">>), Known(Opened))
<1>2. /\ Waiting.on = {} /\ Waiting.off = Late /\ Waiting.notyes = Option
      /\ Waiting.notno = Option /\ Waiting.loose = {} /\ Waiting.odd = {}
      /\ Waiting.dmp = {FALSE} /\ Waiting.magin = {FALSE} /\ Waiting.mag = Mag
      /\ Waiting.tap = Taps /\ Waiting.fifo = "none"
  BY DEF Waiting, Sure
<1>3. /\ Opened.on = {} /\ Opened.off = Late \union {"sleep"} /\ Opened.notyes = Option
      /\ Opened.notno = Option \ {"sleep"} /\ Opened.loose = {} /\ Opened.odd = {}
      /\ Opened.dmp = {FALSE} /\ Opened.magin = {FALSE} /\ Opened.mag = Mag
      /\ Opened.tap = Taps /\ Opened.fifo = "none"
  BY DEF Opened, Sure
<1>4. Clear \subseteq Known(Waiting)
  <2> SUFFICES ASSUME NEW w \in Clear PROVE w \in Known(Waiting)
    OBVIOUS
  <2>1. /\ w \in World /\ w.yes = {} /\ w.no = {} /\ ~ w.dmp /\ ~ w.magin
        /\ w.on \intersect Late = {} /\ w.queued = {}
    BY DEF Clear, Linked, Unasked
  <2>2. w.dmp \in Waiting.dmp /\ w.magin \in Waiting.magin
    BY <1>2, <2>1 DEF World
  <2>3. w.mag \in Waiting.mag /\ w.tap \in Waiting.tap
    BY <1>2, <2>1 DEF World, Taps
  <2> QED
    BY <1>2, <2>1, <2>2, <2>3 DEF Known, Fits
<1> DEFINE s == [do |-> "off", opt |-> "sleep"]
<1>5. s \in [do : Switches, opt : Option] /\ Off(<<"sleep">>) = <<s>> /\ s \in AStep
  <2>1. s \in [do : Switches, opt : Option] /\ Off(<<"sleep">>) = <<s>>
    BY OptionElements, SingleIs DEF Switches
  <2> QED
    BY <2>1, Kinds
<1>6. Leads(Known(Waiting), <<s>>, Known(Opened))
  <2>1. Learns(Waiting, s, Opened)
    BY <1>2, <1>3 DEF Learns
  <2>2. Shut(Waiting) /\ Shut(Opened)
    BY <1>2, <1>3 DEF Shut, Late
  <2> QED
    BY <1>5, <2>1, <2>2, SwitchLeads
<1>7. Leads(Clear, <<s>>, Known(Opened))
  BY <1>4, <1>6, LeadsLess
<1>8. Unasked \subseteq World /\ <<s>> \in Seq(AStep)
  BY <1>5 DEF Unasked
<1> HIDE DEF s
<1> QED
  BY <1>5, <1>7, <1>8, FirstLeads, FirstIs, LeadsThen


(* What all inits may ask for, on their way. *)
Ons == Option \ ({"sleep", "fifo", "dmp", "iic_master", "iic_bypass"} \union Sources)
Offs == Option \ ({"fifo", "dmp", "slv0"} \union (Sources \ {"fifo_temp"}))
Common == Mild(Ons, Offs)

LEMMA MildSwitches ==
  ASSUME NEW U \in SUBSET Option, NEW V \in SUBSET Option
  PROVE  /\ \A t \in Seq(U) : On(t) \in Seq(Mild(U, V))
         /\ \A t \in Seq(V) : Off(t) \in Seq(Mild(U, V))
<1> DEFINE Q == Mild(U, V)
<1>1. \A o \in U : [do |-> "on", opt |-> o] \in Q
  <2> SUFFICES ASSUME NEW o \in U PROVE [do |-> "on", opt |-> o] \in Q
    OBVIOUS
  <2>1. [do |-> "on", opt |-> o] \in AStep
    BY Kinds DEF Switches
  <2> QED
    BY <2>1 DEF Mild
<1>2. \A o \in V : [do |-> "off", opt |-> o] \in Q
  <2> SUFFICES ASSUME NEW o \in V PROVE [do |-> "off", opt |-> o] \in Q
    OBVIOUS
  <2>1. [do |-> "off", opt |-> o] \in AStep
    BY Kinds DEF Switches
  <2> QED
    BY <2>1 DEF Mild
<1> HIDE DEF Q
<1>3. ASSUME NEW t \in Seq(U) PROVE On(t) \in Seq(Q)
  <2>1. DOMAIN t = 1 .. Len(t) /\ Len(t) \in Nat
    BY LenProperties
  <2>2. \A i \in 1 .. Len(t) : t[i] \in U
    BY ElementOfSeq
  <2>3. \A f : f \in [1 .. Len(t) -> Q] => f \in Seq(Q)
    BY <2>1, SeqDef
  <2>4. On(t) \in [1 .. Len(t) -> Q]
    BY <1>1, <2>1, <2>2 DEF On
  <2> QED
    BY <2>3, <2>4
<1>4. ASSUME NEW t \in Seq(V) PROVE Off(t) \in Seq(Q)
  <2>1. DOMAIN t = 1 .. Len(t) /\ Len(t) \in Nat
    BY LenProperties
  <2>2. \A i \in 1 .. Len(t) : t[i] \in V
    BY ElementOfSeq
  <2>3. \A f : f \in [1 .. Len(t) -> Q] => f \in Seq(Q)
    BY <2>1, SeqDef
  <2>4. Off(t) \in [1 .. Len(t) -> Q]
    BY <1>2, <2>1, <2>2 DEF Off
  <2> QED
    BY <2>3, <2>4
<1> QED
  BY <1>3, <1>4 DEF Q

(* The steps that are no switch and change nothing. *)
Nothing == Plain \ Changing

LEMMA MildChoices ==
  ASSUME NEW U \in SUBSET Option, NEW V \in SUBSET Option
  PROVE  \A t \in Seq(Nothing) : Steps(t) \in Seq(Mild(U, V))
<1> SUFFICES ASSUME NEW t \in Seq(Nothing) PROVE Steps(t) \in Seq(Mild(U, V))
  OBVIOUS
<1> DEFINE Q == Mild(U, V)
<1>1. \A x \in Nothing : Step(x) \in Q
  <2> SUFFICES ASSUME NEW x \in Nothing PROVE Step(x) \in Q
    OBVIOUS
  <2>1. x \in Plain /\ x \notin Changing /\ x \notin Mute
    BY DEF Nothing, Plain, Mute, MagSteps
  <2>2. Step(x) \in AStep /\ Step(x).do = x
    BY <2>1, StepIs, Kinds
  <2> QED
    BY <2>1, <2>2 DEF Mild
<1>2. t = <<>> => Steps(t) = <<>>
  BY DEF Steps
<1> HIDE DEF Q
<1>3. t # <<>> => Steps(t) \in Seq(Q)
  BY <1>1, StepsSeq
<1>4. <<>> \in Seq(Q)
  OBVIOUS
<1> QED
  BY <1>2, <1>3, <1>4 DEF Q

LEMMA CommonIs ==
  /\ Ons \in SUBSET Option /\ Offs \in SUBSET Option /\ Common \in SUBSET AStep
  /\ Seq(Common) \subseteq Seq(AStep)
  /\ \A t \in Seq(Ons) : On(t) \in Seq(Common)
  /\ \A t \in Seq(Offs) : Off(t) \in Seq(Common)
  /\ \A t \in Seq(Nothing) : Choose(t) \in Seq(Common) /\ Steps(t) \in Seq(Common)
<1>1. Ons \in SUBSET Option /\ Offs \in SUBSET Option
  BY DEF Ons, Offs
<1>2. Common \in SUBSET AStep
  BY DEF Common, Mild
<1>3. Seq(Common) \subseteq Seq(AStep)
  BY <1>2
<1>4. /\ \A t \in Seq(Ons) : On(t) \in Seq(Common)
      /\ \A t \in Seq(Offs) : Off(t) \in Seq(Common)
      /\ \A t \in Seq(Nothing) : Steps(t) \in Seq(Common)
  BY <1>1, MildSwitches, MildChoices DEF Common
<1> QED
  BY <1>1, <1>2, <1>3, <1>4 DEF Choose

(* The pieces of which the inits are made, once more. *)
LEMMA CommonSets ==
  /\ {"ptat", "temperature_sensor", "disable_iic_slave", "fifo_1024kb", "latch",
      "read_clear", "compare", "int_motion", "int_overflow", "wake_on_motion",
      "iic_multi_master"} \subseteq Ons
  /\ {"cycle_wake_up", "fifo_temp", "int_motion", "int_overflow", "int_dmp",
      "int_fsync", "int_ready", "int_iic_master", "fsync_interrupt", "iic_master",
      "iic_bypass", "gyro_standby", "wake_on_motion", "iic_wait", "iic_delay"}
        \subseteq Offs
  /\ Axes \in Seq(Offs) /\ Tests \in Seq(Offs)
<1>1. {"ptat", "temperature_sensor", "disable_iic_slave", "fifo_1024kb", "latch",
       "read_clear", "compare", "int_motion", "int_overflow", "wake_on_motion",
       "iic_multi_master"} \subseteq Ons
  BY OptionsAre DEF Ons, Interrupts, Sources
<1>2. {"cycle_wake_up", "fifo_temp", "int_motion", "int_overflow", "int_dmp",
       "int_fsync", "int_ready", "int_iic_master", "fsync_interrupt", "iic_master",
       "iic_bypass", "gyro_standby", "wake_on_motion", "iic_wait", "iic_delay"}
         \subseteq Offs
  BY OptionsAre DEF Offs, Interrupts, Sources, UserCtrl
<1>3. \A i \in 1 .. 6 : Axes[i] \in Option /\ Tests[i] \in Option
  <2>1. Elements(Axes) \subseteq Option /\ Elements(Tests) \subseteq Option
    BY DEF Option
  <2> QED
    BY <2>1 DEF Elements, Axes, Tests
<1>4. Axes \in Seq(Offs)
  <2>1. \A i \in 1 .. 6 : Axes[i] \in Offs
    BY <1>3 DEF Offs, Sources, Axes
  <2> QED
    BY <2>1 DEF Axes
<1>5. Tests \in Seq(Offs)
  <2>1. \A i \in 1 .. 6 : Tests[i] \in Offs
    BY <1>3 DEF Offs, Sources, Tests
  <2> QED
    BY <2>1 DEF Tests
<1> QED
  BY <1>1, <1>2, <1>4, <1>5

LEMMA CommonSwitches ==
  /\ On(<<"ptat">>) \in Seq(Common) /\ On(<<"temperature_sensor">>) \in Seq(Common)
  /\ On(<<"disable_iic_slave">>) \in Seq(Common)
  /\ On(<<"fifo_1024kb">>) \in Seq(Common) /\ On(<<"latch", "read_clear">>) \in Seq(Common)
  /\ On(<<"compare">>) \in Seq(Common) /\ On(<<"int_overflow">>) \in Seq(Common)
  /\ On(<<"int_motion", "int_overflow">>) \in Seq(Common)
  /\ On(<<"wake_on_motion", "int_motion", "int_overflow">>) \in Seq(Common)
  /\ On(<<"iic_multi_master">>) \in Seq(Common)
<1>1. /\ <<"ptat">> \in Seq(Ons) /\ <<"temperature_sensor">> \in Seq(Ons)
      /\ <<"disable_iic_slave">> \in Seq(Ons)
      /\ <<"fifo_1024kb">> \in Seq(Ons) /\ <<"latch", "read_clear">> \in Seq(Ons)
      /\ <<"compare">> \in Seq(Ons) /\ <<"int_overflow">> \in Seq(Ons)
      /\ <<"int_motion", "int_overflow">> \in Seq(Ons)
      /\ <<"wake_on_motion", "int_motion", "int_overflow">> \in Seq(Ons)
      /\ <<"iic_multi_master">> \in Seq(Ons)
  BY CommonSets
<1> QED
  BY <1>1, CommonIs

LEMMA CommonOffs ==
  /\ Off(<<"cycle_wake_up">>) \in Seq(Common)
  /\ Off(<<"cycle_wake_up">> \o Axes \o Tests) \in Seq(Common)
  /\ Off(Axes) \in Seq(Common) /\ Off(Tests) \in Seq(Common)
  /\ Off(<<"fifo_temp">>) \in Seq(Common)
  /\ Off(<<"int_motion">>) \in Seq(Common)
  /\ Off(<<"int_motion", "int_overflow", "int_dmp", "int_fsync", "int_ready">>)
       \in Seq(Common)
  /\ Off(<<"int_dmp", "int_fsync", "int_ready">>) \in Seq(Common)
  /\ Off(<<"int_dmp", "int_iic_master", "int_ready">>) \in Seq(Common)
  /\ Off(<<"fsync_interrupt">>) \in Seq(Common)
  /\ Off(<<"iic_master", "iic_bypass">>) \in Seq(Common)
  /\ Off(<<"gyro_standby">>) \in Seq(Common)
  /\ Off(<<"wake_on_motion">>) \in Seq(Common)
  /\ Off(<<"iic_wait">>) \in Seq(Common) /\ Off(<<"iic_delay">>) \in Seq(Common)
<1>1. /\ <<"cycle_wake_up">> \in Seq(Offs) /\ <<"fifo_temp">> \in Seq(Offs)
      /\ <<"int_motion">> \in Seq(Offs)
      /\ <<"int_motion", "int_overflow", "int_dmp", "int_fsync", "int_ready">> \in Seq(Offs)
      /\ <<"int_dmp", "int_fsync", "int_ready">> \in Seq(Offs)
      /\ <<"int_dmp", "int_iic_master", "int_ready">> \in Seq(Offs)
      /\ <<"fsync_interrupt">> \in Seq(Offs)
      /\ <<"iic_master", "iic_bypass">> \in Seq(Offs)
      /\ <<"gyro_standby">> \in Seq(Offs) /\ <<"wake_on_motion">> \in Seq(Offs)
      /\ <<"iic_wait">> \in Seq(Offs) /\ <<"iic_delay">> \in Seq(Offs)
  BY CommonSets
<1>2. Axes \in Seq(Offs) /\ Tests \in Seq(Offs)
  BY CommonSets
<1>3. <<"cycle_wake_up">> \o Axes \o Tests \in Seq(Offs)
  BY <1>1, <1>2, Together
<1> QED
  BY <1>1, <1>2, <1>3, CommonIs

LEMMA CommonChoices ==
  /\ Choose(<<"clock_source", "divider">>) \in Seq(Common)
  /\ Choose(<<"clock_source", "divider", "accelerometer_range", "gyroscope_range">>)
       \in Seq(Common)
  /\ Choose(<<"clock_source", "divider", "accelerometer_range", "gyroscope_range",
              "low_pass_filter">>) \in Seq(Common)
  /\ Choose(<<"accelerometer_range", "gyroscope_range">>) \in Seq(Common)
  /\ Choose(<<"wake_up_frequency">>) \in Seq(Common)
  /\ Choose(<<"interrupt_level", "interrupt_pin_type">>) \in Seq(Common)
  /\ Choose(<<"interrupt_level", "interrupt_pin_type", "motion_threshold">>) \in Seq(Common)
  /\ Choose(<<"interrupt_level", "interrupt_pin_type", "motion_threshold",
              "motion_duration", "force_accel_sample">>) \in Seq(Common)
  /\ Choose(<<"extern_sync">>) \in Seq(Common) /\ Choose(<<"fsync_level">>) \in Seq(Common)
  /\ Choose(<<"fifo_mode", "gyroscope_choice", "low_pass_filter",
              "accelerometer_choice", "accelerometer_lpf", "low_power">>) \in Seq(Common)
  /\ Choose(<<"iic_clock">>) \in Seq(Common) /\ Choose(<<"iic_read_mode">>) \in Seq(Common)
<1>1. {"clock_source", "divider", "accelerometer_range", "gyroscope_range",
       "low_pass_filter", "wake_up_frequency", "interrupt_level", "interrupt_pin_type",
       "motion_threshold", "motion_duration", "force_accel_sample", "extern_sync",
       "fsync_level", "fifo_mode", "gyroscope_choice", "accelerometer_choice",
       "accelerometer_lpf", "low_power", "iic_clock", "iic_read_mode"} \subseteq Nothing
  BY DEF Nothing, Plain, Changing, Turning
<1>2. /\ <<"clock_source", "divider">> \in Seq(Nothing)
      /\ <<"clock_source", "divider", "accelerometer_range", "gyroscope_range">>
           \in Seq(Nothing)
      /\ <<"clock_source", "divider", "accelerometer_range", "gyroscope_range",
           "low_pass_filter">> \in Seq(Nothing)
      /\ <<"accelerometer_range", "gyroscope_range">> \in Seq(Nothing)
      /\ <<"wake_up_frequency">> \in Seq(Nothing)
      /\ <<"interrupt_level", "interrupt_pin_type">> \in Seq(Nothing)
  BY <1>1
<1>3. /\ <<"interrupt_level", "interrupt_pin_type", "motion_threshold">> \in Seq(Nothing)
      /\ <<"interrupt_level", "interrupt_pin_type", "motion_threshold",
           "motion_duration", "force_accel_sample">> \in Seq(Nothing)
      /\ <<"extern_sync">> \in Seq(Nothing) /\ <<"fsync_level">> \in Seq(Nothing)
      /\ <<"fifo_mode", "gyroscope_choice", "low_pass_filter",
           "accelerometer_choice", "accelerometer_lpf", "low_power">> \in Seq(Nothing)
      /\ <<"iic_clock">> \in Seq(Nothing) /\ <<"iic_read_mode">> \in Seq(Nothing)
  BY <1>1
<1> QED
  BY <1>2, <1>3, CommonIs


(* The parts of the inits that are made of nothing else. *)
LEMMA CommonMore ==
  ASSUME NEW S, NEW a \in Seq(S), NEW b \in Seq(S), NEW c \in Seq(S), NEW d \in Seq(S),
         NEW e \in Seq(S), NEW f \in Seq(S), NEW g \in Seq(S)
  PROVE  /\ a \o b \o c \o d \o e \in Seq(S) /\ a \o b \o c \o d \o e \o f \in Seq(S)
         /\ a \o b \o c \o d \o e \o f \o g \in Seq(S)
<1>1. a \o b \o c \o d \in Seq(S)
  BY Together
<1> DEFINE h == a \o b \o c \o d
<1> HIDE DEF h
<1>2. h \in Seq(S)
  BY <1>1 DEF h
<1>3. h \o e \in Seq(S) /\ h \o e \o f \in Seq(S) /\ h \o e \o f \o g \in Seq(S)
  BY <1>2, Together
<1> QED
  BY <1>3 DEF h

LEMMA CommonPins ==
  ASSUME NEW s \in Seq(Common)
  PROVE  s \o On(<<"latch", "read_clear">>) \o Choose(<<"extern_sync">>)
           \o Off(<<"fsync_interrupt">>) \o Choose(<<"fsync_level">>)
           \o Off(<<"iic_master", "iic_bypass">>) \in Seq(Common)
<1> DEFINE a == On(<<"latch", "read_clear">>)
           b == Choose(<<"extern_sync">>)
           c == Off(<<"fsync_interrupt">>)
           d == Choose(<<"fsync_level">>)
           e == Off(<<"iic_master", "iic_bypass">>)
<1>1. /\ a \in Seq(Common) /\ b \in Seq(Common) /\ c \in Seq(Common)
      /\ d \in Seq(Common) /\ e \in Seq(Common)
  BY CommonSwitches, CommonOffs, CommonChoices
<1> HIDE DEF a, b, c, d, e
<1>2. s \o a \o b \o c \o d \o e \in Seq(Common)
  BY <1>1, CommonMore
<1> QED
  BY <1>2 DEF a, b, c, d, e

LEMMA CommonParts ==
  /\ BasicSensors \in Seq(Common) /\ FifoSensors \in Seq(Common)
  /\ DmpSensors \in Seq(Common) /\ Tests6050 \in Seq(Common)
  /\ FifoFilters \in Seq(Common)
<1>1. /\ BasicSensors \in Seq(Common) /\ FifoSensors \in Seq(Common)
      /\ DmpSensors \in Seq(Common) /\ Tests6050 \in Seq(Common)
  <2>1. On(<<"ptat">>) \o Off(<<"cycle_wake_up">> \o Axes \o Tests) \in Seq(Common)
    BY CommonSwitches, CommonOffs, ConcatSeq
  <2> QED
    BY <2>1, CommonOffs DEF BasicSensors, FifoSensors, DmpSensors, Tests6050
<1>2. FifoFilters \in Seq(Common)
  BY CommonSwitches, CommonOffs, CommonChoices, Together DEF FifoFilters
<1> QED
  BY <1>1, <1>2

LEMMA CommonFilters ==
  /\ BasicFilters \in Seq(Common) /\ DmpFilters \in Seq(Common)
  /\ DmpClock \in Seq(Common)
<1>1. BasicFilters \in Seq(Common)
  <2>1. /\ Choose(<<"accelerometer_range", "gyroscope_range">>) \in Seq(Common)
        /\ Off(<<"gyro_standby">>) \in Seq(Common)
        /\ Choose(<<"fifo_mode", "gyroscope_choice", "low_pass_filter",
                    "accelerometer_choice", "accelerometer_lpf", "low_power">>) \in Seq(Common)
        /\ Off(<<"wake_on_motion">>) \in Seq(Common) /\ On(<<"compare">>) \in Seq(Common)
    BY CommonSwitches, CommonOffs, CommonChoices
  <2> QED
    BY <2>1, CommonMore DEF BasicFilters
<1>2. DmpFilters \in Seq(Common)
  BY CommonSwitches, CommonOffs, CommonChoices, Together DEF DmpFilters
<1>3. DmpClock \in Seq(Common)
  BY CommonSwitches, CommonChoices, ConcatSeq DEF DmpClock
<1> QED
  BY <1>1, <1>2, <1>3

LEMMA CommonSensors6050 == Sensors6050 \in Seq(Common)
<1>1. /\ Choose(<<"clock_source", "divider", "accelerometer_range", "gyroscope_range",
                  "low_pass_filter">>) \in Seq(Common)
      /\ On(<<"temperature_sensor">>) \in Seq(Common)
      /\ Off(<<"cycle_wake_up">>) \in Seq(Common)
      /\ Choose(<<"wake_up_frequency">>) \in Seq(Common) /\ Off(Axes) \in Seq(Common)
  BY CommonSwitches, CommonOffs, CommonChoices
<1> QED
  BY <1>1, CommonMore DEF Sensors6050

LEMMA CommonInterrupts ==
  /\ BasicInterrupts \in Seq(Common) /\ FifoInterrupts \in Seq(Common)
  /\ DmpInterrupts \in Seq(Common) /\ Interrupts6050 \in Seq(Common)
  /\ Pins6050 \in Seq(Common)
<1>1. BasicInterrupts \in Seq(Common)
  <2> DEFINE s == Choose(<<"interrupt_level", "interrupt_pin_type">>)
                    \o Off(<<"int_motion", "int_overflow", "int_dmp", "int_fsync",
                             "int_ready">>)
  <2>1. s \in Seq(Common)
    BY CommonOffs, CommonChoices, ConcatSeq
  <2>2. BasicInterrupts
          = s \o On(<<"latch", "read_clear">>) \o Choose(<<"extern_sync">>)
              \o Off(<<"fsync_interrupt">>) \o Choose(<<"fsync_level">>)
              \o Off(<<"iic_master", "iic_bypass">>)
    BY DEF BasicInterrupts
  <2> HIDE DEF s
  <2> QED
    BY <2>1, <2>2, CommonPins
<1>2. FifoInterrupts \in Seq(Common)
  <2> DEFINE s == Choose(<<"interrupt_level", "interrupt_pin_type">>)
                    \o Off(<<"int_motion">>) \o On(<<"int_overflow">>)
                    \o Off(<<"int_dmp", "int_fsync", "int_ready">>)
  <2>1. s \in Seq(Common)
    BY CommonSwitches, CommonOffs, CommonChoices, Together
  <2>2. FifoInterrupts
          = s \o On(<<"latch", "read_clear">>) \o Choose(<<"extern_sync">>)
              \o Off(<<"fsync_interrupt">>) \o Choose(<<"fsync_level">>)
              \o Off(<<"iic_master", "iic_bypass">>)
    BY DEF FifoInterrupts
  <2> HIDE DEF s
  <2> QED
    BY <2>1, <2>2, CommonPins
<1>3. DmpInterrupts \in Seq(Common)
  <2> DEFINE s == Choose(<<"interrupt_level", "interrupt_pin_type", "motion_threshold">>)
                    \o On(<<"wake_on_motion", "int_motion", "int_overflow">>)
                    \o Off(<<"int_dmp", "int_fsync", "int_ready">>)
  <2>1. s \in Seq(Common)
    BY CommonSwitches, CommonOffs, CommonChoices, Together
  <2>2. DmpInterrupts
          = s \o On(<<"latch", "read_clear">>) \o Choose(<<"extern_sync">>)
              \o Off(<<"fsync_interrupt">>) \o Choose(<<"fsync_level">>)
              \o Off(<<"iic_master", "iic_bypass">>)
    BY DEF DmpInterrupts
  <2> HIDE DEF s
  <2> QED
    BY <2>1, <2>2, CommonPins
<1>4. Interrupts6050 \in Seq(Common)
  BY CommonSwitches, CommonOffs, CommonChoices, Together DEF Interrupts6050
<1>5. Pins6050 \in Seq(Common)
  <2>1. /\ On(<<"latch", "read_clear">>) \in Seq(Common)
        /\ Choose(<<"extern_sync">>) \in Seq(Common)
        /\ Off(<<"fsync_interrupt">>) \in Seq(Common)
        /\ Choose(<<"fsync_level">>) \in Seq(Common)
        /\ Off(<<"iic_master", "iic_bypass">>) \in Seq(Common)
    BY CommonSwitches, CommonOffs, CommonChoices
  <2> QED
    BY <2>1, CommonMore DEF Pins6050
<1> QED
  BY <1>1, <1>2, <1>3, <1>4, <1>5

-----------------------------------------------------------------------------
(* From one state of knowledge to the next, and to one from the start. *)
From(p, t, q) == t \in Seq(AStep) /\ Leads(Known(p), t, Known(q))
To(s, q) == s \in Seq(AStep) /\ Leads(Unasked, s, Known(q))

LEMMA FromThen ==
  ASSUME NEW p, NEW q, NEW r, NEW s, NEW t, From(p, s, q), From(q, t, r)
  PROVE  From(p, s \o t, r)
BY KnownThen, ConcatSeq DEF From

LEMMA ToThen ==
  ASSUME NEW q, NEW r, NEW s, NEW t, To(s, q), From(q, t, r)
  PROVE  To(s \o t, r)
<1>1. Unasked \subseteq World
  BY DEF Unasked
<1> QED
  BY <1>1, LeadsThen, ConcatSeq DEF From, To

LEMMA FromMore ==
  ASSUME NEW p, NEW q, NEW r, NEW s, From(p, s, q), Weaker(q, r)
  PROVE  From(p, s, r)
BY KnownMore DEF From

LEMMA ToMore ==
  ASSUME NEW q, NEW r, NEW s, To(s, q), Weaker(q, r)
  PROVE  To(s, r)
BY KnownLess, LeadsLess DEF To

LEMMA FromMild ==
  ASSUME NEW p, NEW U \in SUBSET Option, NEW V \in SUBSET Option,
         Bears(p, U, V), Shut(p), p.fifo # "fit", NEW t \in Seq(Mild(U, V))
  PROVE  From(p, t, p)
<1>1. Mild(U, V) \subseteq AStep
  BY DEF Mild
<1>2. t \in Seq(AStep)
  BY <1>1
<1> QED
  BY <1>2, MildLeads DEF From

LEMMA FromCommon ==
  ASSUME NEW p, Bears(p, Ons, Offs), Shut(p), p.fifo # "fit", NEW t \in Seq(Common)
  PROVE  From(p, t, p)
BY FromMild, CommonIs DEF Common

LEMMA ToCommon ==
  ASSUME NEW p, Bears(p, Ons, Offs), Shut(p), p.fifo # "fit", NEW s, To(s, p),
         NEW a \in Seq(Common), NEW b \in Seq(Common), NEW c \in Seq(Common)
  PROVE  To(s \o a, p) /\ To(s \o a \o b, p) /\ To(s \o a \o b \o c, p)
<1>1. From(p, a, p) /\ From(p, b, p) /\ From(p, c, p)
  BY FromCommon
<1>2. To(s \o a, p)
  BY <1>1, ToThen
<1>3. To(s \o a \o b, p)
  BY <1>1, <1>2, ToThen
<1> QED
  BY <1>1, <1>2, <1>3, ToThen


(* What is known on the way of basic_init and fifo_init. *)
Hope(on, off, notyes, notno, magin, mg, fifo) ==
  [loose |-> {}, odd |-> {}, on |-> on, off |-> off, notyes |-> notyes, notno |-> notno,
   dmp |-> {FALSE}, magin |-> magin, mag |-> mg, tap |-> Taps, fifo |-> fifo]

(* One switch. *)
LEMMA HopeTurns ==
  ASSUME NEW a, NEW b, NEW c, NEW d, NEW m, NEW g, NEW f \in {"any", "none"},
         NEW aa, NEW bb, NEW cc, NEW dd, NEW s \in [do : Switches, opt : Option],
         f = "none" => "fifo" \in b \intersect bb,
         s.do \in {"on", "raise"} => aa \subseteq a \union {s.opt} /\ bb \subseteq b \ {s.opt},
         s.do \in {"off", "drop"} => aa \subseteq a \ {s.opt} /\ bb \subseteq b \union {s.opt},
         s.do = "on" => cc \subseteq c \ {s.opt} /\ dd \subseteq d \union {s.opt},
         s.do = "off" => cc \subseteq c \union {s.opt} /\ dd \subseteq d \ {s.opt},
         s.do \in {"raise", "drop"} => cc \subseteq c /\ dd \subseteq d,
         s.do = "raise" => s.opt \in d \union {"iic_bypass"},
         s.do = "drop" => s.opt \in c
  PROVE  From(Hope(a, b, c, d, m, g, f), <<s>>, Hope(aa, bb, cc, dd, m, g, f))
<1> DEFINE p == Hope(a, b, c, d, m, g, f)
           q == Hope(aa, bb, cc, dd, m, g, f)
<1>1. /\ p.loose = {} /\ p.odd = {} /\ p.on = a /\ p.off = b /\ p.notyes = c
      /\ p.notno = d /\ p.dmp = {FALSE} /\ p.magin = m /\ p.mag = g
      /\ p.tap = Taps /\ p.fifo = f
  BY DEF Hope
<1>2. /\ q.loose = {} /\ q.odd = {} /\ q.on = aa /\ q.off = bb /\ q.notyes = cc
      /\ q.notno = dd /\ q.dmp = {FALSE} /\ q.magin = m /\ q.mag = g
      /\ q.tap = Taps /\ q.fifo = f
  BY DEF Hope
<1> HIDE DEF p, q
<1>3. Learns(p, s, q)
  BY <1>1, <1>2 DEF Learns
<1>4. Shut(p) /\ Shut(q)
  BY <1>1, <1>2 DEF Shut
<1>5. Leads(Known(p), <<s>>, Known(q))
  BY <1>3, <1>4, SwitchLeads
<1>6. s \in AStep
  BY Kinds
<1> QED
  BY <1>5, <1>6 DEF p, q, From

LEMMA HopeOn ==
  ASSUME NEW a, NEW b, NEW c, NEW d, NEW m, NEW g, NEW f \in {"any", "none"},
         NEW o \in Option, f = "none" => "fifo" \in b /\ o # "fifo"
  PROVE  From(Hope(a, b, c, d, m, g, f), On(<<o>>),
              Hope(a \union {o}, b \ {o}, c \ {o}, d \union {o}, m, g, f))
<1> DEFINE s == [do |-> "on", opt |-> o]
<1>1. s \in [do : Switches, opt : Option] /\ On(<<o>>) = <<s>> /\ s.do = "on" /\ s.opt = o
  BY SingleIs DEF Switches
<1> HIDE DEF s
<1> QED
  BY <1>1, HopeTurns

LEMMA HopeOff ==
  ASSUME NEW a, NEW b, NEW c, NEW d, NEW m, NEW g, NEW f \in {"any", "none"},
         NEW o \in Option, f = "none" => "fifo" \in b
  PROVE  From(Hope(a, b, c, d, m, g, f), Off(<<o>>),
              Hope(a \ {o}, b \union {o}, c \union {o}, d \ {o}, m, g, f))
<1> DEFINE s == [do |-> "off", opt |-> o]
<1>1. s \in [do : Switches, opt : Option] /\ Off(<<o>>) = <<s>> /\ s.do = "off" /\ s.opt = o
  BY SingleIs DEF Switches
<1> HIDE DEF s
<1> QED
  BY <1>1, HopeTurns

LEMMA HopeRaise ==
  ASSUME NEW a, NEW b, NEW c, NEW d, NEW m, NEW g, NEW f \in {"any", "none"},
         NEW o \in Option, f = "none" => "fifo" \in b /\ o # "fifo",
         o \in d \union {"iic_bypass"}
  PROVE  From(Hope(a, b, c, d, m, g, f), Raise(<<o>>),
              Hope(a \union {o}, b \ {o}, c, d, m, g, f))
<1> DEFINE s == [do |-> "raise", opt |-> o]
<1>1. /\ s \in [do : Switches, opt : Option] /\ Raise(<<o>>) = <<s>> /\ s.do = "raise"
      /\ s.opt = o
  BY SingleIs DEF Switches
<1> HIDE DEF s
<1> QED
  BY <1>1, HopeTurns

LEMMA HopeDrop ==
  ASSUME NEW a, NEW b, NEW c, NEW d, NEW m, NEW g, NEW f \in {"any", "none"},
         NEW o \in Option, f = "none" => "fifo" \in b, o \in c
  PROVE  From(Hope(a, b, c, d, m, g, f), Drop(<<o>>),
              Hope(a \ {o}, b \union {o}, c, d, m, g, f))
<1> DEFINE s == [do |-> "drop", opt |-> o]
<1>1. /\ s \in [do : Switches, opt : Option] /\ Drop(<<o>>) = <<s>> /\ s.do = "drop"
      /\ s.opt = o
  BY SingleIs DEF Switches
<1> HIDE DEF s
<1> QED
  BY <1>1, HopeTurns

LEMMA HopeMore ==
  ASSUME NEW a, NEW b, NEW c, NEW d, NEW m, NEW g, NEW f, NEW aa, NEW bb, NEW cc, NEW dd,
         NEW mm, NEW gg, NEW ff \in {"any", f},
         aa \subseteq a, bb \subseteq b, cc \subseteq c, dd \subseteq d,
         m \subseteq mm, g \subseteq gg
  PROVE  Weaker(Hope(a, b, c, d, m, g, f), Hope(aa, bb, cc, dd, mm, gg, ff))
<1> DEFINE p == Hope(a, b, c, d, m, g, f)
           q == Hope(aa, bb, cc, dd, mm, gg, ff)
<1>1. /\ p.loose = {} /\ p.odd = {} /\ p.on = a /\ p.off = b /\ p.notyes = c
      /\ p.notno = d /\ p.dmp = {FALSE} /\ p.magin = m /\ p.mag = g
      /\ p.tap = Taps /\ p.fifo = f
  BY DEF Hope
<1>2. /\ q.loose = {} /\ q.odd = {} /\ q.on = aa /\ q.off = bb /\ q.notyes = cc
      /\ q.notno = dd /\ q.dmp = {FALSE} /\ q.magin = mm /\ q.mag = gg
      /\ q.tap = Taps /\ q.fifo = ff
  BY DEF Hope
<1> HIDE DEF p, q
<1>3. Weaker(p, q)
  BY <1>1, <1>2 DEF Weaker
<1> QED
  BY <1>3 DEF p, q

-----------------------------------------------------------------------------
(* The magnetometer behind an open bypass: mag_init, and the mode that
   measures. *)
LEMMA MagTurnsOnly ==
  ASSUME NEW s \in MagOn, NEW w, NEW v, Turns(s, w, v)
  PROVE  /\ v \in World /\ v.on = w.on /\ v.queued = w.queued /\ v.tap = w.tap
         /\ v.yes = w.yes /\ v.no = w.no /\ v.dmp = w.dmp
         /\ s.do = "mag_mode" => v.mag = "measuring"
         /\ s.do = "mag_bits" => v.mag = w.mag
<1>1. s.do \in MagSteps \union {"mag_inited"}
  BY MagIs
<1>2. v \in World /\ Turned(s, w, v) /\ Stored(s, w, v) /\ Noted(s, w, v)
  BY DEF Turns
<1>3. v.on = w.on
  BY <1>1, <1>2 DEF Turned, Turning, MagSteps
<1>4. /\ v.queued = w.queued /\ v.tap = w.tap
      /\ s.do = "mag_mode" => v.mag = "measuring"
      /\ s.do = "mag_bits" => v.mag = w.mag
  BY <1>1, <1>2 DEF Stored, MagSteps
<1>5. v.yes = w.yes /\ v.no = w.no /\ v.dmp = w.dmp
  BY <1>1, <1>2 DEF Noted, MagSteps
<1> QED
  BY <1>2, <1>3, <1>4, <1>5

(* p: the bypass is open. *)
Reaching(p) ==
  "iic_bypass" \in p.on /\ "iic_master" \in p.off /\ p.magin = BOOLEAN

LEMMA ReachingCan ==
  ASSUME NEW p, Reaching(p), NEW s \in MagOn, NEW w \in Known(p)
  PROVE  Can(s, w)
<1>1. s.do \in MagSteps \union {"mag_inited"}
  BY MagIs
<1>2. "iic_bypass" \in w.on /\ "iic_master" \notin w.on
  BY DEF Known, Reaching
<1> QED
  BY <1>1, <1>2 DEF Can, MagSteps

LEMMA MagKeeps ==
  ASSUME NEW p, Reaching(p), Shut(p), p.mag = Mag, NEW t \in Seq(MagOn)
  PROVE  From(p, t, p)
<1>1. ASSUME NEW s \in MagOn, NEW w \in Known(p), NEW v, Turns(s, w, v)
      PROVE  v \in Known(p)
  <2>1. /\ v \in World /\ v.on = w.on /\ v.queued = w.queued /\ v.tap = w.tap
        /\ v.yes = w.yes /\ v.no = w.no /\ v.dmp = w.dmp
    BY <1>1, MagTurnsOnly
  <2>2. v.mag \in p.mag /\ v.magin \in p.magin
    BY <2>1 DEF World, Reaching
  <2> QED
    BY <2>1, <2>2 DEF Known, Fits
<1>2. MagOn \in SUBSET AStep
  BY Kinds
<1>3. Leads(Known(p), t, Known(p))
  BY <1>1, <1>2, ReachingCan, StillKnown, LeadsKeep
<1>4. t \in Seq(AStep)
  BY <1>2
<1> QED
  BY <1>3, <1>4 DEF From

LEMMA MagMeasures ==
  ASSUME NEW a, NEW b, NEW c, NEW d, NEW f, "iic_bypass" \in a, "iic_master" \in b,
         f = "none" => "fifo" \in b
  PROVE  From(Hope(a, b, c, d, BOOLEAN, Mag, f), Steps(<<"mag_mode", "mag_bits">>),
              Hope(a, b, c, d, BOOLEAN, {"measuring"}, f))
<1> DEFINE p == Hope(a, b, c, d, BOOLEAN, Mag, f)
           q == Hope(a, b, c, d, BOOLEAN, {"measuring"}, f)
<1>1. /\ p.loose = {} /\ p.odd = {} /\ p.on = a /\ p.off = b /\ p.notyes = c
      /\ p.notno = d /\ p.dmp = {FALSE} /\ p.magin = BOOLEAN /\ p.mag = Mag
      /\ p.tap = Taps /\ p.fifo = f
  BY DEF Hope
<1>2. /\ q.loose = {} /\ q.odd = {} /\ q.on = a /\ q.off = b /\ q.notyes = c
      /\ q.notno = d /\ q.dmp = {FALSE} /\ q.magin = BOOLEAN /\ q.mag = {"measuring"}
      /\ q.tap = Taps /\ q.fifo = f
  BY DEF Hope
<1> HIDE DEF p, q
<1>3. Step("mag_mode") \in MagOn /\ Step("mag_bits") \in MagOn
  BY DEF MagOn, MagSteps
<1>4. /\ Step("mag_mode") \in AStep /\ Step("mag_bits") \in AStep
      /\ Step("mag_mode").do = "mag_mode" /\ Step("mag_bits").do = "mag_bits"
  BY <1>3, Kinds, StepIs
<1>5. Reaching(p) /\ Reaching(q) /\ Still(Known(p)) /\ Still(Known(q))
  BY <1>1, <1>2, StillKnown DEF Reaching, Shut
<1>6. ASSUME NEW w \in Known(p), NEW v, Turns(Step("mag_mode"), w, v)
      PROVE  v \in Known(q)
  <2>1. /\ v \in World /\ v.on = w.on /\ v.queued = w.queued /\ v.tap = w.tap
        /\ v.yes = w.yes /\ v.no = w.no /\ v.dmp = w.dmp /\ v.mag = "measuring"
    BY <1>3, <1>4, <1>6, MagTurnsOnly
  <2>2. v.magin \in BOOLEAN
    BY <2>1 DEF World
  <2> QED
    BY ZenonT(60), <1>1, <1>2, <2>1, <2>2 DEF Known, Fits
<1>7. ASSUME NEW w \in Known(q), NEW v, Turns(Step("mag_bits"), w, v)
      PROVE  v \in Known(q)
  <2>1. /\ v \in World /\ v.on = w.on /\ v.queued = w.queued /\ v.tap = w.tap
        /\ v.yes = w.yes /\ v.no = w.no /\ v.dmp = w.dmp /\ v.mag = w.mag
    BY <1>3, <1>4, <1>7, MagTurnsOnly
  <2>2. v.magin \in BOOLEAN
    BY <2>1 DEF World
  <2> QED
    BY <1>1, <1>2, <2>1, <2>2 DEF Known, Fits
<1>8. From(p, <<Step("mag_mode")>>, q)
  BY <1>3, <1>4, <1>5, <1>6, ReachingCan, LeadsOne DEF From
<1>9. From(q, <<Step("mag_bits")>>, q)
  BY <1>3, <1>4, <1>5, <1>7, ReachingCan, LeadsOne DEF From
<1>10. Steps(<<"mag_mode", "mag_bits">>) = <<Step("mag_mode")>> \o <<Step("mag_bits")>>
  BY DEF Steps
<1> QED
  BY <1>8, <1>9, <1>10, FromThen DEF p, q

(* mag_init and the mode that measures, where nothing has asked for the
   master. *)
LEMMA MagLeads ==
  ASSUME NEW a, NEW b, NEW c, NEW d, NEW m \in SUBSET BOOLEAN, NEW f \in {"any", "none"},
         "iic_master" \in c, f = "none" => "fifo" \in b
  PROVE  From(Hope(a, b, c, d, m, Mag, f), MagInit \o Steps(<<"mag_mode", "mag_bits">>),
              Hope((a \ {"iic_master"}) \union {"iic_bypass"},
                   (b \union {"iic_master"}) \ {"iic_bypass"}, c, d, BOOLEAN,
                   {"measuring"}, f))
<1> DEFINE a1 == a \ {"iic_master"}
           b1 == b \union {"iic_master"}
           a2 == a1 \union {"iic_bypass"}
           b2 == b1 \ {"iic_bypass"}
<1>1. "iic_master" \in Option /\ "iic_bypass" \in Option
  BY OptionElements
<1>2. From(Hope(a, b, c, d, m, Mag, f), Drop(<<"iic_master">>), Hope(a1, b1, c, d, m, Mag, f))
  BY <1>1, HopeDrop
<1>3. Weaker(Hope(a1, b1, c, d, m, Mag, f), Hope(a1, b1, c, d, BOOLEAN, Mag, f))
  BY HopeMore
<1>4. From(Hope(a, b, c, d, m, Mag, f), Drop(<<"iic_master">>),
           Hope(a1, b1, c, d, BOOLEAN, Mag, f))
  BY <1>2, <1>3, FromMore
<1>5. f = "none" => "fifo" \in b1 /\ "fifo" \in b2
  OBVIOUS
<1>6. From(Hope(a1, b1, c, d, BOOLEAN, Mag, f), Raise(<<"iic_bypass">>),
           Hope(a2, b2, c, d, BOOLEAN, Mag, f))
  BY <1>1, <1>5, HopeRaise
<1>7. "iic_bypass" \in a2 /\ "iic_master" \in b2
  OBVIOUS
<1> DEFINE p == Hope(a, b, c, d, m, Mag, f)
           q == Hope(a1, b1, c, d, BOOLEAN, Mag, f)
           r == Hope(a2, b2, c, d, BOOLEAN, Mag, f)
           o == Hope(a2, b2, c, d, BOOLEAN, {"measuring"}, f)
<1>8. Reaching(r) /\ Shut(r) /\ r.mag = Mag
  <2>1. r.on = a2 /\ r.off = b2 /\ r.magin = BOOLEAN /\ r.mag = Mag /\ r.fifo = f
    BY DEF Hope
  <2> HIDE DEF r
  <2> QED
    BY <1>5, <1>7, <2>1 DEF Reaching, Shut
<1>9. From(r, Steps(<<"mag_mode", "mag_bits">>), o)
  BY <1>5, <1>7, MagMeasures
<1>10. From(p, Drop(<<"iic_master">>), q) /\ From(q, Raise(<<"iic_bypass">>), r)
  BY <1>4, <1>6
<1> HIDE DEF p, q, r, o, a1, b1, a2, b2
<1>11. <<Step("wia")>> \in Seq(MagOn)
  BY DEF MagOn, MagSteps
<1>12. Steps(<<"mag_reset", "mag_poll", "mag_down", "mag_rom", "mag_asa", "mag_down",
               "mag_inited">>) \in Seq(MagOn)
  <2>1. \A x \in MagSteps \union {"mag_inited"} : Step(x) \in MagOn
    BY DEF MagOn
  <2>2. <<"mag_reset", "mag_poll", "mag_down", "mag_rom", "mag_asa", "mag_down",
          "mag_inited">> \in Seq(MagSteps \union {"mag_inited"})
    BY DEF MagSteps
  <2> QED
    BY <2>1, <2>2, StepsSeq
<1>13. From(p, Bypass, r)
  <2>1. From(r, <<Step("wia")>>, r)
    BY <1>8, <1>11, MagKeeps
  <2> QED
    BY <1>10, <2>1, FromThen DEF Bypass
<1>14. From(p, MagInit, r)
  <2>1. From(r, Steps(<<"mag_reset", "mag_poll", "mag_down", "mag_rom", "mag_asa", "mag_down",
                        "mag_inited">>), r)
    BY <1>8, <1>12, MagKeeps
  <2> QED
    BY <1>13, <2>1, FromThen DEF MagInit
<1>15. From(p, MagInit \o Steps(<<"mag_mode", "mag_bits">>), o)
  BY <1>9, <1>14, FromThen
<1> QED
  BY <1>15 DEF p, o, a1, b1, a2, b2


(* What basic_init and fifo_init lead to; n: what has not been asked for. *)
BasicAim(bus, n) ==
  IF bus = "spi" THEN Hope({}, {"sleep", "fifo", "dmp"}, n, n, {FALSE}, Mag, "none")
  ELSE Hope({"iic_bypass"}, {"sleep", "fifo", "dmp", "iic_master"}, n, n, BOOLEAN,
            {"measuring"}, "none")
FifoAim(bus, n) ==
  IF bus = "spi"
    THEN Hope({"fifo"} \union Elements(Imu), {"sleep", "dmp", "fifo_temp", "fifo_slv0"},
              n, n, {FALSE}, Mag, "fit")
  ELSE Hope({"fifo", "fifo_slv0"} \union Elements(Imu), {"sleep", "dmp", "fifo_temp"},
            n, n, BOOLEAN, {"measuring"}, "fit")

OpenedHope ==
  Hope({}, Late \union {"sleep"}, Option, Option \ {"sleep"}, {FALSE}, Mag, "none")

LEMMA ToOpened == To(First \o Off(<<"sleep">>), OpenedHope)
<1>1. Weaker(Opened, OpenedHope)
  <2>1. /\ Opened.on = {} /\ Opened.off = Late \union {"sleep"} /\ Opened.notyes = Option
        /\ Opened.notno = Option \ {"sleep"} /\ Opened.loose = {} /\ Opened.odd = {}
        /\ Opened.dmp = {FALSE} /\ Opened.magin = {FALSE} /\ Opened.mag = Mag
        /\ Opened.tap = Taps /\ Opened.fifo = "none"
    BY DEF Opened, Sure
  <2> DEFINE q == OpenedHope
  <2>2. /\ q.on = {} /\ q.off = Late \union {"sleep"} /\ q.notyes = Option
        /\ q.notno = Option \ {"sleep"} /\ q.loose = {} /\ q.odd = {}
        /\ q.dmp = {FALSE} /\ q.magin = {FALSE} /\ q.mag = Mag
        /\ q.tap = Taps /\ q.fifo = "none"
    BY DEF OpenedHope, Hope
  <2> HIDE DEF q
  <2>3. Weaker(Opened, q)
    BY <2>1, <2>2 DEF Weaker
  <2> QED
    BY <2>3 DEF q
<1>2. Off(<<"sleep">>) \in Seq(AStep)
  BY OptionSeqs, SeqsAre
<1> QED
  BY <1>1, <1>2, OpenLeads, FirstIs, ConcatSeq, ToMore DEF To

(* The rest of the opening. *)
LEMMA CommonOpen ==
  ASSUME NEW bus
  PROVE  (IF bus = "spi" THEN On(<<"disable_iic_slave">>) ELSE <<>>) \in Seq(Common)
<1>1. <<>> \in Seq(Common)
  OBVIOUS
<1> QED
  BY <1>1, CommonSwitches

LEMMA HopeCommon ==
  ASSUME NEW a, NEW b, NEW c, NEW d, NEW m, NEW g, NEW f,
         Ons \intersect (b \union c) = {}, Offs \intersect (a \union d) = {},
         f = "none" => "fifo" \in b, f # "fit"
  PROVE  LET p == Hope(a, b, c, d, m, g, f) IN
         Bears(p, Ons, Offs) /\ Shut(p) /\ p.fifo # "fit"
<1> DEFINE p == Hope(a, b, c, d, m, g, f)
<1>1. p.on = a /\ p.off = b /\ p.notyes = c /\ p.notno = d /\ p.fifo = f
  BY DEF Hope
<1> HIDE DEF p
<1>2. Bears(p, Ons, Offs) /\ Shut(p) /\ p.fifo # "fit"
  BY <1>1 DEF Bears, Shut
<1> QED
  BY <1>2 DEF p

BasicHope == Hope({}, {"sleep", "fifo", "dmp"}, {"iic_master"}, {}, {FALSE}, Mag, "none")

LEMMA BasicLeads ==
  ASSUME NEW bus \in {"iic", "spi"}
  PROVE  To(BasicInit(bus), BasicAim(bus, {}))
<1> DEFINE p == BasicHope
           open == First \o Off(<<"sleep">>)
           slave == IF bus = "spi" THEN On(<<"disable_iic_slave">>) ELSE <<>>
           clock == Choose(<<"clock_source", "divider">>)
           size == On(<<"fifo_1024kb">>)
<1>1. Bears(p, Ons, Offs) /\ Shut(p) /\ p.fifo # "fit"
  <2>1. Ons \intersect {"sleep", "fifo", "dmp", "iic_master"} = {}
    BY DEF Ons
  <2> QED
    BY <2>1, HopeCommon DEF BasicHope
<1>2. To(open, p)
  <2>1. Weaker(OpenedHope, p)
    <3>1. /\ {"sleep", "fifo", "dmp"} \subseteq Late \union {"sleep"}
          /\ {"iic_master"} \subseteq Option
      BY OptionElements DEF Late
    <3> QED
      BY <3>1, HopeMore DEF OpenedHope, BasicHope
  <2> QED
    BY <2>1, ToOpened, ToMore
<1>3. BasicOpen(bus) = open \o slave \o size \o clock
  BY DEF BasicOpen, First
<1>4. slave \in Seq(Common) /\ size \in Seq(Common) /\ clock \in Seq(Common)
  BY CommonOpen, CommonSwitches, CommonChoices
<1> HIDE DEF p, open, slave, clock, size
<1>5. To(BasicOpen(bus), p)
  BY <1>1, <1>2, <1>3, <1>4, ToCommon
<1>6. From(p, BasicFifo, p)
  <2>1. BasicFifo \in Seq(Mild({}, Option))
    <3>1. <<"fifo", "fifo_temp">> \in Seq(Option) /\ Imu \in Seq(Option)
      BY OptionsAre, OptionElements DEF Sources
    <3>2. <<"fifo", "fifo_temp">> \o Imu \in Seq(Option)
      BY <3>1, ConcatSeq
    <3> QED
      BY <3>2, MildSwitches DEF BasicFifo
  <2>2. Bears(p, {}, Option)
    <3>1. p.on = {} /\ p.notno = {}
      BY DEF p, BasicHope, Hope
    <3> QED
      BY <3>1 DEF Bears
  <2> QED
    BY <1>1, <2>1, <2>2, FromMild
<1>7. To(BasicOpen(bus) \o BasicSensors \o BasicFifo, p)
  <2>1. To(BasicOpen(bus) \o BasicSensors, p)
    BY <1>1, <1>5, CommonParts, ToCommon
  <2> QED
    BY <1>6, <2>1, ToThen
<1> DEFINE s == BasicOpen(bus) \o BasicSensors \o BasicFifo \o BasicInterrupts \o BasicFilters
<1>8. To(s, p)
  BY <1>1, <1>7, CommonInterrupts, CommonFilters, ToCommon
<1>9. BasicInit(bus) = s \o BasicMag(bus)
  BY DEF BasicInit
<1> HIDE DEF s
<1>10. CASE bus = "spi"
  <2>1. BasicMag(bus) = <<>>
    BY <1>10 DEF BasicMag
  <2>2. BasicInit(bus) = s
    BY <1>8, <1>9, <2>1, ConcatEmptySeq DEF To
  <2>3. Weaker(p, BasicAim(bus, {}))
    <3>1. BasicAim(bus, {}) = Hope({}, {"sleep", "fifo", "dmp"}, {}, {}, {FALSE}, Mag, "none")
      BY <1>10 DEF BasicAim
    <3>2. Weaker(p, Hope({}, {"sleep", "fifo", "dmp"}, {}, {}, {FALSE}, Mag, "none"))
      BY HopeMore DEF p, BasicHope
    <3> QED
      BY <3>1, <3>2
  <2> QED
    BY <1>8, <2>2, <2>3, ToMore
<1>11. CASE bus = "iic"
  <2> DEFINE a == ({} \ {"iic_master"}) \union {"iic_bypass"}
             b == ({"sleep", "fifo", "dmp"} \union {"iic_master"}) \ {"iic_bypass"}
             q == Hope(a, b, {"iic_master"}, {}, BOOLEAN, {"measuring"}, "none")
  <2>1. BasicMag(bus) = MagInit \o Steps(<<"mag_mode", "mag_bits">>)
    BY <1>11 DEF BasicMag
  <2>2. From(p, BasicMag(bus), q)
    <3> DEFINE a0 == {}
               b0 == {"sleep", "fifo", "dmp"}
               c0 == {"iic_master"}
               m0 == {FALSE}
    <3>1. m0 \in SUBSET BOOLEAN /\ "iic_master" \in c0 /\ "fifo" \in b0
      OBVIOUS
    <3> HIDE DEF a0, b0, c0, m0
    <3>2. From(Hope(a0, b0, c0, a0, m0, Mag, "none"),
               MagInit \o Steps(<<"mag_mode", "mag_bits">>),
               Hope((a0 \ {"iic_master"}) \union {"iic_bypass"},
                    (b0 \union {"iic_master"}) \ {"iic_bypass"}, c0, a0, BOOLEAN,
                    {"measuring"}, "none"))
      BY <3>1, MagLeads
    <3> QED
      BY <2>1, <3>2, Zenon DEF p, BasicHope, a0, b0, c0, m0
  <2>3. Weaker(q, BasicAim(bus, {}))
    <3>1. BasicAim(bus, {}) =
            Hope({"iic_bypass"}, {"sleep", "fifo", "dmp", "iic_master"}, {}, {}, BOOLEAN,
                 {"measuring"}, "none")
      BY <1>11 DEF BasicAim
    <3>2. {"iic_bypass"} \subseteq a /\ {"sleep", "fifo", "dmp", "iic_master"} \subseteq b
      OBVIOUS
    <3> HIDE DEF a, b
    <3>3. Weaker(q, Hope({"iic_bypass"}, {"sleep", "fifo", "dmp", "iic_master"}, {}, {},
                         BOOLEAN, {"measuring"}, "none"))
      BY <3>2, HopeMore
    <3> QED
      BY <3>1, <3>3
  <2> HIDE DEF q
  <2> QED
    BY <1>8, <1>9, <2>2, <2>3, ToThen, ToMore
<1> QED
  BY <1>10, <1>11


(* fifo_init: before and after its sources are on, and after the magnetometer
   is on them. *)
Rare == {"fifo", "dmp", "fifo_slv0", "slv0"}
FifoHope(a, b) ==
  Hope(a, b, {"iic_master", "iic_bypass", "dmp"}, Rare, {FALSE}, Mag, "any")
FifoBare == FifoHope({}, {"sleep", "dmp"} \union Sources)
FifoFed == FifoHope(Elements(Imu), {"sleep", "dmp", "fifo_temp", "fifo_slv0"})

LEMMA FifoHopeCommon ==
  /\ Bears(FifoBare, Ons, Offs) /\ Shut(FifoBare) /\ FifoBare.fifo # "fit"
  /\ Bears(FifoFed, Ons, Offs) /\ Shut(FifoFed) /\ FifoFed.fifo # "fit"
<1> DEFINE c == {"iic_master", "iic_bypass", "dmp"}
           b == {"sleep", "dmp"} \union Sources
           e == {"sleep", "dmp", "fifo_temp", "fifo_slv0"}
<1>1. Ons \intersect (b \union c) = {} /\ Ons \intersect (e \union c) = {}
  BY DEF Ons, Sources
<1>2. Offs \intersect Rare = {} /\ Offs \intersect Elements(Imu) = {}
  <2>1. Elements(Imu) \subseteq Sources \ {"fifo_temp"}
    BY DEF Elements, Imu, Sources
  <2>2. Offs \intersect Rare = {}
    BY DEF Offs, Rare, Sources
  <2> QED
    BY <2>1, <2>2 DEF Offs
<1>3. Offs \intersect ({} \union Rare) = {} /\ Offs \intersect (Elements(Imu) \union Rare) = {}
  BY <1>2
<1> HIDE DEF b, c, e
<1>4. LET p == Hope({}, b, c, Rare, {FALSE}, Mag, "any") IN
        Bears(p, Ons, Offs) /\ Shut(p) /\ p.fifo # "fit"
  BY <1>1, <1>3, HopeCommon
<1>5. LET p == Hope(Elements(Imu), e, c, Rare, {FALSE}, Mag, "any") IN
        Bears(p, Ons, Offs) /\ Shut(p) /\ p.fifo # "fit"
  BY <1>1, <1>3, HopeCommon
<1> QED
  BY <1>4, <1>5 DEF FifoBare, FifoFed, FifoHope, b, c, e

LEMMA ImuIs == Elements(Imu) = {"fifo_xg", "fifo_yg", "fifo_zg", "fifo_accel"}
<1>1. DOMAIN Imu = 1 .. 4
  BY DEF Imu
<1>2. Imu[1] = "fifo_xg" /\ Imu[2] = "fifo_yg" /\ Imu[3] = "fifo_zg" /\ Imu[4] = "fifo_accel"
  BY DEF Imu
<1>3. 1 .. 4 = {1, 2, 3, 4}
  OBVIOUS
<1> QED
  BY <1>1, <1>2, <1>3 DEF Elements

LEMMA FifoFeeds == From(FifoBare, FifoSources, FifoFed)
<1> DEFINE c == {"iic_master", "iic_bypass", "dmp"}
           h(a, b, cc, dd) == Hope(a, b, cc, dd, {FALSE}, Mag, "any")
           b0 == {"sleep", "dmp"} \union Sources
           a1 == {} \union {"fifo_xg"}
           b1 == b0 \ {"fifo_xg"}
           c1 == c \ {"fifo_xg"}
           d1 == Rare \union {"fifo_xg"}
           a2 == a1 \union {"fifo_yg"}
           b2 == b1 \ {"fifo_yg"}
           c2 == c1 \ {"fifo_yg"}
           d2 == d1 \union {"fifo_yg"}
           a3 == a2 \union {"fifo_zg"}
           b3 == b2 \ {"fifo_zg"}
           c3 == c2 \ {"fifo_zg"}
           d3 == d2 \union {"fifo_zg"}
           a4 == a3 \union {"fifo_accel"}
           b4 == b3 \ {"fifo_accel"}
           c4 == c3 \ {"fifo_accel"}
           d4 == d3 \union {"fifo_accel"}
<1>1. /\ "fifo_xg" \in Option /\ "fifo_yg" \in Option /\ "fifo_zg" \in Option
      /\ "fifo_accel" \in Option
  BY OptionElements DEF Sources
<1>2. From(h({}, b0, c, Rare), On(<<"fifo_xg">>), h(a1, b1, c1, d1))
  BY <1>1, HopeOn
<1>3. From(h(a1, b1, c1, d1), On(<<"fifo_yg">>), h(a2, b2, c2, d2))
  <2> HIDE DEF a1, b1, c1, d1
  <2> QED
    BY <1>1, HopeOn
<1>4. From(h(a2, b2, c2, d2), On(<<"fifo_zg">>), h(a3, b3, c3, d3))
  <2> HIDE DEF a2, b2, c2, d2
  <2> QED
    BY <1>1, HopeOn
<1>5. From(h(a3, b3, c3, d3), On(<<"fifo_accel">>), h(a4, b4, c4, d4))
  <2> HIDE DEF a3, b3, c3, d3
  <2> QED
    BY <1>1, HopeOn
<1>6. Weaker(h(a4, b4, c4, d4), FifoFed)
  <2>1. /\ Elements(Imu) \subseteq a4
        /\ {"sleep", "dmp", "fifo_temp", "fifo_slv0"} \subseteq b4
        /\ c \subseteq c4 /\ Rare \subseteq d4
    <3>1. Elements(Imu) \subseteq a4
      BY ImuIs
    <3>2. {"sleep", "dmp", "fifo_temp", "fifo_slv0"} \subseteq b4
      BY DEF Sources
    <3> QED
      BY <3>1, <3>2
  <2> HIDE DEF a4, b4, c4, d4, c
  <2>2. Weaker(h(a4, b4, c4, d4),
               h(Elements(Imu), {"sleep", "dmp", "fifo_temp", "fifo_slv0"}, c, Rare))
    BY <2>1, HopeMore
  <2> QED
    BY <2>2 DEF FifoFed, FifoHope, c
<1>7. From(h(a3, b3, c3, d3), On(<<"fifo_accel">>), FifoFed)
  BY <1>5, <1>6, FromMore
<1> DEFINE p == h({}, b0, c, Rare)
           q == h(a1, b1, c1, d1)
           r == h(a2, b2, c2, d2)
           o == h(a3, b3, c3, d3)
<1>8. /\ From(p, On(<<"fifo_xg">>), q) /\ From(q, On(<<"fifo_yg">>), r)
      /\ From(r, On(<<"fifo_zg">>), o) /\ From(o, On(<<"fifo_accel">>), FifoFed)
  BY <1>2, <1>3, <1>4, <1>7
<1>9. p = FifoBare
  BY DEF FifoBare, FifoHope
<1> HIDE DEF p, q, r, o
<1>10. On(Imu) = On(<<"fifo_xg">>) \o On(<<"fifo_yg">>) \o On(<<"fifo_zg">>)
                  \o On(<<"fifo_accel">>)
  BY DEF On, Imu
<1>11. From(p, On(<<"fifo_xg">>) \o On(<<"fifo_yg">>), r)
  BY <1>8, FromThen
<1>12. From(p, On(<<"fifo_xg">>) \o On(<<"fifo_yg">>) \o On(<<"fifo_zg">>), o)
  BY <1>8, <1>11, FromThen
<1>13. From(p, On(Imu), FifoFed)
  BY <1>8, <1>10, <1>12, FromThen
<1>14. From(p, Off(<<"fifo_temp">>), p)
  BY <1>9, FifoHopeCommon, CommonOffs, FromCommon
<1> QED
  BY <1>9, <1>13, <1>14, FromThen DEF FifoSources


(* The fifo on, and empty. *)
LEMMA FifoStarts ==
  ASSUME NEW a, NEW b, NEW c, NEW d, NEW m, NEW g,
         "dmp" \in c, "dmp" \in d, "dmp" \notin a, "fifo" \notin b
  PROVE  From(Hope(a, b, c, d, m, g, "any"), FifoStart,
              Hope({"fifo"} \union a, b, {}, {}, m, g, "fit"))
<1> DEFINE aa == a \union {"fifo"}
           bb == b \ {"fifo"}
           cc == c \ {"fifo"}
           dd == d \union {"fifo"}
           p == Hope(a, b, c, d, m, g, "any")
           q == Hope(aa, bb, cc, dd, m, g, "any")
           r == Hope({"fifo"} \union a, b, {}, {}, m, g, "fit")
<1>1. From(p, On(<<"fifo">>), q)
  BY HopeOn, OptionElements
<1>2. /\ q.on = aa /\ q.off = bb /\ q.notyes = cc /\ q.notno = dd /\ q.loose = {}
      /\ q.odd = {} /\ q.dmp = {FALSE} /\ q.magin = m /\ q.mag = g /\ q.tap = Taps
      /\ q.fifo = "any"
  BY DEF Hope
<1>3. /\ r.on = {"fifo"} \union a /\ r.off = b /\ r.notyes = {} /\ r.notno = {}
      /\ r.loose = {} /\ r.odd = {} /\ r.dmp = {FALSE} /\ r.magin = m /\ r.mag = g
      /\ r.tap = Taps /\ r.fifo = "fit"
  BY DEF Hope
<1> HIDE DEF p, q, r
<1>4. Restarts(q, r)
  <2>1. Started(q) = {"fifo"}
    <3>1. q.dmp # {TRUE}
      <4>1. FALSE \in q.dmp
        BY <1>2
      <4> QED
        BY <4>1
    <3>2. Started(q) = {"fifo"} \union {}
      BY <3>1 DEF Started
    <3> QED
      BY <3>2
  <2>2. /\ {"fifo", "dmp"} \subseteq q.notno /\ q.dmp = {FALSE} /\ "dmp" \in q.notyes
    BY <1>2
  <2>3. /\ r.on \subseteq (q.on \ {"fifo", "dmp"}) \union Started(q)
        /\ r.off \subseteq (q.off \union {"fifo", "dmp"}) \ Started(q)
    BY <1>2, <1>3, <2>1
  <2>4. /\ r.notyes \subseteq q.notyes /\ r.notno \subseteq q.notno
        /\ q.loose \subseteq r.loose /\ q.odd \subseteq r.odd
        /\ q.dmp \subseteq r.dmp /\ q.magin \subseteq r.magin
        /\ q.mag \subseteq r.mag /\ q.tap \subseteq r.tap
        /\ r.fifo # "none"
    BY <1>2, <1>3
  <2> QED
    BY <2>2, <2>3, <2>4 DEF Restarts
<1>5. Shut(q)
  BY <1>2 DEF Shut
<1>6. From(q, ResetFifo, r)
  BY <1>4, <1>5, RestartLeads, ResetFifoIs, SeqsAre DEF From
<1>7. From(p, FifoStart, r)
  BY <1>1, <1>6, FromThen DEF FifoStart
<1> QED
  BY <1>7 DEF p, r

-----------------------------------------------------------------------------
(* The magnetometer by the master. *)
MagHope(a, b) ==
  Hope(a, b, {"iic_bypass", "dmp"}, Rare \union {"iic_master"}, BOOLEAN, {"measuring"}, "any")
MagMastered == MagHope(Elements(Imu), {"sleep", "dmp", "fifo_temp", "fifo_slv0"})
MagFed == MagHope({"fifo_slv0"} \union Elements(Imu), {"sleep", "dmp", "fifo_temp"})

LEMMA FifoMagOpens ==
  From(FifoFed, MagInit \o Steps(<<"mag_mode", "mag_bits">>) \o On(<<"iic_master">>),
       MagMastered)
<1> DEFINE a == Elements(Imu)
           b == {"sleep", "dmp", "fifo_temp", "fifo_slv0"}
           c == {"iic_master", "iic_bypass", "dmp"}
           m == {FALSE}
           aa == (a \ {"iic_master"}) \union {"iic_bypass"}
           bb == (b \union {"iic_master"}) \ {"iic_bypass"}
           q == Hope(aa, bb, c, Rare, BOOLEAN, {"measuring"}, "any")
           r == Hope(aa \union {"iic_master"}, bb \ {"iic_master"}, c \ {"iic_master"},
                     Rare \union {"iic_master"}, BOOLEAN, {"measuring"}, "any")
           s == MagInit \o Steps(<<"mag_mode", "mag_bits">>)
<1>1. m \in SUBSET BOOLEAN /\ "iic_master" \in c
  OBVIOUS
<1>2. From(Hope(a, b, c, Rare, m, Mag, "any"), s, q)
  <2> HIDE DEF a, b, c, m
  <2> QED
    BY <1>1, MagLeads
<1>3. From(q, On(<<"iic_master">>), r)
  <2> HIDE DEF aa, bb, c
  <2> QED
    BY OptionElements, HopeOn
<1>4. Weaker(r, MagMastered)
  <2>1. /\ a \subseteq aa \union {"iic_master"} /\ b \subseteq bb \ {"iic_master"}
        /\ {"iic_bypass", "dmp"} \subseteq c \ {"iic_master"}
    BY ImuIs
  <2> HIDE DEF a, aa, b, bb, c
  <2>2. Weaker(r, Hope(a, b, {"iic_bypass", "dmp"}, Rare \union {"iic_master"}, BOOLEAN,
                       {"measuring"}, "any"))
    BY <2>1, HopeMore
  <2> QED
    BY <2>2, Zenon DEF MagMastered, MagHope, a, b
<1>5. FifoFed = Hope(a, b, c, Rare, m, Mag, "any")
  BY DEF FifoFed, FifoHope
<1> DEFINE p == Hope(a, b, c, Rare, m, Mag, "any")
<1>6. From(p, s, q) /\ From(q, On(<<"iic_master">>), r)
  BY <1>2, <1>3
<1> HIDE DEF p, q, r, s
<1>7. From(p, s \o On(<<"iic_master">>), MagMastered)
  BY <1>4, <1>6, FromThen, FromMore
<1> QED
  BY <1>5, <1>7 DEF p, s

(* Steps that leave what is known of it. *)
LEMMA MagMasteredKeeps ==
  /\ \A t \in Seq(Mild(Ons, Offs \ {"iic_master"})) : From(MagMastered, t, MagMastered)
  /\ From(MagMastered, Off(<<"iic_bypass">>), MagMastered)
  /\ From(MagMastered, Raise(<<"iic_master">>), MagMastered)
  /\ From(MagMastered, Drop(<<"iic_bypass">>), MagMastered)
<1> DEFINE a == Elements(Imu)
           b == {"sleep", "dmp", "fifo_temp", "fifo_slv0"}
           c == {"iic_bypass", "dmp"}
           d == Rare \union {"iic_master"}
           h(aa, bb, cc, dd) == Hope(aa, bb, cc, dd, BOOLEAN, {"measuring"}, "any")
<1>1. MagMastered = h(a, b, c, d)
  BY DEF MagMastered, MagHope
<1>2. ASSUME NEW t \in Seq(Mild(Ons, Offs \ {"iic_master"}))
      PROVE  From(MagMastered, t, MagMastered)
  <2> DEFINE p == MagMastered
  <2>1. p.on = a /\ p.off = b /\ p.notyes = c /\ p.notno = d /\ p.fifo = "any"
    BY <1>1 DEF Hope
  <2>2. Ons \intersect (b \union c) = {} /\ (Offs \ {"iic_master"}) \intersect (a \union d) = {}
    BY ImuIs DEF Ons, Offs, Rare, Sources
  <2> HIDE DEF p, a, b, c, d
  <2>3. Bears(p, Ons, Offs \ {"iic_master"}) /\ Shut(p)
    BY <2>1, <2>2 DEF Bears, Shut
  <2>4. Ons \in SUBSET Option /\ Offs \ {"iic_master"} \in SUBSET Option
    BY CommonIs
  <2>5. From(p, t, p)
    BY <2>1, <2>3, <2>4, FromMild
  <2> QED
    BY <2>5 DEF p
<1>3. "iic_bypass" \in Option /\ "iic_master" \in Option
  BY OptionElements
<1>4. "iic_bypass" \in c /\ "iic_bypass" \notin a \union b \union d
      /\ "iic_master" \in d /\ "iic_master" \notin b /\ "iic_master" \notin a
  BY ImuIs DEF Rare
<1> HIDE DEF a, b, c, d
<1>5. From(MagMastered, Off(<<"iic_bypass">>), MagMastered)
  <2> DEFINE aa == a \ {"iic_bypass"}
             bb == b \union {"iic_bypass"}
             cc == c \union {"iic_bypass"}
             dd == d \ {"iic_bypass"}
  <2>1. From(h(a, b, c, d), Off(<<"iic_bypass">>), h(aa, bb, cc, dd))
    BY <1>3, HopeOff
  <2>2. a \subseteq aa /\ b \subseteq bb /\ c \subseteq cc /\ d \subseteq dd
    BY <1>4
  <2> HIDE DEF aa, bb, cc, dd
  <2>3. Weaker(h(aa, bb, cc, dd), h(a, b, c, d))
    BY <2>2, HopeMore
  <2> HIDE DEF h
  <2> QED
    BY <1>1, <2>1, <2>3, FromMore
<1>6. From(MagMastered, Raise(<<"iic_master">>), MagMastered)
  <2> DEFINE aa == a \union {"iic_master"}
             bb == b \ {"iic_master"}
  <2>1. From(h(a, b, c, d), Raise(<<"iic_master">>), h(aa, bb, c, d))
    BY <1>3, <1>4, HopeRaise
  <2>2. a \subseteq aa /\ b \subseteq bb
    BY <1>4
  <2> HIDE DEF aa, bb
  <2>3. Weaker(h(aa, bb, c, d), h(a, b, c, d))
    BY <2>2, HopeMore
  <2> HIDE DEF h
  <2> QED
    BY <1>1, <2>1, <2>3, FromMore
<1>7. From(MagMastered, Drop(<<"iic_bypass">>), MagMastered)
  <2> DEFINE aa == a \ {"iic_bypass"}
             bb == b \union {"iic_bypass"}
  <2>1. From(h(a, b, c, d), Drop(<<"iic_bypass">>), h(aa, bb, c, d))
    BY <1>3, <1>4, HopeDrop
  <2>2. a \subseteq aa /\ b \subseteq bb
    BY <1>4
  <2> HIDE DEF aa, bb
  <2>3. Weaker(h(aa, bb, c, d), h(a, b, c, d))
    BY <2>2, HopeMore
  <2> HIDE DEF h
  <2> QED
    BY <1>1, <2>1, <2>3, FromMore
<1> QED
  BY <1>2, <1>5, <1>6, <1>7

LEMMA MagMasteredMore ==
  LET Q == Seq(Mild(Ons, Offs \ {"iic_master"})) IN
    /\ Choose(<<"iic_clock">>) \in Q /\ On(<<"iic_multi_master">>) \in Q
    /\ Off(<<"iic_wait">>) \in Q /\ Choose(<<"iic_read_mode">>) \in Q
    /\ Off(<<"iic_delay">>) \in Q /\ Steps(<<"slv0_addr", "slv0_reg">>) \in Q
<1> DEFINE U == Ons
           V == Offs \ {"iic_master"}
           Q == Seq(Mild(U, V))
<1>1. U \in SUBSET Option /\ V \in SUBSET Option
  BY CommonIs
<1>2. <<"iic_multi_master">> \in Seq(U)
  BY CommonSets
<1>3. <<"iic_wait">> \in Seq(V) /\ <<"iic_delay">> \in Seq(V)
  BY CommonSets
<1>4. /\ <<"iic_clock">> \in Seq(Nothing) /\ <<"iic_read_mode">> \in Seq(Nothing)
      /\ <<"slv0_addr", "slv0_reg">> \in Seq(Nothing)
  <2>1. {"iic_clock", "iic_read_mode", "slv0_addr", "slv0_reg"} \subseteq Nothing
    BY DEF Nothing, Plain, Changing, Turning
  <2> QED
    BY <2>1
<1> HIDE DEF U, V
<1>5. On(<<"iic_multi_master">>) \in Q /\ Off(<<"iic_wait">>) \in Q /\ Off(<<"iic_delay">>) \in Q
  BY <1>1, <1>2, <1>3, MildSwitches
<1>6. /\ Choose(<<"iic_clock">>) \in Q /\ Choose(<<"iic_read_mode">>) \in Q
      /\ Steps(<<"slv0_addr", "slv0_reg">>) \in Q
  BY <1>1, <1>4, MildChoices DEF Choose
<1> QED
  BY <1>5, <1>6 DEF U, V

(* mpu9250_mag_set_fifo_mode *)
LEMMA MagFeeds == From(MagMastered, MagSetFifoMode, MagFed)
<1> DEFINE a == Elements(Imu)
           b == {"sleep", "dmp", "fifo_temp", "fifo_slv0"}
           c == {"iic_bypass", "dmp"}
           d == Rare \union {"iic_master"}
           h(aa, bb) == Hope(aa, bb, c, d, BOOLEAN, {"measuring"}, "any")
           a1 == a \union {"fifo_slv0"}
           b1 == b \ {"fifo_slv0"}
           a2 == a1 \union {"slv0"}
           b2 == b1 \ {"slv0"}
<1>1. MagMastered = h(a, b)
  BY DEF MagMastered, MagHope
<1>2. /\ "fifo_slv0" \in Option /\ "slv0" \in Option
      /\ "fifo_slv0" \in d /\ "slv0" \in d
  BY OptionElements DEF Sources, Rare
<1>3. /\ {"fifo_slv0"} \union a \subseteq a2 /\ {"sleep", "dmp", "fifo_temp"} \subseteq b2
  OBVIOUS
<1>4. From(h(a, b), Raise(<<"fifo_slv0">>), h(a1, b1))
  <2> HIDE DEF a, b, c, d
  <2> QED
    BY <1>2, HopeRaise
<1>5. From(h(a1, b1), Raise(<<"slv0">>), h(a2, b2))
  <2> HIDE DEF a1, b1, c, d
  <2> QED
    BY <1>2, HopeRaise
<1>6. Weaker(h(a2, b2), MagFed)
  <2> DEFINE aa == {"fifo_slv0"} \union a
             bb == {"sleep", "dmp", "fifo_temp"}
  <2>1. aa \subseteq a2 /\ bb \subseteq b2
    BY <1>3
  <2> HIDE DEF a2, b2, c, d, aa, bb
  <2>2. Weaker(h(a2, b2), h(aa, bb))
    BY <2>1, HopeMore
  <2> QED
    BY <2>2, Zenon DEF MagFed, MagHope, c, d, aa, bb
<1> DEFINE p == h(a, b)
           q == h(a1, b1)
           r == h(a2, b2)
<1>7. From(p, Raise(<<"fifo_slv0">>), q) /\ From(q, Raise(<<"slv0">>), r) /\ MagMastered = p
  BY <1>1, <1>4, <1>5
<1> HIDE DEF p, q, r
<1>8. Raise(<<"fifo_slv0", "slv0">>) = Raise(<<"fifo_slv0">>) \o Raise(<<"slv0">>)
  BY DEF Raise
<1>9. From(MagMastered, Raise(<<"fifo_slv0", "slv0">>), MagFed)
  <2>1. Weaker(r, MagFed)
    BY <1>6 DEF r
  <2> QED
    BY <1>7, <1>8, <2>1, FromThen, FromMore
<1>10. From(MagMastered, Raise(<<"iic_master">>) \o Drop(<<"iic_bypass">>), MagMastered)
  BY MagMasteredKeeps, FromThen
<1>11. From(MagMastered, Raise(<<"iic_master">>) \o Drop(<<"iic_bypass">>)
                           \o Steps(<<"slv0_addr", "slv0_reg">>), MagMastered)
  BY <1>10, MagMasteredKeeps, MagMasteredMore, FromThen
<1> QED
  BY <1>9, <1>11, FromThen DEF MagSetFifoMode

LEMMA FifoMagLeads == ASSUME NEW bus, bus # "spi" PROVE From(FifoFed, FifoMag(bus), MagFed)
<1> DEFINE m == MagInit \o Steps(<<"mag_mode", "mag_bits">>) \o On(<<"iic_master">>)
           b == Off(<<"iic_bypass">>)
           c == Choose(<<"iic_clock">>)
           d == On(<<"iic_multi_master">>)
           e == Off(<<"iic_wait">>)
           f == Choose(<<"iic_read_mode">>)
           g == Off(<<"iic_delay">>)
           M == MagMastered
<1>1. FifoMag(bus) = m \o b \o c \o d \o e \o f \o g \o MagSetFifoMode
  BY DEF FifoMag
<1>2. /\ From(FifoFed, m, M) /\ From(M, b, M) /\ From(M, c, M) /\ From(M, d, M)
      /\ From(M, e, M) /\ From(M, f, M) /\ From(M, g, M) /\ From(M, MagSetFifoMode, MagFed)
  BY FifoMagOpens, MagMasteredKeeps, MagMasteredMore, MagFeeds
<1> HIDE DEF m, b, c, d, e, f, g, M
<1>3. From(FifoFed, m \o b \o c, M)
  BY <1>2, FromThen
<1>4. From(FifoFed, m \o b \o c \o d \o e, M)
  BY <1>2, <1>3, FromThen
<1>5. From(FifoFed, m \o b \o c \o d \o e \o f \o g, M)
  BY <1>2, <1>4, FromThen
<1> QED
  BY <1>1, <1>2, <1>5, FromThen


LEMMA FifoLeads ==
  ASSUME NEW bus \in {"iic", "spi"}
  PROVE  To(FifoInit(bus), FifoAim(bus, {}))
<1> DEFINE p == FifoBare
           q == FifoFed
           open == First \o Off(<<"sleep">>)
           slave == IF bus = "spi" THEN On(<<"disable_iic_slave">>) ELSE <<>>
           ranges == Choose(<<"clock_source", "divider", "accelerometer_range",
                              "gyroscope_range">>)
           size == On(<<"fifo_1024kb">>)
<1>1. To(open, p)
  <2> DEFINE b == {"sleep", "dmp"} \union Sources
             c == {"iic_master", "iic_bypass", "dmp"}
  <2>1. /\ b \subseteq Late \union {"sleep"} /\ c \subseteq Option
        /\ Rare \subseteq Option \ {"sleep"}
    BY OptionElements DEF Late, Rare, Sources
  <2> HIDE DEF b, c
  <2>2. Weaker(OpenedHope, Hope({}, b, c, Rare, {FALSE}, Mag, "any"))
    BY <2>1, HopeMore DEF OpenedHope
  <2>3. Weaker(OpenedHope, p)
    BY <2>2, Zenon DEF FifoBare, FifoHope, b, c
  <2> QED
    BY <2>3, ToOpened, ToMore
<1>2. FifoOpen(bus) = open \o slave \o size \o ranges
  BY DEF FifoOpen, First
<1>3. slave \in Seq(Common) /\ size \in Seq(Common) /\ ranges \in Seq(Common)
  BY CommonOpen, CommonSwitches, CommonChoices
<1>4. /\ Bears(p, Ons, Offs) /\ Shut(p) /\ p.fifo # "fit"
      /\ Bears(q, Ons, Offs) /\ Shut(q) /\ q.fifo # "fit"
  BY FifoHopeCommon
<1> HIDE DEF p, q, open, slave, ranges, size
<1>5. To(FifoOpen(bus), p)
  BY <1>1, <1>2, <1>3, <1>4, ToCommon
<1>6. To(FifoOpen(bus) \o FifoSensors, p)
  BY <1>4, <1>5, CommonParts, ToCommon
<1>7. To(FifoOpen(bus) \o FifoSensors \o FifoSources, q)
  BY <1>6, FifoFeeds, ToThen DEF p, q
<1> DEFINE s == FifoOpen(bus) \o FifoSensors \o FifoSources \o FifoInterrupts \o FifoFilters
<1>8. To(s, q)
  BY <1>4, <1>7, CommonInterrupts, CommonParts, ToCommon
<1>9. FifoInit(bus) = s \o FifoMag(bus) \o FifoStart
  BY DEF FifoInit
<1> HIDE DEF s
<1>10. CASE bus = "spi"
  <2> DEFINE a == Elements(Imu)
             b == {"sleep", "dmp", "fifo_temp", "fifo_slv0"}
             c == {"iic_master", "iic_bypass", "dmp"}
  <2>1. FifoMag(bus) = <<>>
    BY <1>10 DEF FifoMag
  <2>2. FifoInit(bus) = s \o FifoStart
    BY <1>8, <1>9, <2>1, ConcatEmptySeq DEF To
  <2>3. "dmp" \in c /\ "dmp" \in Rare /\ "dmp" \notin a /\ "fifo" \notin b
    BY ImuIs DEF Rare
  <2>4. q = Hope(a, b, c, Rare, {FALSE}, Mag, "any")
    BY DEF q, FifoFed, FifoHope
  <2>5. FifoAim(bus, {}) = Hope({"fifo"} \union a, b, {}, {}, {FALSE}, Mag, "fit")
    BY <1>10 DEF FifoAim
  <2> HIDE DEF a, b, c
  <2>6. From(q, FifoStart, FifoAim(bus, {}))
    BY <2>3, <2>4, <2>5, FifoStarts
  <2> QED
    BY <1>8, <2>2, <2>6, ToThen
<1>11. CASE bus = "iic"
  <2> DEFINE a == {"fifo_slv0"} \union Elements(Imu)
             b == {"sleep", "dmp", "fifo_temp"}
             c == {"iic_bypass", "dmp"}
             d == Rare \union {"iic_master"}
             m == {"measuring"}
  <2>1. From(q, FifoMag(bus), MagFed)
    BY <1>11, FifoMagLeads DEF q
  <2>2. To(s \o FifoMag(bus), MagFed)
    BY <1>8, <2>1, ToThen
  <2>3. "dmp" \in c /\ "dmp" \in d /\ "dmp" \notin a /\ "fifo" \notin b
    BY ImuIs DEF Rare
  <2>4. MagFed = Hope(a, b, c, d, BOOLEAN, m, "any")
    BY DEF MagFed, MagHope
  <2>5. FifoAim(bus, {}) = Hope({"fifo"} \union a, b, {}, {}, BOOLEAN, m, "fit")
    <3>1. {"fifo"} \union a = {"fifo", "fifo_slv0"} \union Elements(Imu)
      OBVIOUS
    <3> QED
      BY <1>11, <3>1 DEF FifoAim
  <2> HIDE DEF a, b, c, d, m
  <2>6. From(MagFed, FifoStart, FifoAim(bus, {}))
    BY <2>3, <2>4, <2>5, FifoStarts
  <2> QED
    BY <1>9, <2>2, <2>6, ToThen
<1> QED
  BY <1>10, <1>11


(* What is known on the way of the dmp_inits. *)
Dare(loose, odd, on, off, notyes, notno, dmp, tap, fifo) ==
  [loose |-> loose, odd |-> odd, on |-> on, off |-> off, notyes |-> notyes,
   notno |-> notno, dmp |-> dmp, magin |-> BOOLEAN, mag |-> Mag, tap |-> tap, fifo |-> fifo]

(* The self test: switches that are no setters, and the reset.  Of the
   setters' calls before it nothing is left but the calls. *)
Tested == {s \in Quiet : s.do \notin {"on", "off"}}

LEMMA TestedTurns ==
  ASSUME NEW s \in Tested, NEW w, NEW v, Turns(s, w, v)
  PROVE  /\ v \in World /\ v.yes = w.yes /\ v.no = w.no
         /\ v.dmp = w.dmp /\ v.magin = w.magin
<1>1. v \in World /\ Noted(s, w, v)
  BY DEF Turns
<1>2. s.do \in Plain \union {"raise", "drop"}
  BY DEF Tested, Quiet, Switches
<1>3. s.do \notin {"on", "off", "link", "poll", "start", "close", "mag_inited", "mag_closed"}
  BY <1>2 DEF Plain
<1> QED
  BY <1>1, <1>3 DEF Noted

Forgets(p) ==
  /\ p.on = {} /\ p.off = {} /\ p.fifo = "any" /\ p.mag = Mag /\ p.tap = Taps
  /\ Option \ p.notyes \subseteq p.loose /\ Option \ p.notno \subseteq p.odd

LEMMA TestedLeads ==
  ASSUME NEW p, Forgets(p), NEW t \in Seq(Tested)
  PROVE  From(p, t, p)
<1>1. ASSUME NEW s \in Tested, NEW w \in Known(p), NEW v, Turns(s, w, v)
      PROVE  v \in Known(p)
  <2>1. /\ v \in World /\ v.yes = w.yes /\ v.no = w.no
        /\ v.dmp = w.dmp /\ v.magin = w.magin
    BY <1>1, TestedTurns
  <2>2. /\ w \in World /\ p.notyes \intersect w.yes = {} /\ p.notno \intersect w.no = {}
        /\ w.dmp \in p.dmp /\ w.magin \in p.magin
    BY DEF Known
  <2>3. w.yes \subseteq Option /\ w.no \subseteq Option /\ v.mag \in Mag /\ v.tap \in Taps
    BY <2>1, <2>2 DEF World, Taps
  <2>4. v.yes \subseteq p.loose /\ v.no \subseteq p.odd
    BY <2>1, <2>2, <2>3 DEF Forgets
  <2>5. Fits(p, v)
    BY DEF Forgets, Fits
  <2>6. v.mag \in p.mag /\ v.tap \in p.tap /\ p.on = {} /\ p.off = {}
    BY <2>3 DEF Forgets
  <2> QED
    BY <2>1, <2>2, <2>4, <2>5, <2>6 DEF Known
<1>2. ASSUME NEW s \in Tested, NEW w \in Known(p) PROVE Can(s, w)
  <2>1. s.do \in Plain \union {"raise", "drop"}
    BY DEF Tested, Quiet, Switches
  <2>2. s.do \notin Mute
    BY <2>1 DEF Plain, Mute, MagSteps
  <2> QED
    BY <2>2, CanAlways
<1>3. Tested \in SUBSET AStep
  BY Kinds DEF Tested
<1>4. Still(Known(p))
  BY StillKnown DEF Forgets, Shut
<1> DEFINE S == Tested
<1> HIDE DEF S
<1>5. /\ S \in SUBSET AStep /\ t \in Seq(S)
      /\ \A s \in S, w \in Known(p) : Can(s, w) /\ \A v : Turns(s, w, v) => v \in Known(p)
  BY <1>1, <1>2, <1>3 DEF S
<1>6. Leads(Known(p), t, Known(p))
  BY <1>4, <1>5, LeadsKeep
<1>7. t \in Seq(AStep)
  BY <1>5
<1> QED
  BY <1>6, <1>7 DEF From

LEMMA TestedSwitches ==
  ASSUME NEW t \in Seq(Option)
  PROVE  Raise(t) \in Seq(Tested)
<1>1. DOMAIN t = 1 .. Len(t) /\ Len(t) \in Nat
  BY LenProperties
<1>2. \A i \in 1 .. Len(t) : t[i] \in Option
  BY ElementOfSeq
<1>3. \A o \in Option : [do |-> "raise", opt |-> o] \in Tested
  <2> SUFFICES ASSUME NEW o \in Option PROVE [do |-> "raise", opt |-> o] \in Tested
    OBVIOUS
  <2>1. [do |-> "raise", opt |-> o] \in Quiet
    BY Kinds DEF Switches
  <2> QED
    BY <2>1 DEF Tested
<1> DEFINE Q == Tested
<1> HIDE DEF Q
<1>4. \A f : f \in [1 .. Len(t) -> Q] => f \in Seq(Q)
  BY <1>1, SeqDef
<1>5. Raise(t) \in [1 .. Len(t) -> Q]
  BY <1>1, <1>2, <1>3 DEF Raise, Q
<1>6. Raise(t) \in Seq(Q)
  BY <1>4, <1>5
<1> QED
  BY <1>6 DEF Q

LEMMA TestedSteps ==
  ASSUME NEW t \in Seq(Plain), t # <<>>
  PROVE  Steps(t) \in Seq(Tested)
<1>1. \A x \in Plain : Step(x) \in Tested
  <2> SUFFICES ASSUME NEW x \in Plain PROVE Step(x) \in Tested
    OBVIOUS
  <2>1. Step(x) \in Quiet /\ Step(x).do = x
    BY StepIs
  <2>2. x \notin {"on", "off"}
    BY DEF Plain
  <2> QED
    BY <2>1, <2>2 DEF Tested
<1> QED
  BY <1>1, StepsSeq

TestRun ==
  BiasesSetUp(<<>>) \o BiasesCollect \o BiasesSetUp(Raise(Tests)) \o BiasesCollect
    \o Steps(<<"factory", "reset">>)

LEMMA TestRunIs == SelfTest = TestRun \o Drop(<<"sleep">>) /\ TestRun \in Seq(Tested)
<1>1. ASSUME NEW t \in Seq(Tested) PROVE BiasesSetUp(t) \in Seq(Tested)
  <2>1. <<"no_power", "no_irq", "no_sources", "no_power", "no_master", "no_user",
          "flush", "filter", "rate", "no_tests", "no_tests">> \in Seq(Plain)
    BY DEF Plain
  <2> QED
    BY <2>1, TestedSteps, ConcatSeq DEF BiasesSetUp
<1>2. BiasesCollect \in Seq(Tested)
  <2>1. <<"fifo">> \o Imu \in Seq(Option)
    <3>1. <<"fifo">> \in Seq(Option)
      BY OptionsAre DEF UserCtrl
    <3> QED
      BY <3>1, OptionsAre, ConcatSeq
  <2>2. <<"no_sources", "drain">> \in Seq(Plain)
    BY DEF Plain
  <2> QED
    BY <2>1, <2>2, TestedSteps, TestedSwitches, ConcatSeq DEF BiasesCollect
<1>3. <<>> \in Seq(Tested) /\ Raise(Tests) \in Seq(Tested)
  BY OptionsAre, TestedSwitches
<1>4. Steps(<<"factory", "reset">>) \in Seq(Tested)
  <2>1. <<"factory", "reset">> \in Seq(Plain)
    BY DEF Plain
  <2> QED
    BY <2>1, TestedSteps
<1>5. BiasesSetUp(<<>>) \in Seq(Tested) /\ BiasesSetUp(Raise(Tests)) \in Seq(Tested)
  BY <1>1, <1>3
<1>6. TestRun \in Seq(Tested)
  BY <1>2, <1>4, <1>5, CommonMore DEF TestRun
<1>7. SelfTest = TestRun \o Drop(<<"sleep">>)
  BY DEF SelfTest, TestRun
<1> QED
  BY <1>6, <1>7

-----------------------------------------------------------------------------
(* The firmware's start, and the tap detection. *)
LEMMA StartLeads ==
  ASSUME NEW a, NEW b, NEW c, NEW d, NEW f, f = "none" => "fifo" \in b
  PROVE  From(Dare({}, {}, a, b, c, d, {FALSE}, Taps, f), <<Step("start")>>,
              Dare({}, {}, a, b, c, d, {TRUE}, Taps, f))
<1> DEFINE p == Dare({}, {}, a, b, c, d, {FALSE}, Taps, f)
           q == Dare({}, {}, a, b, c, d, {TRUE}, Taps, f)
           s == Step("start")
<1>1. /\ p.loose = {} /\ p.odd = {} /\ p.on = a /\ p.off = b /\ p.notyes = c
      /\ p.notno = d /\ p.dmp = {FALSE} /\ p.magin = BOOLEAN /\ p.mag = Mag
      /\ p.tap = Taps /\ p.fifo = f
  BY DEF Dare
<1>2. /\ q.loose = {} /\ q.odd = {} /\ q.on = a /\ q.off = b /\ q.notyes = c
      /\ q.notno = d /\ q.dmp = {TRUE} /\ q.magin = BOOLEAN /\ q.mag = Mag
      /\ q.tap = Taps /\ q.fifo = f
  BY DEF Dare
<1>3. s \in AStep /\ s.do = "start"
  BY StepIs DEF Loud
<1> HIDE DEF p, q, s
<1>4. ASSUME NEW w \in Known(p), NEW v, Turns(s, w, v) PROVE v \in Known(q)
  <2>1. v \in World /\ Turned(s, w, v) /\ Stored(s, w, v) /\ Noted(s, w, v)
    BY <1>4 DEF Turns
  <2>2. v.on = w.on
    BY <1>3, <2>1 DEF Turned, Turning
  <2>3. v.queued = w.queued /\ v.tap = w.tap /\ v.mag = w.mag
    BY <1>3, <2>1 DEF Stored
  <2>4. v.yes = w.yes /\ v.no = w.no /\ v.magin = w.magin
    BY <1>3, <2>1 DEF Noted
  <2>5. v.dmp \in q.dmp
    <3>1. v.dmp
      BY <1>3, <2>1 DEF Noted
    <3>2. v.dmp \in BOOLEAN
      BY <2>1 DEF World
    <3> QED
      BY <1>2, <3>1, <3>2
  <2>6. /\ w.yes \subseteq w.on \union p.loose
        /\ w.on \intersect w.no \subseteq {"iic_bypass"} \union p.odd
        /\ p.on \subseteq w.on /\ p.off \intersect w.on = {}
        /\ p.notyes \intersect w.yes = {} /\ p.notno \intersect w.no = {}
        /\ w.magin \in p.magin /\ w.mag \in p.mag /\ w.tap \in p.tap
        /\ Fits(p, w)
    BY DEF Known
  <2>7. Fits(q, v)
    BY <1>1, <1>2, <2>2, <2>3, <2>6 DEF Fits
  <2> QED
    BY <1>1, <1>2, <2>1, <2>2, <2>3, <2>4, <2>5, <2>6, <2>7 DEF Known
<1>5. \A w : Can(s, w)
  BY <1>3, CanAlways DEF Mute, MagSteps
<1>6. Still(Known(p)) /\ Still(Known(q))
  BY <1>1, <1>2, StillKnown DEF Shut
<1>7. From(p, <<s>>, q)
  BY <1>3, <1>4, <1>5, <1>6, LeadsOne DEF From
<1> QED
  BY <1>7 DEF p, q, s

Tapping == {"tap_defaults", "tap_thresh"}

LEMMA TapLeads ==
  ASSUME NEW a, NEW b, NEW c, NEW d, NEW e, NEW g \in SUBSET Taps, NEW gg \in SUBSET Taps,
         NEW f, f = "none" => "fifo" \in b, NEW x \in Tapping,
         x = "tap_defaults" => gg = Taps, "set" \in gg
  PROVE  From(Dare({}, {}, a, b, c, d, e, g, f), <<Step(x)>>,
              Dare({}, {}, a, b, c, d, e, gg, f))
<1> DEFINE p == Dare({}, {}, a, b, c, d, e, g, f)
           q == Dare({}, {}, a, b, c, d, e, gg, f)
           s == Step(x)
<1>1. /\ p.loose = {} /\ p.odd = {} /\ p.on = a /\ p.off = b /\ p.notyes = c
      /\ p.notno = d /\ p.dmp = e /\ p.magin = BOOLEAN /\ p.mag = Mag
      /\ p.tap = g /\ p.fifo = f
  BY DEF Dare
<1>2. /\ q.loose = {} /\ q.odd = {} /\ q.on = a /\ q.off = b /\ q.notyes = c
      /\ q.notno = d /\ q.dmp = e /\ q.magin = BOOLEAN /\ q.mag = Mag
      /\ q.tap = gg /\ q.fifo = f
  BY DEF Dare
<1>3. s \in AStep /\ s.do = x
  BY StepIs, Kinds DEF Plain, Tapping
<1> HIDE DEF p, q, s
<1>4. ASSUME NEW w \in Known(p), NEW v, Turns(s, w, v) PROVE v \in Known(q)
  <2>1. v \in World /\ Turned(s, w, v) /\ Stored(s, w, v) /\ Noted(s, w, v)
    BY <1>4 DEF Turns
  <2>2. v.on = w.on
    BY <1>3, <2>1 DEF Turned, Turning, Tapping
  <2>3. v.queued = w.queued /\ v.mag = w.mag
    BY <1>3, <2>1 DEF Stored, Tapping
  <2>4. v.yes = w.yes /\ v.no = w.no /\ v.magin = w.magin /\ v.dmp = w.dmp
    BY <1>3, <2>1 DEF Noted, Tapping
  <2>5. v.tap \in gg
    <3>1. v.tap \in Taps
      BY <2>1 DEF World, Taps
    <3>2. x = "tap_thresh" => v.tap = "set"
      BY <1>3, <2>1 DEF Stored
    <3> QED
      BY <3>1, <3>2 DEF Tapping
  <2>6. /\ w.yes \subseteq w.on \union p.loose
        /\ w.on \intersect w.no \subseteq {"iic_bypass"} \union p.odd
        /\ p.on \subseteq w.on /\ p.off \intersect w.on = {}
        /\ p.notyes \intersect w.yes = {} /\ p.notno \intersect w.no = {}
        /\ w.dmp \in p.dmp /\ w.magin \in p.magin /\ w.mag \in p.mag
        /\ Fits(p, w)
    BY DEF Known
  <2>7. Fits(q, v)
    BY <1>1, <1>2, <2>2, <2>3, <2>6 DEF Fits
  <2> QED
    BY <1>1, <1>2, <2>1, <2>2, <2>3, <2>4, <2>5, <2>6, <2>7 DEF Known
<1>5. \A w : Can(s, w)
  BY <1>3, CanAlways DEF Mute, MagSteps, Tapping
<1>6. Still(Known(p)) /\ Still(Known(q))
  BY <1>1, <1>2, StillKnown DEF Shut
<1>7. From(p, <<s>>, q)
  BY <1>3, <1>4, <1>5, <1>6, LeadsOne DEF From
<1> QED
  BY <1>7 DEF p, q, s


LEMMA DareTurns ==
  ASSUME NEW l, NEW o, NEW a, NEW b, NEW c, NEW d, NEW e, NEW g, NEW ll, NEW oo, NEW aa,
         NEW bb, NEW cc, NEW dd, NEW s \in [do : Switches, opt : Option],
         s.do \in {"on", "raise"} => aa \subseteq a \union {s.opt} /\ bb \subseteq b \ {s.opt},
         s.do \in {"off", "drop"} => aa \subseteq a \ {s.opt} /\ bb \subseteq b \union {s.opt},
         s.do = "on" => cc \subseteq c \ {s.opt} /\ dd \subseteq d \union {s.opt},
         s.do = "off" => cc \subseteq c \union {s.opt} /\ dd \subseteq d \ {s.opt},
         s.do \in {"raise", "drop"} => cc \subseteq c /\ dd \subseteq d,
         s.do = "raise" => s.opt \in d \union {"iic_bypass"},
         s.do = "drop" => s.opt \in c \union ll,
         l \ (IF s.do = "drop" THEN {} ELSE {s.opt}) \subseteq ll,
         o \ (IF s.do = "raise" THEN {} ELSE {s.opt}) \subseteq oo
  PROVE  From(Dare(l, o, a, b, c, d, e, g, "any"), <<s>>,
              Dare(ll, oo, aa, bb, cc, dd, e, g, "any"))
<1> DEFINE p == Dare(l, o, a, b, c, d, e, g, "any")
           q == Dare(ll, oo, aa, bb, cc, dd, e, g, "any")
<1>1. /\ p.loose = l /\ p.odd = o /\ p.on = a /\ p.off = b /\ p.notyes = c
      /\ p.notno = d /\ p.dmp = e /\ p.magin = BOOLEAN /\ p.mag = Mag
      /\ p.tap = g /\ p.fifo = "any"
  BY DEF Dare
<1>2. /\ q.loose = ll /\ q.odd = oo /\ q.on = aa /\ q.off = bb /\ q.notyes = cc
      /\ q.notno = dd /\ q.dmp = e /\ q.magin = BOOLEAN /\ q.mag = Mag
      /\ q.tap = g /\ q.fifo = "any"
  BY DEF Dare
<1> HIDE DEF p, q
<1>3. Learns(p, s, q)
  BY <1>1, <1>2 DEF Learns
<1>4. Shut(p) /\ Shut(q)
  BY <1>1, <1>2 DEF Shut
<1>5. Leads(Known(p), <<s>>, Known(q))
  BY <1>3, <1>4, SwitchLeads
<1>6. s \in AStep
  BY Kinds
<1> QED
  BY <1>5, <1>6 DEF p, q, From

LEMMA DareMore ==
  ASSUME NEW l, NEW o, NEW a, NEW b, NEW c, NEW d, NEW e, NEW g, NEW f, NEW aa, NEW bb,
         NEW cc, NEW dd, aa \subseteq a, bb \subseteq b, cc \subseteq c, dd \subseteq d
  PROVE  Weaker(Dare(l, o, a, b, c, d, e, g, f), Dare(l, o, aa, bb, cc, dd, e, g, "any"))
<1> DEFINE p == Dare(l, o, a, b, c, d, e, g, f)
           q == Dare(l, o, aa, bb, cc, dd, e, g, "any")
<1>1. /\ p.loose = l /\ p.odd = o /\ p.on = a /\ p.off = b /\ p.notyes = c
      /\ p.notno = d /\ p.dmp = e /\ p.magin = BOOLEAN /\ p.mag = Mag
      /\ p.tap = g /\ p.fifo = f
  BY DEF Dare
<1>2. /\ q.loose = l /\ q.odd = o /\ q.on = aa /\ q.off = bb /\ q.notyes = cc
      /\ q.notno = dd /\ q.dmp = e /\ q.magin = BOOLEAN /\ q.mag = Mag
      /\ q.tap = g /\ q.fifo = "any"
  BY DEF Dare
<1> HIDE DEF p, q
<1>3. Weaker(p, q)
  BY <1>1, <1>2 DEF Weaker
<1> QED
  BY <1>3 DEF p, q

(* Before and after the self test; L: what had been asked for. *)
Untested(L) ==
  Dare(L, {"sleep"}, {}, {}, Option \ L, Option \ {"sleep"}, {FALSE}, Taps, "any")
Awake(L, e, g) == Dare(L, {}, {}, {"sleep"}, {"dmp"}, {"fifo", "dmp"}, e, g, "any")

LEMMA SelfTestLeads ==
  ASSUME NEW L \in SUBSET (Option \ {"dmp"})
  PROVE  From(Untested(L), SelfTest, Awake(L, {FALSE}, Taps))
<1> DEFINE p == Untested(L)
           c == Option \ L
           d == Option \ {"sleep"}
           q == Dare(L, {}, {}, {"sleep"}, c, d, {FALSE}, Taps, "any")
           s == [do |-> "drop", opt |-> "sleep"]
<1>1. Forgets(p)
  <2>1. /\ p.on = {} /\ p.off = {} /\ p.fifo = "any" /\ p.mag = Mag /\ p.tap = Taps
        /\ p.notyes = c /\ p.notno = d /\ p.loose = L /\ p.odd = {"sleep"}
    BY DEF Untested, Dare
  <2> HIDE DEF p
  <2> QED
    BY <2>1 DEF Forgets
<1>2. s \in [do : Switches, opt : Option] /\ Drop(<<"sleep">>) = <<s>> /\ s.do = "drop"
      /\ s.opt = "sleep"
  BY SingleIs, OptionElements DEF Switches
<1>3. "sleep" \in c \union L
  BY OptionElements
<1> HIDE DEF s
<1>4. From(p, Drop(<<"sleep">>), q)
  <2> HIDE DEF c, d
  <2>1. From(Dare(L, {"sleep"}, {}, {}, c, d, {FALSE}, Taps, "any"), <<s>>, q)
    BY <1>2, <1>3, DareTurns
  <2> QED
    BY <1>2, <2>1, Zenon DEF Untested, c, d
<1>5. Weaker(q, Awake(L, {FALSE}, Taps))
  <2>1. {"dmp"} \subseteq c /\ {"fifo", "dmp"} \subseteq d
    BY OptionElements
  <2> HIDE DEF c, d
  <2> QED
    BY <2>1, DareMore DEF Awake
<1> HIDE DEF p, q
<1>6. From(p, SelfTest, q)
  BY <1>1, <1>4, TestRunIs, TestedLeads, FromThen
<1>7. From(p, SelfTest, Awake(L, {FALSE}, Taps))
  BY <1>5, <1>6, FromMore
<1> QED
  BY <1>7 DEF p

Wide == Mild(Option \ {"sleep", "dmp"}, Option \ {"fifo", "dmp"})

LEMMA AwakeKeeps ==
  ASSUME NEW L, NEW e, NEW g, NEW t \in Seq(Wide)
  PROVE  From(Awake(L, e, g), t, Awake(L, e, g))
<1> DEFINE p == Awake(L, e, g)
<1>1. p.on = {} /\ p.off = {"sleep"} /\ p.notyes = {"dmp"} /\ p.notno = {"fifo", "dmp"}
      /\ p.fifo = "any"
  BY DEF Awake, Dare
<1> HIDE DEF p
<1>2. Bears(p, Option \ {"sleep", "dmp"}, Option \ {"fifo", "dmp"}) /\ Shut(p)
  BY <1>1 DEF Bears, Shut
<1>3. From(p, t, p)
  BY <1>1, <1>2, FromMild DEF Wide
<1> QED
  BY <1>3 DEF p

LEMMA WideIs ==
  /\ Seq(Common) \subseteq Seq(Wide)
  /\ \A t \in Seq(Nothing) : Steps(t) \in Seq(Wide)
  /\ DmpSources \in Seq(Wide) /\ Sources6050 \in Seq(Wide)
<1>1. Common \subseteq Wide
  BY DEF Common, Wide, Mild, Ons, Offs
<1>2. Seq(Common) \subseteq Seq(Wide)
  BY <1>1
<1> DEFINE U == Option \ {"sleep", "dmp"}
           V == Option \ {"fifo", "dmp"}
<1>3. U \in SUBSET Option /\ V \in SUBSET Option
  OBVIOUS
<1>4. <<"fifo">> \in Seq(U) /\ <<"fifo_temp">> \in Seq(V)
  BY OptionElements DEF Sources
<1>5. Imu \in Seq(V)
  <2>1. "fifo_xg" \in V /\ "fifo_yg" \in V /\ "fifo_zg" \in V /\ "fifo_accel" \in V
    BY OptionElements DEF Sources
  <2> HIDE DEF V
  <2> QED
    BY <2>1 DEF Imu
<1>6. <<"fifo_temp">> \o Imu \in Seq(V)
  <2> HIDE DEF V
  <2> QED
    BY <1>4, <1>5, ConcatSeq
<1> HIDE DEF U, V
<1>7. /\ On(<<"fifo">>) \in Seq(Mild(U, V)) /\ Off(<<"fifo_temp">> \o Imu) \in Seq(Mild(U, V))
      /\ \A t \in Seq(Nothing) : Steps(t) \in Seq(Mild(U, V))
  BY <1>3, <1>4, <1>6, MildSwitches, MildChoices
<1>8. Wide = Mild(U, V)
  BY DEF Wide, U, V
<1>9. Off(<<"fifo_temp">> \o Imu) \o On(<<"fifo">>) \in Seq(Wide)
  BY <1>7, <1>8, ConcatSeq
<1> QED
  BY <1>2, <1>7, <1>8, <1>9 DEF DmpSources, Sources6050

LEMMA AwakeNothing ==
  ASSUME NEW e, NEW g, NEW t \in Seq(Nothing)
  PROVE  From(Awake({}, e, g), Steps(t), Awake({}, e, g))
BY WideIs, AwakeKeeps

(* reset_fifo, once the DMP's flag is set. *)
LEMMA AwakeRestarts ==
  ASSUME NEW g
  PROVE  From(Awake({}, {TRUE}, g), ResetFifo, Awake({}, {TRUE}, g))
<1> DEFINE p == Awake({}, {TRUE}, g)
<1>1. p.on = {} /\ p.off = {"sleep"} /\ p.notyes = {"dmp"} /\ p.notno = {"fifo", "dmp"}
      /\ p.fifo = "any" /\ p.dmp = {TRUE}
  BY DEF Awake, Dare
<1> HIDE DEF p
<1>2. Started(p) = {"fifo", "dmp"}
  <2>1. Started(p) = {"fifo"} \union {"dmp"}
    BY <1>1 DEF Started
  <2> QED
    BY <2>1
<1>3. Restarts(p, p)
  BY <1>1, <1>2 DEF Restarts
<1>4. Shut(p)
  BY <1>1 DEF Shut
<1>5. From(p, ResetFifo, p)
  BY <1>3, <1>4, RestartLeads, ResetFifoIs, SeqsAre DEF From
<1> QED
  BY <1>5 DEF p

-----------------------------------------------------------------------------
LEMMA FeatureSteps ==
  /\ <<"load">> \in Seq(Nothing)
  /\ <<"tap_axes", "tap_axes", "tap_axes", "fifo_rate", "interrupt_mode", "orientation">>
       \in Seq(Nothing)
  /\ <<"gyro_sf", "cfg_15", "cfg_27", "motion_bias", "gyro_raw_data">> \in Seq(Nothing)
  /\ <<"tap_axes", "tap_count", "tap_times", "shake_defaults">> \in Seq(Nothing)
  /\ <<"orient_int">> \in Seq(Nothing) /\ <<"lp_quat">> \in Seq(Nothing)
  /\ <<"cfg_8">> \in Seq(Nothing)
  /\ <<"walk_time", "step_count", "shake_reject", "tap_time_multi", "tap_time",
       "min_tap_count">> \in Seq(Nothing)
  /\ <<"offset_ranges", "accel_bias", "gyro_bias">> \in Seq(Nothing)
<1>1. {"load", "tap_axes", "fifo_rate", "interrupt_mode", "orientation", "gyro_sf",
       "cfg_15", "cfg_27", "motion_bias", "gyro_raw_data", "tap_count", "tap_times",
       "shake_defaults", "orient_int", "lp_quat", "cfg_8", "walk_time", "step_count",
       "shake_reject", "tap_time_multi", "tap_time", "min_tap_count", "offset_ranges",
       "accel_bias", "gyro_bias"} \subseteq Nothing
  BY DEF Nothing, Plain, Changing, Turning
<1> DEFINE N == Nothing
<1> HIDE DEF N
<1>2. \A x \in {"load", "tap_axes", "fifo_rate", "interrupt_mode", "orientation", "gyro_sf",
                "cfg_15", "cfg_27", "motion_bias", "gyro_raw_data", "tap_count", "tap_times",
                "shake_defaults", "orient_int", "lp_quat", "cfg_8", "walk_time",
                "step_count", "shake_reject", "tap_time_multi", "tap_time",
                "min_tap_count", "offset_ranges", "accel_bias", "gyro_bias"} : x \in N
  BY <1>1 DEF N
<1>3. /\ <<"load">> \in Seq(N)
      /\ <<"tap_axes", "tap_axes", "tap_axes", "fifo_rate", "interrupt_mode",
           "orientation">> \in Seq(N)
      /\ <<"gyro_sf", "cfg_15", "cfg_27", "motion_bias", "gyro_raw_data">> \in Seq(N)
  BY <1>2
<1>4. /\ <<"tap_axes", "tap_count", "tap_times", "shake_defaults">> \in Seq(N)
      /\ <<"orient_int">> \in Seq(N) /\ <<"lp_quat">> \in Seq(N) /\ <<"cfg_8">> \in Seq(N)
  BY <1>2
<1>5. /\ <<"walk_time", "step_count", "shake_reject", "tap_time_multi", "tap_time",
           "min_tap_count">> \in Seq(N)
      /\ <<"offset_ranges", "accel_bias", "gyro_bias">> \in Seq(N)
  BY <1>2
<1> QED
  BY <1>3, <1>4, <1>5 DEF N

(* load_firmware and what dmp_init sets of the memory, set_feature with it. *)
LEMMA FeatureLeads == From(Awake({}, {FALSE}, Taps), DmpFeature, Awake({}, {TRUE}, Taps))
<1> DEFINE p == Awake({}, {FALSE}, Taps)
           q == Awake({}, {TRUE}, Taps)
<1>1. From(p, <<Step("start")>>, q)
  BY StartLeads DEF Awake
<1>2. \A t \in Seq(Nothing) : From(p, Steps(t), p) /\ From(q, Steps(t), q)
  BY AwakeNothing
<1>3. From(q, ResetFifo, q)
  BY AwakeRestarts
<1>4. From(q, <<Step("tap_defaults")>>, q)
  <2>1. Taps \in SUBSET Taps /\ "set" \in Taps /\ "tap_defaults" \in Tapping
    BY DEF Taps, Tapping
  <2> QED
    BY <2>1, TapLeads DEF Awake
<1> HIDE DEF p, q
<1>5. /\ Steps(<<"load">>) = <<Step("load")>> /\ Steps(<<"lp_quat">>) = <<Step("lp_quat")>>
      /\ Steps(<<"cfg_8">>) = <<Step("cfg_8")>> /\ OrientInt = Steps(<<"orient_int">>)
      /\ LoadFirmware = <<Step("load")>> \o <<Step("start")>>
  BY DEF Steps, LoadFirmware, OrientInt
<1>6. From(p, LoadFirmware, q)
  <2>1. From(p, <<Step("load")>>, p)
    BY <1>2, <1>5, FeatureSteps
  <2> QED
    BY <1>1, <1>5, <2>1, FromThen
<1>7. From(q, SetQuaternion, q)
  <2>1. From(q, <<Step("lp_quat")>>, q) /\ From(q, <<Step("cfg_8")>>, q)
    BY <1>2, <1>5, FeatureSteps
  <2>2. From(q, <<Step("lp_quat")>> \o ResetFifo, q)
    BY <1>3, <2>1, FromThen
  <2>3. From(q, <<Step("lp_quat")>> \o ResetFifo \o <<Step("cfg_8")>>, q)
    BY <2>1, <2>2, FromThen
  <2> QED
    BY <1>3, <2>3, FromThen DEF SetQuaternion
<1>8. /\ From(q, SetGyroAccel, q) /\ From(q, TapThresholds, q) /\ From(q, TapTimes, q)
      /\ From(q, OrientInt, q)
  BY <1>2, <1>4, <1>5, FeatureSteps DEF SetGyroAccel, TapThresholds, TapTimes
<1>9. From(q, SetFeature, q)
  <2>1. From(q, SetGyroAccel \o TapThresholds \o TapTimes, q)
    BY <1>8, FromThen
  <2>2. From(q, SetGyroAccel \o TapThresholds \o TapTimes \o OrientInt \o SetQuaternion, q)
    BY <1>7, <1>8, <2>1, FromThen
  <2> QED
    BY <1>3, <2>2, FromThen DEF SetFeature
<1>10. From(q, Steps(<<"tap_axes", "tap_axes", "tap_axes", "fifo_rate", "interrupt_mode",
                       "orientation">>), q)
  BY <1>2, FeatureSteps
<1>11. From(p, DmpFeature, q)
  BY <1>6, <1>9, <1>10, FromThen DEF DmpFeature
<1> QED
  BY <1>11 DEF p, q


(* What the dmp_inits lead to. *)
DmpAim(n) == Dare({}, {}, {"fifo", "dmp"}, {"sleep"}, n, n, {TRUE}, {"set"}, "fit")

LEMMA TuneLeads == From(Awake({}, {TRUE}, Taps), DmpTune, Awake({}, {TRUE}, {"set"}))
<1> DEFINE p == Awake({}, {TRUE}, Taps)
           q == Awake({}, {TRUE}, {"set"})
           a == Steps(<<"walk_time", "step_count", "shake_reject", "tap_time_multi",
                        "tap_time", "min_tap_count">>)
           t == <<Step("tap_thresh")>>
<1>1. From(p, a, p)
  BY AwakeNothing, FeatureSteps
<1>2. From(p, t, q) /\ From(q, t, q)
  <2>1. /\ Taps \in SUBSET Taps /\ {"set"} \in SUBSET Taps /\ "set" \in {"set"}
        /\ "tap_thresh" \in Tapping
    BY DEF Taps, Tapping
  <2> DEFINE g == {"set"}
  <2> HIDE DEF g
  <2>2. g \in SUBSET Taps /\ "set" \in g
    BY <2>1 DEF g
  <2>3. \A x \in SUBSET Taps : From(Awake({}, {TRUE}, x), t, Awake({}, {TRUE}, g))
    BY <2>1, <2>2, TapLeads DEF Awake
  <2> QED
    BY <2>1, <2>2, <2>3 DEF g
<1>3. DmpTune = a \o t \o t \o t
  BY DEF DmpTune, Steps
<1> HIDE DEF p, q, a, t
<1>4. From(p, a \o t, q)
  BY <1>1, <1>2, FromThen
<1>5. From(p, a \o t \o t, q)
  BY <1>2, <1>4, FromThen
<1>6. From(p, DmpTune, q)
  BY <1>2, <1>3, <1>5, FromThen
<1> QED
  BY <1>6 DEF p, q

(* The DMP on, and the fifo empty. *)
LEMMA DmpStarts == From(Awake({}, {TRUE}, {"set"}), DmpStart, DmpAim({}))
<1> DEFINE p == Awake({}, {TRUE}, {"set"})
           q == Dare({}, {}, {"dmp"}, {"sleep"}, {}, {"fifo", "dmp"}, {TRUE}, {"set"}, "any")
           r == DmpAim({})
           s == [do |-> "on", opt |-> "dmp"]
<1>1. s \in [do : Switches, opt : Option] /\ On(<<"dmp">>) = <<s>> /\ s.do = "on"
      /\ s.opt = "dmp"
  BY SingleIs, OptionElements DEF Switches
<1>2. From(p, On(<<"dmp">>), q)
  <2> DEFINE a == {"dmp"}
             b == {"sleep"}
             c == {"dmp"}
             d == {"fifo", "dmp"}
             g == {"set"}
             e == {TRUE}
             n == {}
  <2>1. /\ a \subseteq n \union {"dmp"} /\ b \subseteq b \ {"dmp"} /\ n \subseteq c \ {"dmp"}
        /\ d \subseteq d \union {"dmp"} /\ n \ {"dmp"} \subseteq n
    OBVIOUS
  <2> HIDE DEF a, b, c, d, g, e, n, s
  <2>2. From(Dare(n, n, n, b, c, d, e, g, "any"), <<s>>, Dare(n, n, a, b, n, d, e, g, "any"))
    BY <1>1, <2>1, DareTurns
  <2> QED
    BY <1>1, <2>2, Zenon DEF Awake, a, b, c, d, e, g, n
<1>3. /\ q.loose = {} /\ q.odd = {} /\ q.on = {"dmp"} /\ q.off = {"sleep"} /\ q.notyes = {}
      /\ q.notno = {"fifo", "dmp"} /\ q.dmp = {TRUE} /\ q.magin = BOOLEAN /\ q.mag = Mag
      /\ q.tap = {"set"} /\ q.fifo = "any"
  BY DEF Dare
<1>4. /\ r.loose = {} /\ r.odd = {} /\ r.on = {"fifo", "dmp"} /\ r.off = {"sleep"}
      /\ r.notyes = {} /\ r.notno = {} /\ r.dmp = {TRUE} /\ r.magin = BOOLEAN /\ r.mag = Mag
      /\ r.tap = {"set"} /\ r.fifo = "fit"
  BY DEF DmpAim, Dare
<1>5. From(p, Steps(<<"offset_ranges", "accel_bias", "gyro_bias">>), p)
  BY AwakeNothing, FeatureSteps
<1> HIDE DEF p, q, r, s
<1>6. Started(q) = {"fifo", "dmp"}
  <2>1. Started(q) = {"fifo"} \union {"dmp"}
    BY <1>3 DEF Started
  <2> QED
    BY <2>1
<1>7. Restarts(q, r)
  BY <1>3, <1>4, <1>6 DEF Restarts
<1>8. Shut(q)
  BY <1>3 DEF Shut
<1>9. From(q, ResetFifo, r)
  BY <1>7, <1>8, RestartLeads, ResetFifoIs, SeqsAre DEF From
<1>10. From(p, Steps(<<"offset_ranges", "accel_bias", "gyro_bias">>) \o On(<<"dmp">>), q)
  BY <1>2, <1>5, FromThen
<1>11. From(p, DmpStart, r)
  BY <1>9, <1>10, FromThen DEF DmpStart
<1> QED
  BY <1>11 DEF p, r

(* The opening. *)
LEMMA ToUntested == To(First \o Off(<<"sleep">>), Untested({}))
<1> DEFINE p == OpenedHope
           q == Untested({})
<1>1. /\ p.on = {} /\ p.off = Late \union {"sleep"} /\ p.notyes = Option
      /\ p.notno = Option \ {"sleep"} /\ p.loose = {} /\ p.odd = {}
      /\ p.dmp = {FALSE} /\ p.magin = {FALSE} /\ p.mag = Mag
      /\ p.tap = Taps /\ p.fifo = "none"
  BY DEF OpenedHope, Hope
<1>2. /\ q.on = {} /\ q.off = {} /\ q.notyes = Option \ {}
      /\ q.notno = Option \ {"sleep"} /\ q.loose = {} /\ q.odd = {"sleep"}
      /\ q.dmp = {FALSE} /\ q.magin = BOOLEAN /\ q.mag = Mag
      /\ q.tap = Taps /\ q.fifo = "any"
  BY DEF Untested, Dare
<1> HIDE DEF p, q
<1>3. Weaker(p, q)
  BY <1>1, <1>2 DEF Weaker
<1>4. To(First \o Off(<<"sleep">>), p)
  BY ToOpened DEF p
<1> QED
  BY <1>3, <1>4, ToMore DEF q

LEMMA SizeLeads ==
  /\ From(Untested({}), On(<<"fifo_1024kb">>), Untested({"fifo_1024kb"}))
  /\ From(Awake({"fifo_1024kb"}, {FALSE}, Taps), On(<<"fifo_1024kb">>),
          Awake({}, {FALSE}, Taps))
<1> DEFINE s == [do |-> "on", opt |-> "fifo_1024kb"]
           n == {}
           l == {"fifo_1024kb"}
           o == {"sleep"}
           c == Option \ n
           cc == Option \ l
           d == Option \ {"sleep"}
           e == {FALSE}
           b == {"dmp"}
           f == {"fifo", "dmp"}
<1>1. s \in [do : Switches, opt : Option] /\ On(<<"fifo_1024kb">>) = <<s>> /\ s.do = "on"
      /\ s.opt = "fifo_1024kb"
  BY SingleIs, OptionElements DEF Switches
<1>2. From(Untested({}), On(<<"fifo_1024kb">>), Untested({"fifo_1024kb"}))
  <2>1. /\ n \subseteq n \union {"fifo_1024kb"} /\ n \subseteq n \ {"fifo_1024kb"}
        /\ cc \subseteq c \ {"fifo_1024kb"} /\ d \subseteq d \union {"fifo_1024kb"}
        /\ n \ {"fifo_1024kb"} \subseteq l /\ o \ {"fifo_1024kb"} \subseteq o
    OBVIOUS
  <2> HIDE DEF n, l, o, c, cc, d, e, s
  <2>2. From(Dare(n, o, n, n, c, d, e, Taps, "any"), <<s>>,
             Dare(l, o, n, n, cc, d, e, Taps, "any"))
    BY <1>1, <2>1, DareTurns
  <2> QED
    BY <1>1, <2>2, Zenon DEF Untested, n, l, o, c, cc, d, e
<1>3. From(Awake({"fifo_1024kb"}, {FALSE}, Taps), On(<<"fifo_1024kb">>),
           Awake({}, {FALSE}, Taps))
  <2>1. /\ n \subseteq n \union {"fifo_1024kb"} /\ o \subseteq o \ {"fifo_1024kb"}
        /\ b \subseteq b \ {"fifo_1024kb"} /\ f \subseteq f \union {"fifo_1024kb"}
        /\ l \ {"fifo_1024kb"} \subseteq n /\ n \ {"fifo_1024kb"} \subseteq n
    OBVIOUS
  <2> HIDE DEF n, l, o, b, f, e, s
  <2>2. From(Dare(l, n, n, o, b, f, e, Taps, "any"), <<s>>,
             Dare(n, n, n, o, b, f, e, Taps, "any"))
    BY <1>1, <2>1, DareTurns
  <2> QED
    BY <1>1, <2>2, Zenon DEF Awake, n, l, o, b, f, e
<1> QED
  BY <1>2, <1>3

LEMMA DmpLeads ==
  ASSUME NEW bus
  PROVE  To(DmpInit(bus), DmpAim({})) /\ To(Init6050, DmpAim({}))
<1> DEFINE p == Awake({}, {FALSE}, Taps)
           l == Awake({"fifo_1024kb"}, {FALSE}, Taps)
           open == First \o Off(<<"sleep">>)
           slave == IF bus = "spi" THEN On(<<"disable_iic_slave">>) ELSE <<>>
           size == On(<<"fifo_1024kb">>)
           chosen == Choose(<<"clock_source", "divider", "accelerometer_range",
                              "gyroscope_range", "low_pass_filter">>)
           L == {"fifo_1024kb"}
<1>1. /\ \A t \in Seq(Wide) : From(p, t, p) /\ From(l, t, l)
      /\ Seq(Common) \subseteq Seq(Wide)
  BY AwakeKeeps, WideIs
<1>2. DmpOpen(bus) = open \o size \o SelfTest \o slave
  BY DEF DmpOpen, First
<1>3. slave \in Seq(Wide) /\ chosen \in Seq(Wide)
  BY CommonOpen, CommonChoices, WideIs
<1>4. Open6050 = open \o SelfTest
  BY DEF Open6050, First
<1>5. /\ To(open, Untested({})) /\ From(Untested({}), size, Untested(L)) /\ From(l, size, p)
      /\ From(Untested(L), SelfTest, l) /\ From(Untested({}), SelfTest, p)
  <2>1. L \in SUBSET (Option \ {"dmp"}) /\ {} \in SUBSET (Option \ {"dmp"})
    BY OptionElements
  <2> QED
    BY <2>1, ToUntested, SizeLeads, SelfTestLeads
<1>6. DmpClock = size \o chosen
  BY DEF DmpClock
<1>7. /\ From(p, DmpFeature, Awake({}, {TRUE}, Taps))
      /\ From(Awake({}, {TRUE}, Taps), DmpTune, Awake({}, {TRUE}, {"set"}))
      /\ From(Awake({}, {TRUE}, {"set"}), DmpStart, DmpAim({}))
  BY FeatureLeads, TuneLeads, DmpStarts
<1> HIDE DEF p, l, open, slave, size, chosen, L
<1>8. To(DmpOpen(bus), l)
  <2>1. To(open \o size, Untested(L))
    BY <1>5, ToThen
  <2>2. To(open \o size \o SelfTest, l)
    BY <1>5, <2>1, ToThen
  <2> QED
    BY <1>1, <1>2, <1>3, <2>2, ToThen
<1>9. To(DmpOpen(bus) \o DmpClock, p)
  <2>1. From(l, DmpClock, p)
    BY <1>1, <1>3, <1>5, <1>6, FromThen
  <2> QED
    BY <1>8, <2>1, ToThen
<1>10. To(Open6050, p)
  BY <1>4, <1>5, ToThen
<1>11. ASSUME NEW s, To(s, p), NEW a \in Seq(Wide), NEW b \in Seq(Wide), NEW c \in Seq(Wide),
              NEW d \in Seq(Wide)
       PROVE  To(s \o a \o b \o c \o d, p)
  <2>1. To(s \o a \o b, p)
    BY <1>1, <1>11, ToThen
  <2> QED
    BY <1>1, <2>1, ToThen
<1>12. To(DmpOpen(bus) \o DmpClock \o DmpSensors \o DmpSources \o DmpInterrupts \o DmpFilters, p)
  <2>1. /\ DmpSensors \in Seq(Wide) /\ DmpSources \in Seq(Wide)
        /\ DmpInterrupts \in Seq(Wide) /\ DmpFilters \in Seq(Wide)
    BY WideIs, CommonParts, CommonInterrupts, CommonFilters
  <2> QED
    BY <1>9, <1>11, <2>1
<1>13. To(Open6050 \o Sensors6050 \o Tests6050 \o Sources6050 \o Interrupts6050 \o Pins6050, p)
  <2>1. /\ Sensors6050 \in Seq(Wide) /\ Tests6050 \in Seq(Wide) /\ Sources6050 \in Seq(Wide)
        /\ Interrupts6050 \in Seq(Wide) /\ Pins6050 \in Seq(Wide)
    BY WideIs, CommonSensors6050, CommonParts, CommonInterrupts
  <2>2. To(Open6050 \o Sensors6050, p)
    BY <1>1, <1>10, <2>1, ToThen
  <2> QED
    BY <1>11, <2>1, <2>2
<1>14. ASSUME NEW s, To(s, p) PROVE To(s \o DmpFeature \o DmpTune \o DmpStart, DmpAim({}))
  <2>1. To(s \o DmpFeature \o DmpTune, Awake({}, {TRUE}, {"set"}))
    BY <1>7, <1>14, ToThen
  <2> QED
    BY <1>7, <2>1, ToThen
<1> DEFINE s == DmpOpen(bus) \o DmpClock \o DmpSensors \o DmpSources \o DmpInterrupts
                  \o DmpFilters
           v == Open6050 \o Sensors6050 \o Tests6050 \o Sources6050 \o Interrupts6050
                  \o Pins6050
<1>15. /\ DmpInit(bus) = s \o DmpFeature \o DmpTune \o DmpStart
       /\ Init6050 = v \o DmpFeature \o DmpTune \o DmpStart
  BY DEF DmpInit, Init6050, Feature6050, Tune6050, Start6050
<1>16. To(s, p) /\ To(v, p)
  BY <1>12, <1>13
<1> HIDE DEF s, v
<1> QED
  BY <1>14, <1>15, <1>16


-----------------------------------------------------------------------------
(* What every init leads to, and what every read starts from. *)
Aim(m, n) ==
  IF m.app = "basic" THEN BasicAim(m.bus, n)
  ELSE IF m.app = "fifo" THEN FifoAim(m.bus, n)
  ELSE DmpAim(n)

(* The fields that the reads rely on. *)
LEMMA FifoAimIs ==
  ASSUME NEW bus \in {"iic", "spi"}, NEW n
  PROVE  LET p == FifoAim(bus, n) IN
         /\ p.loose = {} /\ p.odd = {} /\ p.notyes = n /\ p.notno = n /\ p.dmp = {FALSE}
         /\ p.tap = Taps /\ p.fifo = "fit" /\ {"fifo"} \union Elements(Imu) \subseteq p.on
         /\ {"sleep", "dmp", "fifo_temp"} \subseteq p.off
         /\ "dmp" \notin p.on /\ "fifo" \notin p.off
         /\ bus = "spi" => "fifo_slv0" \in p.off
         /\ bus = "iic" => "fifo_slv0" \in p.on /\ p.mag = {"measuring"}
<1> DEFINE p == FifoAim(bus, n)
<1>1. CASE bus = "spi"
  <2>1. p = Hope({"fifo"} \union Elements(Imu), {"sleep", "dmp", "fifo_temp", "fifo_slv0"},
                 n, n, {FALSE}, Mag, "fit")
    BY <1>1 DEF FifoAim
  <2>2. /\ p.loose = {} /\ p.odd = {} /\ p.notyes = n /\ p.notno = n /\ p.dmp = {FALSE}
        /\ p.tap = Taps /\ p.fifo = "fit" /\ p.on = {"fifo"} \union Elements(Imu)
        /\ p.off = {"sleep", "dmp", "fifo_temp", "fifo_slv0"}
    BY <2>1 DEF Hope
  <2> HIDE DEF p
  <2>3. /\ bus # "iic" /\ {"sleep", "dmp", "fifo_temp"} \subseteq p.off
        /\ {"fifo"} \union Elements(Imu) \subseteq p.on /\ "fifo_slv0" \in p.off
        /\ "dmp" \notin p.on /\ "fifo" \notin p.off
    BY <1>1, <2>2, ImuIs
  <2> QED
    BY <1>1, <2>2, <2>3, Zenon DEF p
<1>2. CASE bus = "iic"
  <2>1. p = Hope({"fifo", "fifo_slv0"} \union Elements(Imu), {"sleep", "dmp", "fifo_temp"},
                 n, n, BOOLEAN, {"measuring"}, "fit")
    BY <1>2 DEF FifoAim
  <2>2. /\ p.loose = {} /\ p.odd = {} /\ p.notyes = n /\ p.notno = n /\ p.dmp = {FALSE}
        /\ p.tap = Taps /\ p.fifo = "fit"
        /\ p.on = {"fifo", "fifo_slv0"} \union Elements(Imu)
        /\ p.off = {"sleep", "dmp", "fifo_temp"} /\ p.mag = {"measuring"}
    BY <2>1 DEF Hope
  <2> HIDE DEF p
  <2>3. /\ bus # "spi" /\ {"sleep", "dmp", "fifo_temp"} \subseteq p.off
        /\ {"fifo"} \union Elements(Imu) \subseteq p.on /\ "fifo_slv0" \in p.on
        /\ "dmp" \notin p.on /\ "fifo" \notin p.off
    BY <1>2, <2>2, ImuIs
  <2> QED
    BY <1>2, <2>2, <2>3, Zenon DEF p
<1> QED
  BY <1>1, <1>2

LEMMA DmpAimIs ==
  ASSUME NEW n
  PROVE  LET p == DmpAim(n) IN
         /\ p.loose = {} /\ p.odd = {} /\ p.notyes = n /\ p.notno = n /\ p.dmp = {TRUE}
         /\ p.on = {"fifo", "dmp"} /\ p.off = {"sleep"} /\ p.magin = BOOLEAN
         /\ p.mag = Mag /\ p.tap = {"set"} /\ p.fifo = "fit"
<1> DEFINE p == DmpAim(n)
<1>1. p.loose = {} /\ p.odd = {} /\ p.notyes = n /\ p.notno = n
  BY DEF DmpAim, Dare
<1>2. p.on = {"fifo", "dmp"} /\ p.off = {"sleep"}
  BY DEF DmpAim, Dare
<1>3. p.dmp = {TRUE} /\ p.magin = BOOLEAN
  BY Zenon DEF DmpAim, Dare
<1>4. p.mag = Mag /\ p.tap = {"set"} /\ p.fifo = "fit"
  BY DEF DmpAim, Dare
<1> HIDE DEF p
<1> QED
  BY <1>1, <1>2, <1>3, <1>4, Zenon DEF p

LEMMA AimShut == ASSUME NEW m, m.bus \in {"iic", "spi"}, NEW n PROVE Shut(Aim(m, n))
<1>1. Shut(BasicAim(m.bus, n))
  <2> DEFINE p == BasicAim(m.bus, n)
  <2>1. p.fifo = "none" => "fifo" \in p.off
    <3>1. CASE m.bus = "spi"
      <4>1. p = Hope({}, {"sleep", "fifo", "dmp"}, n, n, {FALSE}, Mag, "none")
        BY <3>1 DEF BasicAim
      <4> QED
        BY <4>1 DEF Hope
    <3>2. CASE m.bus = "iic"
      <4>1. p = Hope({"iic_bypass"}, {"sleep", "fifo", "dmp", "iic_master"}, n, n, BOOLEAN,
                     {"measuring"}, "none")
        BY <3>2 DEF BasicAim
      <4> QED
        BY <4>1 DEF Hope
    <3> QED
      BY <3>1, <3>2
  <2> HIDE DEF p
  <2> QED
    BY <2>1, Zenon DEF Shut, p
<1>2. Shut(FifoAim(m.bus, n))
  <2> DEFINE p == FifoAim(m.bus, n)
  <2>1. p.fifo = "fit"
    BY FifoAimIs
  <2> HIDE DEF p
  <2>2. Shut(p)
    BY <2>1 DEF Shut
  <2> QED
    BY <2>2 DEF p
<1>3. Shut(DmpAim(n))
  BY DmpAimIs DEF Shut
<1> QED
  BY <1>1, <1>2, <1>3 DEF Aim

(* Nothing has been asked for by a read. *)
LEMMA AimAsks ==
  ASSUME NEW m, m.bus \in {"iic", "spi"}, NEW w \in Known(Aim(m, {})), NEW v \in World,
         v.on = w.on, v.queued = w.queued, v.tap = w.tap, v.mag = w.mag,
         v.dmp = w.dmp, v.magin = w.magin, v.yes = {}, v.no = {}
  PROVE  v \in Known(Aim(m, Option))
<1> DEFINE p == Aim(m, {})
           q == Aim(m, Option)
<1>1. /\ q.loose = {} /\ q.odd = {} /\ q.on = p.on /\ q.off = p.off /\ q.dmp = p.dmp
      /\ q.magin = p.magin /\ q.mag = p.mag /\ q.tap = p.tap /\ q.fifo = p.fifo
  <2>1. CASE m.app = "basic"
    <3>1. p = BasicAim(m.bus, {}) /\ q = BasicAim(m.bus, Option)
      BY <2>1 DEF Aim
    <3> HIDE DEF p, q
    <3> QED
      BY <3>1 DEF BasicAim, Hope
  <2>2. CASE m.app = "fifo"
    <3>1. p = FifoAim(m.bus, {}) /\ q = FifoAim(m.bus, Option)
      BY <2>2 DEF Aim
    <3> HIDE DEF p, q
    <3> QED
      BY <3>1 DEF FifoAim, Hope
  <2>3. CASE m.app \notin {"basic", "fifo"}
    <3>1. p = DmpAim({}) /\ q = DmpAim(Option)
      BY <2>3 DEF Aim
    <3> HIDE DEF p, q
    <3> QED
      BY <3>1 DEF DmpAim, Dare
  <2> QED
    BY <2>1, <2>2, <2>3
<1> HIDE DEF p, q
<1>2. /\ p.on \subseteq w.on /\ p.off \intersect w.on = {}
      /\ w.dmp \in p.dmp /\ w.magin \in p.magin /\ w.mag \in p.mag /\ w.tap \in p.tap
      /\ Fits(p, w)
  BY DEF Known, p
<1>3. Fits(q, v)
  BY <1>1, <1>2 DEF Fits
<1>4. v \in Known(q)
  BY <1>1, <1>2, <1>3 DEF Known
<1> QED
  BY <1>4 DEF q

-----------------------------------------------------------------------------
(* The steps of the reads. *)
LEMMA LookLeads ==
  ASSUME NEW p, Shut(p), NEW s \in AStep, s.do \notin Changing,
         \A w \in Known(p) : Can(s, w)
  PROVE  From(p, <<s>>, p)
<1>1. ASSUME NEW w \in Known(p), NEW v, Turns(s, w, v) PROVE v \in Known(p)
  <2>1. /\ v \in World /\ v.on = w.on /\ v.queued = w.queued /\ v.tap = w.tap
        /\ v.mag = w.mag /\ v.yes = w.yes /\ v.no = w.no
        /\ v.dmp = w.dmp /\ v.magin = w.magin
    BY <1>1, NothingTurns
  <2> QED
    BY <2>1 DEF Known, Fits
<1> QED
  BY <1>1, StillKnown, LeadsOne DEF From

LEMMA DrainLeads ==
  ASSUME NEW p, Shut(p)
  PROVE  From(p, <<Step("drain")>>, p)
<1> DEFINE s == Step("drain")
<1>1. s \in AStep /\ s.do = "drain"
  BY StepIs, Kinds DEF Plain
<1> HIDE DEF s
<1>2. ASSUME NEW w \in Known(p), NEW v, Turns(s, w, v) PROVE v \in Known(p)
  <2>1. v \in World /\ Turned(s, w, v) /\ Stored(s, w, v) /\ Noted(s, w, v)
    BY <1>2 DEF Turns
  <2>2. v.on = w.on
    BY <1>1, <2>1 DEF Turned, Turning
  <2>3. v.queued = {} /\ v.tap = w.tap /\ v.mag = w.mag
    BY <1>1, <2>1 DEF Stored
  <2>4. v.yes = w.yes /\ v.no = w.no /\ v.dmp = w.dmp /\ v.magin = w.magin
    BY <1>1, <2>1 DEF Noted
  <2>5. Fits(p, v)
    BY <2>3 DEF Fits
  <2> QED
    BY <2>1, <2>2, <2>3, <2>4, <2>5 DEF Known
<1>3. \A w : Can(s, w)
  BY <1>1, CanAlways DEF Mute, MagSteps
<1>4. From(p, <<s>>, p)
  BY <1>1, <1>2, <1>3, StillKnown, LeadsOne DEF From
<1> QED
  BY <1>4 DEF s

LEMMA Looks ==
  /\ \A x \in {"configuration", "sample", "int_status", "sources", "mag_st1"} :
       Step(x) \in AStep /\ Step(x).do = x /\ x \notin Changing
  /\ \A x \in {"configuration", "sample", "int_status"} : \A w : Can(Step(x), w)
<1>1. \A x \in {"configuration", "sample", "int_status"} :
        Step(x) \in AStep /\ Step(x).do = x /\ x \notin Mute
  BY StepIs, Kinds DEF Plain, Mute, MagSteps
<1>2. \A x \in {"sources", "mag_st1"} : Step(x) \in AStep /\ Step(x).do = x
  BY StepIs DEF Loud, MagSteps
<1>3. \A x \in {"configuration", "sample", "int_status", "sources", "mag_st1"} : x \notin Changing
  BY DEF Changing, Turning
<1> QED
  BY <1>1, <1>2, <1>3, CanAlways


(* What is known before a read is more than after it. *)
LEMMA AimWeaker == ASSUME NEW m PROVE Weaker(Aim(m, Option), Aim(m, {}))
<1> DEFINE p == Aim(m, Option)
           q == Aim(m, {})
<1>1. /\ q.loose = p.loose /\ q.odd = p.odd /\ q.on = p.on /\ q.off = p.off
      /\ q.dmp = p.dmp /\ q.magin = p.magin /\ q.mag = p.mag /\ q.tap = p.tap
      /\ q.fifo = p.fifo /\ q.notyes = {} /\ q.notno = {}
  <2>1. CASE m.app = "basic"
    <3>1. p = BasicAim(m.bus, Option) /\ q = BasicAim(m.bus, {})
      BY <2>1 DEF Aim
    <3> HIDE DEF p, q
    <3> QED
      BY <3>1 DEF BasicAim, Hope
  <2>2. CASE m.app = "fifo"
    <3>1. p = FifoAim(m.bus, Option) /\ q = FifoAim(m.bus, {})
      BY <2>2 DEF Aim
    <3> HIDE DEF p, q
    <3> QED
      BY <3>1 DEF FifoAim, Hope
  <2>3. CASE m.app \notin {"basic", "fifo"}
    <3>1. p = DmpAim(Option) /\ q = DmpAim({})
      BY <2>3 DEF Aim
    <3> HIDE DEF p, q
    <3> QED
      BY <3>1 DEF DmpAim, Dare
  <2> QED
    BY <2>1, <2>2, <2>3
<1> HIDE DEF p, q
<1>2. Weaker(p, q)
  BY <1>1 DEF Weaker
<1> QED
  BY <1>2 DEF p, q

(* ReadSamples of a world. *)
ReadOf(w) ==
  <<Step("configuration")>> \o
    (IF "fifo" \in w.on THEN Steps(<<"sources", "drain">>)
     ELSE <<Step("sample")>> \o (IF w.magin THEN <<Step("mag_st1")>> ELSE <<>>))

LEMMA BasicReads ==
  ASSUME NEW bus \in {"iic", "spi"}, NEW n, NEW w \in Known(BasicAim(bus, n))
  PROVE  From(BasicAim(bus, n), ReadOf(w), BasicAim(bus, n))
<1> DEFINE p == BasicAim(bus, n)
           conf == Step("configuration")
           sam == Step("sample")
           st == Step("mag_st1")
<1>1. /\ p.fifo = "none" /\ "fifo" \in p.off
      /\ bus = "spi" => p.magin = {FALSE}
      /\ bus = "iic" => "iic_bypass" \in p.on /\ "iic_master" \in p.off
  <2>1. CASE bus = "spi"
    <3>1. p = Hope({}, {"sleep", "fifo", "dmp"}, n, n, {FALSE}, Mag, "none")
      BY <2>1 DEF BasicAim
    <3>2. p.fifo = "none" /\ "fifo" \in p.off /\ p.magin = {FALSE}
      BY <3>1 DEF Hope
    <3> HIDE DEF p
    <3> QED
      BY <2>1, <3>2
  <2>2. CASE bus = "iic"
    <3>1. p = Hope({"iic_bypass"}, {"sleep", "fifo", "dmp", "iic_master"}, n, n, BOOLEAN,
                   {"measuring"}, "none")
      BY <2>2 DEF BasicAim
    <3>2. p.fifo = "none" /\ "fifo" \in p.off /\ "iic_bypass" \in p.on /\ "iic_master" \in p.off
      BY <3>1 DEF Hope
    <3> HIDE DEF p
    <3> QED
      BY <2>2, <3>2
  <2> QED
    BY <2>1, <2>2
<1> HIDE DEF p
<1>2. Shut(p)
  BY <1>1 DEF Shut
<1>3. w \in Known(p)
  BY DEF p
<1>4. "fifo" \notin w.on
  BY <1>1, <1>3 DEF Known
<1>5. /\ conf \in AStep /\ conf.do \notin Changing
      /\ sam \in AStep /\ sam.do \notin Changing
      /\ st \in AStep /\ st.do = "mag_st1" /\ st.do \notin Changing
  BY Looks
<1>6. \A x : Can(conf, x) /\ Can(sam, x)
  BY Looks
<1> HIDE DEF conf, sam, st
<1>7. From(p, <<conf>>, p) /\ From(p, <<sam>>, p)
  BY <1>2, <1>5, <1>6, LookLeads
<1>8. CASE w.magin
  <2>1. bus = "iic"
    <3>1. w.magin \in p.magin
      BY <1>3 DEF Known
    <3>2. bus # "spi"
      BY <1>1, <1>8, <3>1
    <3> QED
      BY <3>2
  <2>2. ASSUME NEW u \in Known(p) PROVE Can(st, u)
    <3>1. "iic_bypass" \in u.on /\ "iic_master" \notin u.on
      BY <1>1, <2>1 DEF Known
    <3> QED
      BY <1>5, <3>1 DEF Can
  <2>3. From(p, <<st>>, p)
    BY <1>2, <1>5, <2>2, LookLeads
  <2>4. From(p, <<sam>> \o <<st>>, p)
    BY <1>7, <2>3, FromThen
  <2>5. From(p, <<conf>> \o (<<sam>> \o <<st>>), p)
    BY <1>7, <2>4, FromThen
  <2>6. ReadOf(w) = <<conf>> \o (<<sam>> \o <<st>>)
    BY <1>4, <1>8, Zenon DEF ReadOf, conf, sam, st
  <2> QED
    BY <2>5, <2>6, Zenon DEF p
<1>9. CASE ~ w.magin
  <2>1. From(p, <<conf>> \o <<sam>>, p)
    BY <1>7, FromThen
  <2>2. ReadOf(w) = <<conf>> \o (<<sam>> \o <<>>)
    BY <1>4, <1>9, Zenon DEF ReadOf, conf, sam
  <2>3. <<sam>> \o <<>> = <<sam>>
    OBVIOUS
  <2> QED
    BY <2>1, <2>2, <2>3, Zenon DEF p
<1> QED
  BY <1>8, <1>9

LEMMA FifoReads ==
  ASSUME NEW bus \in {"iic", "spi"}, NEW n, NEW w \in Known(FifoAim(bus, n))
  PROVE  From(FifoAim(bus, n), ReadOf(w), FifoAim(bus, n))
<1> DEFINE p == FifoAim(bus, n)
           conf == Step("configuration")
           src == Step("sources")
           dr == Step("drain")
<1>1. /\ p.fifo = "fit" /\ {"fifo"} \union Elements(Imu) \subseteq p.on
      /\ "fifo_temp" \in p.off
  BY FifoAimIs
<1> HIDE DEF p
<1>2. Shut(p)
  BY <1>1 DEF Shut
<1>3. w \in Known(p)
  BY DEF p
<1>4. "fifo" \in w.on
  BY <1>1, <1>3 DEF Known
<1>5. /\ conf \in AStep /\ conf.do \notin Changing
      /\ src \in AStep /\ src.do = "sources" /\ src.do \notin Changing
  BY Looks
<1>6. \A x : Can(conf, x)
  BY Looks
<1>7. From(p, <<dr>>, p)
  BY <1>2, DrainLeads
<1>8. Steps(<<"sources", "drain">>) = <<src>> \o <<dr>>
  BY DEF Steps
<1> HIDE DEF conf, src, dr
<1>9. From(p, <<conf>>, p)
  BY <1>2, <1>5, <1>6, LookLeads
<1>10. ASSUME NEW u \in Known(p) PROVE Can(src, u)
  <2>1. Elements(Imu) \subseteq u.on /\ "fifo_temp" \notin u.on
    BY <1>1 DEF Known
  <2>2. /\ Sources = Elements(Imu) \union {"fifo_temp", "fifo_slv0"}
    BY DEF Sources, Elements, Imu
  <2>3. u.on \intersect Sources \in {Elements(Imu), Elements(Imu) \union {"fifo_slv0"}}
    BY <2>1, <2>2
  <2> QED
    BY <1>5, <2>3 DEF Can, MagSteps
<1>11. From(p, <<src>>, p)
  BY <1>2, <1>5, <1>10, LookLeads
<1>12. From(p, <<src>> \o <<dr>>, p)
  BY <1>7, <1>11, FromThen
<1>13. From(p, <<conf>> \o (<<src>> \o <<dr>>), p)
  BY <1>9, <1>12, FromThen
<1>14. ReadOf(w) = <<conf>> \o (<<src>> \o <<dr>>)
  BY <1>4, <1>8, Zenon DEF ReadOf, conf
<1> QED
  BY <1>13, <1>14, Zenon DEF p

LEMMA ReadLeads ==
  ASSUME NEW m, m.bus \in {"iic", "spi"}, m.app \in {"basic", "fifo"},
         NEW w \in Known(Aim(m, Option))
  PROVE  From(Aim(m, Option), ReadOf(w), Aim(m, {}))
<1>1. CASE m.app = "basic"
  <2>1. Aim(m, Option) = BasicAim(m.bus, Option)
    BY <1>1 DEF Aim
  <2> QED
    BY <2>1, BasicReads, AimWeaker, FromMore
<1>2. CASE m.app = "fifo"
  <2>1. Aim(m, Option) = FifoAim(m.bus, Option)
    BY <1>2 DEF Aim
  <2> QED
    BY <2>1, FifoReads, AimWeaker, FromMore
<1> QED
  BY <1>1, <1>2


(* The reads that restart the fifo. *)
LEMMA FetchLeads ==
  ASSUME NEW m, m.bus \in {"iic", "spi"}, m.app # "basic"
  PROVE  From(Aim(m, Option), <<Step("int_status")>> \o ResetFifo, Aim(m, {}))
<1> DEFINE p == Aim(m, Option)
           q == Aim(m, {})
           look == Step("int_status")
<1>1. /\ q.loose = p.loose /\ q.odd = p.odd /\ q.on = p.on /\ q.off = p.off
      /\ q.dmp = p.dmp /\ q.magin = p.magin /\ q.mag = p.mag /\ q.tap = p.tap
      /\ q.fifo = p.fifo /\ q.notyes = {} /\ q.notno = {} /\ p.fifo = "fit"
      /\ p.notyes = Option /\ p.notno = Option
  <2>1. CASE m.app = "fifo"
    <3>1. p = FifoAim(m.bus, Option) /\ q = FifoAim(m.bus, {})
      BY <2>1 DEF Aim
    <3> HIDE DEF p, q
    <3> QED
      BY <3>1 DEF FifoAim, Hope
  <2>2. CASE m.app # "fifo"
    <3>1. p = DmpAim(Option) /\ q = DmpAim({})
      BY <2>2 DEF Aim
    <3> HIDE DEF p, q
    <3> QED
      BY <3>1 DEF DmpAim, Dare
  <2> QED
    BY <2>1, <2>2
<1>2. \/ p.dmp = {FALSE} /\ "dmp" \notin p.on /\ "fifo" \notin p.off
      \/ p.dmp = {TRUE} /\ p.off = {"sleep"}
  <2>1. CASE m.app = "fifo"
    <3>1. p = FifoAim(m.bus, Option)
      BY <2>1 DEF Aim
    <3> HIDE DEF p
    <3>2. p.dmp = {FALSE} /\ "dmp" \notin p.on /\ "fifo" \notin p.off
      BY <3>1, FifoAimIs
    <3> QED
      BY <3>2
  <2>2. CASE m.app # "fifo"
    <3>1. p = DmpAim(Option)
      BY <2>2 DEF Aim
    <3> HIDE DEF p
    <3>2. p.dmp = {TRUE} /\ p.off = {"sleep"}
      BY <3>1, DmpAimIs
    <3> QED
      BY <3>2
  <2> QED
    BY <2>1, <2>2
<1>3. {"fifo", "dmp"} \subseteq Option
  BY OptionElements
<1>4. look \in AStep /\ look.do \notin Changing
  BY Looks
<1>5. \A x : Can(look, x)
  BY Looks
<1> HIDE DEF p, q, look
<1>6. Shut(p)
  BY <1>1 DEF Shut
<1>7. From(p, <<look>>, p)
  BY <1>4, <1>5, <1>6, LookLeads
<1>8. Restarts(p, q)
  <2>1. /\ q.on \subseteq (p.on \ {"fifo", "dmp"}) \union Started(p)
        /\ q.off \subseteq (p.off \union {"fifo", "dmp"}) \ Started(p)
    <3>1. CASE p.dmp = {FALSE} /\ "dmp" \notin p.on /\ "fifo" \notin p.off
      <4>1. p.dmp # {TRUE}
        <5>1. FALSE \in p.dmp
          BY <3>1
        <5> QED
          BY <5>1
      <4>2. Started(p) = {"fifo"}
        <5>1. Started(p) = {"fifo"} \union {}
          BY <4>1, Zenon DEF Started
        <5> QED
          BY <5>1
      <4>3. "dmp" \notin p.on /\ "fifo" \notin p.off
        BY <3>1
      <4> QED
        BY <1>1, <4>2, <4>3
    <3>2. CASE p.dmp = {TRUE} /\ p.off = {"sleep"}
      <4>1. Started(p) = {"fifo"} \union {"dmp"}
        BY <3>2, Zenon DEF Started
      <4>2. p.off = {"sleep"}
        BY <3>2
      <4> QED
        BY <1>1, <4>1, <4>2
    <3> QED
      BY <1>2, <3>1, <3>2
  <2>2. {"fifo", "dmp"} \subseteq p.notno /\ "dmp" \in p.notyes
    BY <1>1, <1>3
  <2>3. p.dmp = {TRUE} \/ p.dmp = {FALSE}
    BY <1>2, Zenon
  <2>4. /\ q.notyes \subseteq p.notyes /\ q.notno \subseteq p.notno
        /\ p.loose \subseteq q.loose /\ p.odd \subseteq q.odd
        /\ p.dmp \subseteq q.dmp /\ p.magin \subseteq q.magin
        /\ p.mag \subseteq q.mag /\ p.tap \subseteq q.tap
        /\ q.fifo # "none"
    BY <1>1
  <2> QED
    BY <2>1, <2>2, <2>3, <2>4 DEF Restarts
<1>9. From(p, ResetFifo, q)
  BY <1>6, <1>8, RestartLeads, ResetFifoIs, SeqsAre DEF From
<1>10. From(p, <<look>> \o ResetFifo, q)
  BY <1>7, <1>9, FromThen
<1> QED
  BY <1>10, Zenon DEF p, q, look

(* The inits. *)
LEMMA InitLeads ==
  ASSUME NEW m \in Modes
  PROVE  To(CASE m.app = "basic" -> BasicInit(m.bus)
              [] m.app = "fifo" -> FifoInit(m.bus)
              [] m.app = "dmp" -> DmpInit(m.bus)
              [] m.app = "mpu6050" -> Init6050, Aim(m, {}))
<1>1. m.bus \in {"iic", "spi"} /\ m.app \in {"basic", "fifo", "dmp", "mpu6050"}
  BY ModesAssumption DEF Modes
<1>2. CASE m.app = "basic"
  <2>1. To(BasicInit(m.bus), BasicAim(m.bus, {}))
    BY <1>1, BasicLeads
  <2> QED
    BY <1>2, <2>1, Zenon DEF Aim
<1>3. CASE m.app = "fifo"
  <2>1. To(FifoInit(m.bus), FifoAim(m.bus, {}))
    BY <1>1, FifoLeads
  <2>2. m.app # "basic"
    BY <1>3
  <2> QED
    BY <1>3, <2>1, <2>2 DEF Aim
<1>4. CASE m.app = "dmp"
  <2>1. To(DmpInit(m.bus), DmpAim({}))
    BY <1>1, DmpLeads
  <2> QED
    BY <1>4, <2>1 DEF Aim
<1>5. CASE m.app = "mpu6050"
  <2>1. To(Init6050, DmpAim({}))
    BY DmpLeads
  <2> QED
    BY <1>5, <2>1 DEF Aim
<1> QED
  BY <1>1, <1>2, <1>3, <1>4, <1>5

-----------------------------------------------------------------------------
(* One step on the way. *)
LEMMA LeadsHead ==
  ASSUME NEW w \in World, NEW t \in Seq(AStep), NEW Q, Leads({w}, t, Q), t # <<>>
  PROVE  /\ Can(Head(t), w)
         /\ \A v : Turns(Head(t), w, v) => Leads({v}, Tail(t), Q)
<1>1. PICK R \in SUBSET Pairs : Closed(R, Q) /\ \A x \in {w} : <<t, x>> \in R
  BY DEF Leads
<1>2. <<t, w>> \in R
  BY <1>1
<1>3. Can(Head(t), w) /\ \A v : Turns(Head(t), w, v) => <<Tail(t), v>> \in R
  BY <1>1, <1>2 DEF Closed
<1>4. ASSUME NEW v, Turns(Head(t), w, v) PROVE Leads({v}, Tail(t), Q)
  <2>1. <<Tail(t), v>> \in R
    BY <1>3, <1>4
  <2>2. \A x \in {v} : <<Tail(t), x>> \in R
    BY <2>1
  <2> QED
    BY <1>1, <2>2, Zenon DEF Leads
<1> QED
  BY <1>3, <1>4

LEMMA LeadsBrew ==
  ASSUME NEW w \in World, NEW t \in Seq(AStep), NEW Q, Leads({w}, t, Q), NEW v, Brews(w, v)
  PROVE  Leads({v}, t, Q)
<1>1. PICK R \in SUBSET Pairs : Closed(R, Q) /\ \A x \in {w} : <<t, x>> \in R
  BY DEF Leads
<1>2. <<t, w>> \in R
  BY <1>1
<1>3. <<t, v>> \in R
  BY <1>1, <1>2 DEF Closed
<1>4. \A x \in {v} : <<t, x>> \in R
  BY <1>3
<1> QED
  BY <1>1, <1>4, Zenon DEF Leads

LEMMA LeadsDone ==
  ASSUME NEW w \in World, NEW Q, Leads({w}, <<>>, Q)
  PROVE  w \in Q
<1>1. PICK R \in SUBSET Pairs : Closed(R, Q) /\ \A x \in {w} : <<<<>>, x>> \in R
  BY DEF Leads
<1>2. <<>> \in Seq(AStep) /\ <<<<>>, w>> \in R
  BY <1>1
<1> QED
  BY <1>1, <1>2 DEF Closed

LEMMA LeadsFrom ==
  ASSUME NEW P, NEW w \in P, NEW t, NEW Q, Leads(P, t, Q)
  PROVE  Leads({w}, t, Q)
<1>1. {w} \subseteq P /\ Q \subseteq Q
  OBVIOUS
<1> QED
  BY <1>1, LeadsLess


-----------------------------------------------------------------------------
(* On SPI nothing tells the magnetometer to measure. *)
NoMode == {s \in AStep : s.do # "mag_mode"}

LEMMA NoModeIs ==
  /\ Seq(Quiet) \subseteq Seq(NoMode) /\ Seq(Starting) \subseteq Seq(NoMode)
  /\ Seq(Leaving) \subseteq Seq(NoMode) /\ Seq(Reading) \subseteq Seq(NoMode)
  /\ First \in Seq(NoMode) /\ Deinit \in Seq(NoMode)
<1>1. Quiet \subseteq NoMode
  <2>1. \A s \in Quiet : s.do \notin Loud /\ s \in AStep
    BY QuietIs, Kinds
  <2>2. "mag_mode" \in Loud
    BY DEF Loud, MagSteps
  <2> QED
    BY <2>1, <2>2 DEF NoMode
<1>2. \A x \in Loud \ {"mag_mode"} : Step(x) \in NoMode
  BY StepIs DEF NoMode
<1>3. /\ {"start", "wia", "mag_down", "mag_closed", "refuse", "sources", "mag_st1",
          "power_down", "close"} \subseteq Loud \ {"mag_mode"}
      /\ Begins \subseteq Loud \ {"mag_mode"}
  BY DEF Loud, MagSteps, Ends, Begins
<1>4. Starting \subseteq NoMode
  BY <1>1, <1>2, <1>3 DEF Starting
<1>5. Leaving \subseteq NoMode
  <2>1. [do : Switches, opt : Option] \subseteq NoMode
    BY <1>1, Kinds
  <2>2. MagOff \subseteq NoMode
    BY <1>2, <1>3 DEF MagOff
  <2> QED
    BY <1>2, <1>3, <2>1, <2>2 DEF Leaving
<1>6. Reading \subseteq NoMode
  BY <1>1, <1>2, <1>3 DEF Reading
<1>7. First \in Seq(NoMode)
  <2>1. <<"open", "identify", "init_reset", "poll">> \in Seq(Begins)
    BY DEF Begins
  <2>2. \A x \in Begins : Step(x) \in NoMode
    BY <1>2, <1>3
  <2>3. Init9250 \in Seq(NoMode)
    BY <2>1, <2>2, StepsSeq DEF Init9250
  <2>4. Step("link") \in NoMode
    BY <2>2 DEF Begins
  <2> QED
    BY <2>3, <2>4, OneInFront DEF First
<1>8. Deinit \in Seq(NoMode)
  <2>1. <<"power_down", "close">> \in Seq({"power_down", "close"})
    OBVIOUS
  <2>2. \A x \in {"power_down", "close"} : Step(x) \in NoMode
    BY <1>2, <1>3
  <2> QED
    BY <2>1, <2>2, StepsSeq DEF Deinit
<1> QED
  BY <1>1, <1>4, <1>5, <1>6, <1>7, <1>8

LEMMA CalmNoMode == ASSUME NEW s \in Calm PROVE s \in Seq(NoMode) /\ s \in Seq(AStep)
<1>1. PICK r \in Seq(Quiet) \ {<<>>} : s = First \o r
  BY DEF Calm, Beginning
<1>2. s \in Seq(NoMode)
  BY <1>1, NoModeIs, ConcatSeq
<1>3. NoMode \subseteq AStep
  BY DEF NoMode
<1> QED
  BY <1>2, <1>3

LEMMA SpiInits ==
  ASSUME NEW bus, bus \in {"iic", "spi"}
  PROVE  /\ bus = "spi" => BasicInit(bus) \in Seq(NoMode) /\ FifoInit(bus) \in Seq(NoMode)
         /\ DmpInit(bus) \in Seq(NoMode) /\ Init6050 \in Seq(NoMode)
<1>1. ASSUME bus = "spi" PROVE BasicInit(bus) \in Seq(NoMode)
  <2> DEFINE s == BasicOpen(bus) \o BasicSensors \o BasicFifo \o BasicInterrupts
                    \o BasicFilters
  <2>1. s \in Calm
    <3>1. BasicOpen(bus) \o BasicSensors \o BasicFifo \o BasicInterrupts \in Calm
      BY OpensAre, SensorsAre, SourcesAre, InterruptsAre, CalmThree
    <3> QED
      BY <3>1, FiltersAre, CalmMore
  <2>2. BasicInit(bus) = s \o BasicMag(bus)
    BY DEF BasicInit
  <2> HIDE DEF s
  <2>3. BasicMag(bus) = <<>>
    BY <1>1 DEF BasicMag
  <2>4. BasicInit(bus) = s
    BY <2>1, <2>2, <2>3, CalmNoMode, ConcatEmptySeq
  <2> QED
    BY <2>1, <2>4, CalmNoMode
<1>2. ASSUME bus = "spi" PROVE FifoInit(bus) \in Seq(NoMode)
  <2> DEFINE s == FifoOpen(bus) \o FifoSensors \o FifoSources \o FifoInterrupts
                    \o FifoFilters
  <2>1. s \in Calm
    <3>1. FifoOpen(bus) \o FifoSensors \o FifoSources \o FifoInterrupts \in Calm
      BY OpensAre, SensorsAre, SourcesAre, InterruptsAre, CalmThree
    <3> QED
      BY <3>1, FiltersAre, CalmMore
  <2>2. FifoInit(bus) = s \o FifoMag(bus) \o FifoStart
    BY DEF FifoInit
  <2>3. FifoStart \in Seq(Quiet)
    <3>1. <<"fifo">> \in Seq(Option)
      BY OptionsAre DEF UserCtrl
    <3>2. On(<<"fifo">>) \in Seq(Quiet)
      BY <3>1, QuietSwitches
    <3> QED
      BY <3>2, ResetFifoIs, ConcatQuiet DEF FifoStart
  <2> HIDE DEF s
  <2>4. FifoMag(bus) = <<>>
    BY <1>2 DEF FifoMag
  <2>5. s \in Seq(NoMode) /\ s \in Seq(AStep)
    BY <2>1, CalmNoMode
  <2>6. FifoInit(bus) = s \o FifoStart
    BY <2>2, <2>4, <2>5, ConcatEmptySeq
  <2>7. FifoStart \in Seq(NoMode)
    BY <2>3, NoModeIs
  <2> QED
    BY <2>5, <2>6, <2>7, ConcatSeq
<1>3. ASSUME NEW t \in Beginning(DmpRests) PROVE t \in Seq(NoMode)
  <2>1. PICK r \in Seq(Starting) : t = First \o r
    BY DEF Beginning, DmpRests
  <2>2. r \in Seq(NoMode)
    BY NoModeIs
  <2> QED
    BY <2>1, <2>2, NoModeIs, ConcatSeq
<1> QED
  BY <1>1, <1>2, <1>3, DmpInitIs

Tame ==
  mode.bus = "spi" =>
    mag # "measuring" /\ todo \in Seq(NoMode) /\ undo \in Seq(Seq(NoMode))

LEMMA TameInit == ASSUME IInv, Tame, CallInit PROVE Tame'
<1> DEFINE steps == CASE mode.app = "basic" -> BasicInit(mode.bus)
                      [] mode.app = "fifo" -> FifoInit(mode.bus)
                      [] mode.app = "dmp" -> DmpInit(mode.bus)
                      [] mode.app = "mpu6050" -> Init6050
<1>1. Begin("init", steps)
  BY Zenon DEF CallInit
<1>2. mode.app \in {"basic", "fifo", "dmp", "mpu6050"} /\ mode.bus \in {"iic", "spi"}
  BY ModeIs DEF IInv
<1>3. steps \in {BasicInit(mode.bus), FifoInit(mode.bus), DmpInit(mode.bus), Init6050}
  BY <1>2
<1>4. mode.bus = "spi" => steps \in Seq(NoMode)
  <2> HIDE DEF steps
  <2> QED
    BY <1>2, <1>3, SpiInits
<1> HIDE DEF steps
<1>5. todo' = steps /\ undo' = <<>> /\ mode' = mode /\ mag' = mag
  BY <1>1 DEF Begin
<1> QED
  BY <1>4, <1>5 DEF Tame

LEMMA TameDeinit == ASSUME IInv, Tame, CallDeinit PROVE Tame'
<1> DEFINE a == IF mode.app = "fifo" /\ mode.bus = "iic" THEN Off(<<"fifo">>) ELSE <<>>
           b == IF mode.app \in {"basic", "fifo"} /\ mode.bus = "iic"
                  THEN (IF handle.mag_inited THEN MagDeinit ELSE <<Step("refuse")>>)
                ELSE <<>>
<1>1. Begin("deinit", a \o b \o Deinit)
  BY Zenon DEF CallDeinit
<1>2. a \in {Off(<<"fifo">>), <<>>} /\ b \in {MagDeinit, <<Step("refuse")>>, <<>>}
  BY Zenon
<1> HIDE DEF a, b
<1>3. a \o b \in Seq(NoMode)
  <2>1. a \o b \in Seq(Leaving)
    BY <1>2, BeforeIs, Zenon DEF Before
  <2> QED
    BY <2>1, NoModeIs
<1>4. (a \o b) \o Deinit \in Seq(NoMode)
  BY <1>3, NoModeIs, ConcatSeq
<1>5. todo' = a \o b \o Deinit /\ undo' = <<>> /\ mode' = mode /\ mag' = mag
  BY <1>1 DEF Begin
<1> QED
  BY <1>4, <1>5 DEF Tame

LEMMA TameReads == ASSUME IInv, Tame, CallRead \/ CallDmpRead \/ CallIrq PROVE Tame'
<1> DEFINE r == ReadSamples
           f == <<Step("int_status")>> \o ResetFifo
<1>1. r \in Seq(NoMode) /\ f \in Seq(NoMode)
  BY ReadsAre, NoModeIs
<1>2. Begin("read", r) \/ Begin("read", f) \/ Begin("irq", f)
  BY Zenon DEF CallRead, CallDmpRead, CallIrq
<1> HIDE DEF r, f
<1>3. todo' \in {r, f} /\ undo' = <<>> /\ mode' = mode /\ mag' = mag
  BY <1>2 DEF Begin
<1> QED
  BY <1>1, <1>3 DEF Tame

(* The steps of a call, and of those that take it back. *)
LEMMA TameGoes ==
  ASSUME NEW S, NEW a \in Seq(S), NEW b \in Seq(Seq(S)), NEW c, NEW d, a # <<>>,
         \/ c = Tail(a) /\ d = b
         \/ c = <<>> /\ d = <<>>
         \/ b # <<>> /\ c = Head(b) /\ d = Tail(b)
  PROVE  c \in Seq(S) /\ d \in Seq(Seq(S))
<1> DEFINE T == Seq(S)
<1>1. <<>> \in T /\ <<>> \in Seq(T)
  OBVIOUS
<1>2. Tail(a) \in T
  BY TailIs
<1> HIDE DEF T
<1>3. b \in Seq(T)
  BY DEF T
<1>4. b # <<>> => Head(b) \in T /\ Tail(b) \in Seq(T)
  BY <1>3, TailIs
<1>5. c \in T /\ d \in Seq(T)
  BY <1>1, <1>2, <1>3, <1>4, Zenon
<1> QED
  BY <1>5 DEF T

LEMMA TameMag ==
  ASSUME mag # "measuring", NEW s \in NoMode
  PROVE  MagAfter(s) # "measuring"
BY DEF MagAfter, NoMode

LEMMA TameAdvance == ASSUME IInv, Tame, Advance PROVE Tame'
<1>1. mode' = mode /\ todo # <<>> /\ mag' = MagAfter(Head(todo))
  BY DEF Advance
<1>2. \/ todo' = Tail(todo) /\ undo' = undo
      \/ todo' = <<>> /\ undo' = <<>>
      \/ undo # <<>> /\ todo' = Head(undo) /\ undo' = Tail(undo)
  BY Zenon DEF Advance, Return, GoOn
<1>3. ASSUME mode.bus = "spi"
      PROVE  mag' # "measuring" /\ todo' \in Seq(NoMode) /\ undo' \in Seq(Seq(NoMode))
  <2>1. mag # "measuring" /\ todo \in Seq(NoMode) /\ undo \in Seq(Seq(NoMode))
    BY <1>3 DEF Tame
  <2>2. Head(todo) \in NoMode
    BY <1>1, <2>1, TailIs
  <2>3. mag' # "measuring"
    BY <1>1, <2>1, <2>2, TameMag
  <2>4. todo' \in Seq(NoMode) /\ undo' \in Seq(Seq(NoMode))
    BY <1>1, <1>2, <2>1, TameGoes, Zenon
  <2> QED
    BY <2>3, <2>4
<1> QED
  BY <1>1, <1>3 DEF Tame

LEMMA TameCleanup == ASSUME NEW s PROVE Cleanup(s) \in Seq(Seq(NoMode))
<1> DEFINE o == Off(<<"fifo">>)
           d == Deinit
           m == MagDeinit
<1>1. o \in Seq(NoMode) /\ d \in Seq(NoMode) /\ m \in Seq(NoMode)
  <2>1. <<"fifo">> \in Seq(Option)
    BY OptionsAre DEF UserCtrl
  <2>2. Off(<<"fifo">>) \in Seq(Leaving)
    BY <2>1, Kinds, SwitchesSeq
  <2> QED
    BY <2>2, MagDeinitIs, NoModeIs
<1>2. Cleanup(s) \in {<<>>, <<d>>, <<m, d>>, <<o, m, d>>}
  <2> DEFINE e == <<>>
             f == <<d>>
             g == <<m, d>>
             h == <<o, m, d>>
  <2>1. Cleanup(s) = e \/ Cleanup(s) = f \/ Cleanup(s) = g \/ Cleanup(s) = h
    BY Zenon DEF Cleanup
  <2> QED
    BY <2>1, Zenon
<1> HIDE DEF o, d, m
<1> DEFINE T == Seq(NoMode)
<1>3. o \in T /\ d \in T /\ m \in T
  BY <1>1
<1> HIDE DEF T
<1>4. <<>> \in Seq(T) /\ <<d>> \in Seq(T) /\ <<m, d>> \in Seq(T) /\ <<o, m, d>> \in Seq(T)
  BY <1>3
<1>5. Cleanup(s) \in Seq(T)
  BY <1>2, <1>4, Zenon
<1> QED
  BY <1>5, Zenon DEF T

LEMMA TameSlip == ASSUME IInv, Tame, Slip PROVE Tame'
<1>1. mode' = mode /\ todo # <<>> /\ mag' \in {mag, MagAfter(Head(todo))}
  BY Zenon DEF Slip
<1>2. \/ todo' = <<>> /\ undo' = <<>>
      \/ undo # <<>> /\ todo' = Head(undo) /\ undo' = Tail(undo)
      \/ \E u \in {Cleanup(Head(todo))} : u # <<>> /\ todo' = Head(u) /\ undo' = Tail(u)
  BY Zenon DEF Slip, Return, GoOn
<1>3. ASSUME mode.bus = "spi"
      PROVE  mag' # "measuring" /\ todo' \in Seq(NoMode) /\ undo' \in Seq(Seq(NoMode))
  <2>1. mag # "measuring" /\ todo \in Seq(NoMode) /\ undo \in Seq(Seq(NoMode))
    BY <1>3 DEF Tame
  <2>2. Head(todo) \in NoMode
    BY <1>1, <2>1, TailIs
  <2>3. mag' # "measuring"
    BY <1>1, <2>1, <2>2, TameMag
  <2> DEFINE u == Cleanup(Head(todo))
  <2>4. u \in Seq(Seq(NoMode))
    BY TameCleanup
  <2>5. \/ todo' = <<>> /\ undo' = <<>>
        \/ undo # <<>> /\ todo' = Head(undo) /\ undo' = Tail(undo)
        \/ u # <<>> /\ todo' = Head(u) /\ undo' = Tail(u)
    BY <1>2, Zenon
  <2> HIDE DEF u
  <2>6. todo' \in Seq(NoMode) /\ undo' \in Seq(Seq(NoMode))
    BY <1>1, <2>1, <2>4, <2>5, TameGoes, Zenon
  <2> QED
    BY <2>3, <2>6
<1> QED
  BY <1>1, <1>3 DEF Tame

LEMMA TameNext == ASSUME IInv, Tame, [Next]_vars PROVE Tame'
<1>1. ASSUME Dies PROVE Tame'
  <2>1. mag' = mag /\ todo' = <<>> /\ undo' = <<>> /\ mode'.bus = mode.bus
    BY <1>1 DEF Dies
  <2> QED
    BY <2>1 DEF Tame
<1>2. ASSUME Produce \/ UNCHANGED vars PROVE Tame'
  <2>1. mode' = mode /\ mag' = mag /\ todo' = todo /\ undo' = undo
    BY <1>2 DEF Produce, vars
  <2> QED
    BY <2>1 DEF Tame
<1> QED
  BY <1>1, <1>2, TameInit, TameDeinit, TameReads, TameAdvance, TameSlip
     DEF Next, Killed, NullBus


-----------------------------------------------------------------------------
(* The invariant of the successful calls.  An init of which no transfer has
   failed, and a read after one that has succeeded, is on its way: what is left
   of it can be done and leads to the aim. *)
OnWay == (call = "init" /\ failed = "none") \/ (call \in {"read", "irq"} /\ ready)

Headed == OnWay => Leads({now}, todo, Known(Aim(mode, {})))
There == call = "none" /\ ready => now \in Known(Aim(mode, {}))
Unready == call \in {"init", "deinit"} => ~ ready
Succeeds == call = "none" /\ last.call = "init" /\ last.ok => ready
Slipped == call = "none" /\ last.call = "read" /\ last.ready /\ ~ last.ok => last.slips > 0

KInv == Headed /\ There /\ Unready /\ Succeeds /\ Slipped /\ Tame

LEMMA CallsAre ==
  ASSUME IInv
  PROVE  /\ call \in {"none", "init", "deinit", "read", "irq"}
         /\ call \in {"read", "irq"} => failed = "none"
BY DEF IInv, Where, Rested, InitOpens, InitRuns, InitCloses, Deinits, Reads9250

LEMMA NextIn == ASSUME Types' PROVE now' \in World
<1>1. Types' => (now \in World)'
  BY NowIn, PTL
<1> QED
  BY <1>1

(* A call begins. *)
LEMMA BeginNow ==
  ASSUME NEW name, NEW steps, IInv, Begin(name, steps), ready' \in BOOLEAN
  PROVE  /\ now' \in World /\ now'.yes = {} /\ now'.no = {} /\ now \in World
         /\ now'.on = now.on /\ now'.queued = now.queued /\ now'.tap = now.tap
         /\ now'.mag = now.mag /\ now'.dmp = now.dmp /\ now'.magin = now.magin
<1>1. /\ chip' = chip /\ mag' = mag /\ handle' = handle
      /\ asked' = [on |-> {}, off |-> {}]
  BY DEF Begin
<1>2. Types' /\ Types
  BY BeginTypes DEF IInv
<1> QED
  BY <1>1, <1>2, NextIn, NowIn DEF now

LEMMA InitHeads == ASSUME IInv, KInv, CallInit PROVE KInv'
<1> DEFINE steps == CASE mode.app = "basic" -> BasicInit(mode.bus)
                      [] mode.app = "fifo" -> FifoInit(mode.bus)
                      [] mode.app = "dmp" -> DmpInit(mode.bus)
                      [] mode.app = "mpu6050" -> Init6050
           q == Aim(mode, {})
<1>1. Begin("init", steps) /\ ready' = FALSE
  BY Zenon DEF CallInit
<1>2. To(steps, q)
  BY InitLeads, Zenon DEF IInv, Types
<1>3. Tame'
  BY TameInit DEF KInv
<1> HIDE DEF steps
<1>4. call' = "init" /\ todo' = steps /\ mode' = mode
  BY <1>1 DEF Begin
<1>5. now' \in Unasked
  BY <1>1, BeginNow DEF Unasked
<1>6. Leads({now'}, steps, Known(q))
  BY <1>2, <1>5, LeadsFrom, Zenon DEF To
<1>7. Headed'
  BY <1>4, <1>6 DEF Headed
<1>8. There' /\ Unready' /\ Succeeds' /\ Slipped'
  BY <1>1, <1>4 DEF There, Unready, Succeeds, Slipped
<1> QED
  BY <1>3, <1>7, <1>8 DEF KInv

LEMMA DeinitHeads == ASSUME IInv, KInv, CallDeinit PROVE KInv'
<1>1. PICK steps : Begin("deinit", steps)
  BY Zenon DEF CallDeinit
<1>2. call' = "deinit" /\ ready' = FALSE
  BY <1>1, Zenon DEF Begin, CallDeinit
<1>3. Tame'
  BY TameDeinit DEF KInv
<1>4. Headed' /\ There' /\ Unready' /\ Succeeds' /\ Slipped'
  BY <1>2 DEF Headed, OnWay, There, Unready, Succeeds, Slipped
<1> QED
  BY <1>3, <1>4 DEF KInv

LEMMA ReadHeads == ASSUME IInv, KInv, CallRead \/ CallDmpRead \/ CallIrq PROVE KInv'
<1> DEFINE p == Aim(mode, Option)
           q == Aim(mode, {})
           r == ReadSamples
           f == <<Step("int_status")>> \o ResetFifo
<1>1. /\ ready' = ready
      /\ \/ mode.app \notin Dmps /\ Begin("read", r)
         \/ handle.dmp_inited /\ Begin("read", f)
         \/ mode.app # "basic" /\ Begin("irq", f)
  BY Zenon DEF CallRead, CallDmpRead, CallIrq
<1>2. r = ReadOf(now)
  BY DEF ReadSamples, ReadOf, now
<1> HIDE DEF r, f
<1>3. PICK name \in {"read", "irq"}, steps \in {r, f} :
           /\ Begin(name, steps)
           /\ \/ steps = r /\ mode.app \notin Dmps
              \/ steps = f /\ mode.app # "basic"
  <2>1. handle.dmp_inited => mode.app # "basic"
    BY DEF IInv, Flags, Dmps
  <2> QED
    BY <1>1, <2>1, Zenon
<1>4. /\ call = "none" /\ call' = name /\ todo' = steps /\ mode' = mode
      /\ call' \in {"read", "irq"}
  BY <1>3 DEF Begin, Idle
<1>5. mode.app \in {"basic", "fifo", "dmp", "mpu6050"} /\ mode.bus \in {"iic", "spi"}
  BY ModeIs DEF IInv
<1>6. Headed'
  <2>1. ASSUME ready PROVE Leads({now'}, steps, Known(q))
    <3>1. now \in Known(q)
      BY <1>4, <2>1 DEF KInv, There
    <3>2. ready' \in BOOLEAN
      BY <1>1, Zenon DEF IInv, Types
    <3> DEFINE v == now'
    <3>3. /\ v \in World /\ v.yes = {} /\ v.no = {} /\ now \in World
          /\ v.on = now.on /\ v.queued = now.queued /\ v.tap = now.tap
          /\ v.mag = now.mag /\ v.dmp = now.dmp /\ v.magin = now.magin
      BY <1>3, <3>2, BeginNow
    <3> HIDE DEF v
    <3>4. v \in Known(p)
      BY <1>5, <3>1, <3>3, AimAsks
    <3>5. CASE steps = r /\ mode.app \notin Dmps
      <4>1. ReadOf(now) = ReadOf(v)
        BY <3>3 DEF ReadOf
      <4>2. mode.app \in {"basic", "fifo"}
        BY <1>5, <3>5 DEF Dmps
      <4>3. From(p, ReadOf(v), q)
        BY <1>5, <3>4, <4>2, ReadLeads
      <4>4. From(p, steps, q)
        BY <1>2, <3>5, <4>1, <4>3
      <4> QED
        BY <3>4, <4>4, LeadsFrom, Zenon DEF From, v
    <3>6. CASE steps = f /\ mode.app # "basic"
      <4>1. From(p, f, q)
        BY <1>5, <3>6, FetchLeads DEF f
      <4>2. From(p, steps, q)
        BY <3>6, <4>1, Zenon
      <4> QED
        BY <3>4, <4>2, LeadsFrom, Zenon DEF From, v
    <3> QED
      BY <1>3, <3>5, <3>6
  <2>2. OnWay' => ready
    BY <1>1, <1>4 DEF OnWay
  <2> QED
    BY <1>4, <2>1, <2>2 DEF Headed
<1>7. There' /\ Unready' /\ Succeeds' /\ Slipped'
  BY <1>4 DEF There, Unready, Succeeds, Slipped
<1>8. Tame'
  BY TameReads DEF KInv
<1> QED
  BY <1>6, <1>7, <1>8 DEF KInv

(* A step that is taken. *)
LEMMA AdvanceHeads == ASSUME IInv, KInv, Advance PROVE KInv'
<1> DEFINE s == Head(todo)
           Q == Known(Aim(mode, {}))
<1>1. todo # <<>> /\ todo \in Seq(AStep) /\ call # "none"
  <2>1. todo # <<>>
    BY DEF Advance
  <2> QED
    BY <2>1, TodoIs
<1>2. /\ mode' = mode /\ slips' = slips /\ failed' = failed
      /\ Tail(todo) # <<>> => todo' = Tail(todo) /\ call' = call
      /\ Tail(todo) = <<>> /\ failed = "none" => Returned(TRUE, slips, failed)
      /\ Tail(todo) = <<>> /\ failed # "none" /\ undo = <<>> =>
           Returned(FALSE, slips, failed)
      /\ Tail(todo) = <<>> /\ failed # "none" /\ undo # <<>> => call' = call
  BY <1>1, AdvanceIs DEF Goes
<1>3. Tail(todo) # <<>> => ready' = ready
  <2>1. Len(todo) > 1 <=> Tail(todo) # <<>>
    BY <1>1, TailIs
  <2> QED
    BY <2>1, Zenon DEF Advance
<1>4. /\ Tail(todo) = <<>> /\ failed = "none" => ready' = (ready \/ call = "init")
      /\ Tail(todo) = <<>> /\ failed # "none" => ready' = ready
  <2>1. Len(todo) > 1 <=> Tail(todo) # <<>>
    BY <1>1, TailIs
  <2> QED
    BY <2>1, Zenon DEF Advance
<1>5. OnWay => Leads({now'}, Tail(todo), Q)
  <2> SUFFICES ASSUME OnWay PROVE Leads({now'}, Tail(todo), Q)
    OBVIOUS
  <2>1. Leads({now}, todo, Q)
    BY DEF KInv, Headed
  <2>2. now \in World
    BY NowIn DEF IInv
  <2>3. Turns(s, now, now')
    BY AdvanceTurns
  <2> HIDE DEF Q
  <2> QED
    BY <1>1, <2>1, <2>2, <2>3, LeadsHead
<1>6. Tame'
  BY TameAdvance DEF KInv
<1> HIDE DEF Q, s
<1>7. CASE Tail(todo) # <<>>
  <2>1. /\ mode' = mode /\ failed' = failed /\ todo' = Tail(todo) /\ call' = call
        /\ ready' = ready
    BY <1>2, <1>3, <1>7
  <2>2. OnWay' => OnWay
    BY <2>1, Zenon DEF OnWay
  <2>3. Headed'
    BY <1>5, <2>1, <2>2 DEF Headed, Q
  <2>4. Unready'
    BY <2>1 DEF KInv, Unready
  <2>5. There' /\ Succeeds' /\ Slipped'
    BY <1>1, <2>1 DEF There, Succeeds, Slipped
  <2> QED
    BY <1>6, <2>3, <2>4, <2>5 DEF KInv
<1>8. CASE Tail(todo) = <<>> /\ failed = "none"
  <2>1. /\ call' = "none" /\ todo' = <<>> /\ last'.call = call /\ last'.ok = TRUE
        /\ mode' = mode
    BY <1>2, <1>8 DEF Returned
  <2>2. ready' = (ready \/ call = "init")
    BY <1>4, <1>8
  <2>3. Headed' /\ Unready' /\ Slipped'
    BY <2>1 DEF Headed, OnWay, Unready, Slipped
  <2>4. Succeeds'
    BY <2>1, <2>2 DEF Succeeds
  <2>5. There'
    <3>1. ASSUME ready' PROVE OnWay
      <4>1. ready \/ call = "init"
        BY <2>2, <3>1
      <4>2. call # "none" /\ (ready => call \notin {"init", "deinit"})
        BY <1>1 DEF KInv, Unready
      <4> QED
        BY <1>8, <4>1, <4>2, CallsAre, Zenon DEF OnWay
    <3>2. ASSUME ready' PROVE now' \in Q
      <4>1. Leads({now'}, <<>>, Q)
        BY <1>5, <1>8, <3>1, <3>2
      <4>2. now' \in World
        BY AdvanceTypes, NextIn
      <4> QED
        BY <4>1, <4>2, LeadsDone
    <3> QED
      BY <2>1, <3>2 DEF There, Q
  <2> QED
    BY <1>6, <2>3, <2>4, <2>5 DEF KInv
<1>9. CASE Tail(todo) = <<>> /\ failed # "none"
  <2>1. call = "init" \/ call = "deinit"
    BY <1>1, <1>9, CallsAre
  <2>2. ~ ready /\ ready' = ready
    BY <1>4, <1>9, <2>1 DEF KInv, Unready
  <2>3. /\ mode' = mode /\ failed' # "none"
        /\ call' = call \/ (call' = "none" /\ last'.call = call /\ last'.ok = FALSE)
    BY <1>2, <1>9 DEF Returned
  <2>4. Headed' /\ There' /\ Unready'
    BY <2>1, <2>2, <2>3 DEF Headed, OnWay, There, Unready
  <2>5. Succeeds'
    BY <2>1, <2>3 DEF Succeeds
  <2>6. Slipped'
    BY <2>1, <2>3 DEF Slipped
  <2> QED
    BY <1>6, <2>4, <2>5, <2>6 DEF KInv
<1> QED
  BY <1>7, <1>8, <1>9

(* And one that fails. *)
LEMMA SlipHeads == ASSUME IInv, KInv, Slip PROVE KInv'
<1> DEFINE s == Head(todo)
<1>1. todo # <<>> /\ todo \in Seq(AStep) /\ call # "none"
  <2>1. todo # <<>>
    BY DEF Slip
  <2> QED
    BY <2>1, TodoIs
<1>2. /\ s \in AStep
      /\ failed # "none" => failed' = failed
      /\ failed = "none" => failed' = IF s.opt = "none" THEN s.do ELSE s.opt
      /\ call # "init" => Returned(FALSE, slips', failed')
      /\ call = "init" => call' = call \/ Returned(FALSE, slips', failed')
  <2>1. /\ s \in AStep
        /\ failed # "none" => failed' = failed
        /\ failed = "none" => failed' = IF s.opt = "none" THEN s.do ELSE s.opt
        /\ call # "init" => Returned(FALSE, slips', failed')
    BY <1>1, SlipIs
  <2>2. ASSUME call = "init" PROVE call' = call \/ Returned(FALSE, slips', failed')
    <3> DEFINE u == IF failed = "none" THEN Cleanup(s) ELSE undo
    <3>1. /\ u = <<>> => Returned(FALSE, slips', failed')
          /\ u # <<>> => Goes(u)
      BY <1>1, <2>2, SlipIs
    <3> HIDE DEF u
    <3> QED
      BY <3>1 DEF Goes
  <2> QED
    BY <2>1, <2>2
<1>3. ready' = FALSE
  BY DEF Slip
<1>4. failed' # "none"
  <2>1. s.do # "none"
    <3>1. s \in Quiet => s.do # "none"
      BY QuietIs
    <3>2. "none" \notin Loud
      BY DEF Loud, Begins, Ends, MagSteps
    <3> QED
      BY <1>2, <3>1, <3>2 DEF AStep
  <2> QED
    BY <1>2, <2>1
<1>5. There' /\ Unready' /\ Headed'
  BY <1>2, <1>3, <1>4 DEF There, Unready, Headed, OnWay, Returned
<1>6. Succeeds'
  BY <1>1, <1>2 DEF Succeeds, Returned
<1>7. Slipped'
  <2>1. ASSUME call' = "none", last'.call = "read", last'.ready PROVE last'.slips > 0
    <3>1. call = "read" /\ Returned(FALSE, slips', failed')
      BY <1>1, <1>2, <2>1 DEF Returned
    <3>2. last'.ready = ready
      <4>1. call # "init"
        BY <3>1
      <4>2. Return(FALSE)
        BY <4>1, Zenon DEF Slip
      <4> QED
        BY <4>2, Zenon DEF Return
    <3>3. Leads({now}, todo, Known(Aim(mode, {})))
      BY <2>1, <3>1, <3>2, Zenon DEF KInv, Headed, OnWay
    <3>4. Can(s, now)
      BY <1>1, <3>3, LeadsHead, NowIn DEF IInv
    <3>5. slips' = slips + 1 /\ last'.slips = slips'
      BY <3>1, <3>4, SlipAnswers DEF Returned
    <3>6. slips \in Nat
      BY ModesAssumption DEF IInv, Types
    <3> QED
      BY <3>5, <3>6
  <2> QED
    BY <2>1, Zenon DEF Slipped
<1>8. Tame'
  BY TameSlip DEF KInv
<1> QED
  BY <1>5, <1>6, <1>7, <1>8 DEF KInv

(* The rest. *)
LEMMA DiesHeads == ASSUME IInv, KInv, Dies, Tame' PROVE KInv'
<1>1. call' = "none" /\ ready' = FALSE /\ last' = NoCall
  BY DEF Dies
<1>2. last'.call = "none"
  BY <1>1 DEF NoCall
<1>3. Headed' /\ There' /\ Unready' /\ Succeeds' /\ Slipped'
  BY <1>1, <1>2 DEF Headed, OnWay, There, Unready, Succeeds, Slipped
<1> QED
  BY <1>3 DEF KInv

LEMMA ProduceHeads == ASSUME IInv, KInv, Produce, Tame' PROVE KInv'
<1> DEFINE p == Aim(mode, {})
<1>1. UNCHANGED <<mode, handle, mag, call, todo, undo, saved, asked, slips, failed,
                  last, ready>>
  BY DEF Produce
<1>2. Brews(now, now') /\ now \in World
  BY ProduceBrews, NowIn DEF IInv
<1>3. ASSUME now \in Known(p) PROVE now' \in Known(p)
  <2>1. Still(Known(p))
    BY AimShut, ModeIs, StillKnown DEF IInv
  <2> HIDE DEF p
  <2> QED
    BY <1>2, <1>3, <2>1 DEF Still
<1>4. ASSUME Leads({now}, todo, Known(p)) PROVE Leads({now'}, todo, Known(p))
  <2>1. CASE todo = <<>>
    <3>1. todo \in Seq(AStep)
      BY <2>1
    <3> QED
      BY <1>2, <1>4, <3>1, LeadsBrew
  <2>2. CASE todo # <<>>
    BY <1>2, <1>4, <2>2, TodoIs, LeadsBrew
  <2> QED
    BY <2>1, <2>2
<1> HIDE DEF p
<1>5. Headed'
  <2>1. OnWay' => OnWay
    BY <1>1, Zenon DEF OnWay
  <2>2. OnWay' => Leads({now'}, todo, Known(p))
    BY <1>4, <2>1 DEF KInv, Headed, p
  <2> QED
    BY <1>1, <2>2 DEF Headed, p
<1>6. There'
  <2>1. call' = "none" /\ ready' => now' \in Known(p)
    BY <1>1, <1>3 DEF KInv, There, p
  <2> QED
    BY <1>1, <2>1 DEF There, p
<1>7. Unready' /\ Succeeds' /\ Slipped'
  BY <1>1 DEF KInv, Unready, Succeeds, Slipped
<1> QED
  BY <1>5, <1>6, <1>7 DEF KInv

LEMMA HeadsNext == ASSUME IInv, KInv, [Next]_vars PROVE KInv'
<1>1. Tame'
  BY TameNext DEF KInv
<1>2. CASE UNCHANGED vars
  <2>1. UNCHANGED <<mode, handle, chip, mag, call, todo, undo, saved, asked, slips,
                    failed, last, ready>>
    BY <1>2 DEF vars
  <2>2. now' = now
    BY <2>1 DEF now
  <2>3. Headed' /\ There'
    BY <2>1, <2>2 DEF KInv, Headed, OnWay, There
  <2>4. Unready' /\ Succeeds' /\ Slipped'
    BY <2>1 DEF KInv, Unready, Succeeds, Slipped
  <2> QED
    BY <1>1, <2>3, <2>4 DEF KInv
<1> QED
  BY <1>1, <1>2, InitHeads, DeinitHeads, ReadHeads, AdvanceHeads, SlipHeads, DiesHeads,
     ProduceHeads DEF Next, Killed, NullBus


LEMMA InitHeaded == ASSUME Init PROVE KInv
<1>1. /\ call = "none" /\ todo = <<>> /\ undo = <<>> /\ mag = "down" /\ ready = FALSE
      /\ last = NoCall
  BY DEF Init
<1>2. last.call = "none"
  BY <1>1 DEF NoCall
<1>3. Headed /\ There /\ Unready /\ Succeeds /\ Slipped
  BY <1>1, <1>2 DEF Headed, OnWay, There, Unready, Succeeds, Slipped
<1>4. Tame
  BY <1>1 DEF Tame
<1> QED
  BY <1>3, <1>4 DEF KInv

LEMMA SpecHeads == Spec => [](IInv /\ KInv)
<1>1. Init => IInv /\ KInv
  BY InitInv, InitHeaded
<1>2. IInv /\ KInv /\ [Next]_vars => IInv' /\ KInv'
  BY NextInv, HeadsNext
<1> QED
  BY <1>1, <1>2, PTL DEF Spec

-----------------------------------------------------------------------------
(* What it says. *)
LEMMA AimKept ==
  ASSUME NEW m, m.bus \in {"iic", "spi"}
  PROVE  LET p == Aim(m, {}) IN
         p.loose = {} /\ p.odd = {} /\ (m.app \in Dmps => p.tap = {"set"})
<1> DEFINE p == Aim(m, {})
<1>1. CASE m.app = "basic"
  <2>1. p = BasicAim(m.bus, {})
    BY <1>1 DEF Aim
  <2> HIDE DEF p
  <2>2. p.loose = {} /\ p.odd = {}
    BY <2>1 DEF BasicAim, Hope
  <2>3. m.app \notin Dmps
    BY <1>1 DEF Dmps
  <2> QED
    BY <2>2, <2>3, Zenon DEF p
<1>2. CASE m.app = "fifo"
  <2>1. p = FifoAim(m.bus, {})
    BY <1>2 DEF Aim
  <2> HIDE DEF p
  <2>2. p.loose = {} /\ p.odd = {}
    BY <2>1 DEF FifoAim, Hope
  <2>3. m.app \notin Dmps
    BY <1>2 DEF Dmps
  <2> QED
    BY <2>2, <2>3, Zenon DEF p
<1>3. CASE m.app \notin {"basic", "fifo"}
  <2>1. p = DmpAim({})
    BY <1>3 DEF Aim
  <2> HIDE DEF p
  <2>2. p.loose = {} /\ p.odd = {} /\ p.tap = {"set"}
    BY <2>1 DEF DmpAim, Dare
  <2> QED
    BY <2>2, Zenon DEF p
<1> QED
  BY <1>1, <1>2, <1>3

LEMMA InvKept == ASSUME IInv, KInv PROVE Kept
<1> SUFFICES ASSUME Idle, last.call = "init", last.ok
             PROVE  /\ asked.on \subseteq chip.on
                    /\ chip.on \intersect asked.off \subseteq {"iic_bypass"}
                    /\ mode.app \in Dmps => chip.tap = "set"
  BY DEF Kept
<1> DEFINE p == Aim(mode, {})
<1>1. now \in Known(p)
  <2>1. call = "none"
    BY DEF Idle
  <2> QED
    BY <2>1, Zenon DEF KInv, Succeeds, There
<1>2. p.loose = {} /\ p.odd = {} /\ (mode.app \in Dmps => p.tap = {"set"})
  BY AimKept, ModeIs DEF IInv
<1> HIDE DEF p
<1>3. /\ now.on = chip.on /\ now.tap = chip.tap /\ now.yes = asked.on /\ now.no = asked.off
  BY DEF now
<1>4. /\ now.yes \subseteq now.on \union p.loose
      /\ now.on \intersect now.no \subseteq {"iic_bypass"} \union p.odd
      /\ now.tap \in p.tap
  BY <1>1 DEF Known
<1> QED
  BY <1>2, <1>3, <1>4

LEMMA InvReads == ASSUME IInv, KInv PROVE Reads
<1>1. Idle => call = "none"
  BY DEF Idle
<1> QED
  BY <1>1, Zenon DEF KInv, Slipped, Reads

(* Of what is known in each of the modes. *)
LEMMA BasicTells ==
  ASSUME NEW bus \in {"iic", "spi"}, NEW w \in Known(BasicAim(bus, {}))
  PROVE  /\ "sleep" \notin w.on /\ w.queued = {}
         /\ bus = "iic" => w.mag = "measuring"
<1> DEFINE p == BasicAim(bus, {})
<1>1. p.fifo = "none" /\ "sleep" \in p.off /\ (bus = "iic" => p.mag = {"measuring"})
  <2>1. CASE bus = "spi"
    <3>1. p = Hope({}, {"sleep", "fifo", "dmp"}, {}, {}, {FALSE}, Mag, "none")
      BY <2>1 DEF BasicAim
    <3>2. p.fifo = "none" /\ "sleep" \in p.off
      BY <3>1 DEF Hope
    <3> QED
      BY <2>1, <3>2
  <2>2. CASE bus = "iic"
    <3>1. p = Hope({"iic_bypass"}, {"sleep", "fifo", "dmp", "iic_master"}, {}, {}, BOOLEAN,
                   {"measuring"}, "none")
      BY <2>2 DEF BasicAim
    <3>2. p.fifo = "none" /\ "sleep" \in p.off /\ p.mag = {"measuring"}
      BY <3>1 DEF Hope
    <3> QED
      BY <3>2
  <2> QED
    BY <2>1, <2>2
<1>2. w \in Known(p)
  OBVIOUS
<1> HIDE DEF p
<1>3. p.off \intersect w.on = {} /\ w.mag \in p.mag /\ Fits(p, w)
  BY <1>2 DEF Known
<1> QED
  BY <1>1, <1>3 DEF Fits

LEMMA FifoTells ==
  ASSUME NEW bus \in {"iic", "spi"}, NEW w \in Known(FifoAim(bus, {}))
  PROVE  /\ "sleep" \notin w.on /\ w.queued \subseteq {Kind(w.on)}
         /\ bus = "iic" => Kind(w.on) = Elements(Imu) \union {"fifo_slv0"}
                           /\ w.mag = "measuring"
         /\ bus = "spi" => Kind(w.on) = Elements(Imu)
<1> DEFINE n == {}
           p == FifoAim(bus, n)
<1>1. w \in Known(p) /\ p = FifoAim(bus, n)
  OBVIOUS
<1> HIDE DEF n, p
<1>2. /\ p.fifo = "fit" /\ {"fifo"} \union Elements(Imu) \subseteq p.on
      /\ bus = "spi" => "fifo_slv0" \in p.off
      /\ bus = "iic" => "fifo_slv0" \in p.on /\ p.mag = {"measuring"}
  BY <1>1, FifoAimIs
<1>3. {"sleep", "dmp", "fifo_temp"} \subseteq p.off
  <2>1. bus = "spi" => p.off = {"sleep", "dmp", "fifo_temp", "fifo_slv0"}
    BY <1>1 DEF FifoAim, Hope
  <2>2. bus = "iic" => p.off = {"sleep", "dmp", "fifo_temp"}
    BY <1>1 DEF FifoAim, Hope
  <2> QED
    BY <2>1, <2>2
<1>4. p.on \subseteq w.on /\ p.off \intersect w.on = {} /\ w.mag \in p.mag /\ Fits(p, w)
  BY <1>1 DEF Known
<1>5. /\ "sleep" \notin w.on /\ "dmp" \notin w.on /\ "fifo_temp" \notin w.on
      /\ Elements(Imu) \subseteq w.on
      /\ bus = "spi" => "fifo_slv0" \notin w.on
      /\ bus = "iic" => "fifo_slv0" \in w.on /\ w.mag = "measuring"
  BY <1>2, <1>3, <1>4
<1>6. w.queued \subseteq {Kind(w.on)}
  BY <1>2, <1>4 DEF Fits
<1>7. Sources = Elements(Imu) \union {"fifo_temp", "fifo_slv0"} /\ "fifo_slv0" \notin Elements(Imu)
  BY DEF Sources, Elements, Imu
<1>8. Kind(w.on) = w.on \intersect Sources
  BY <1>5 DEF Kind
<1> QED
  BY <1>5, <1>6, <1>7, <1>8

LEMMA DmpTells ==
  ASSUME NEW w \in Known(DmpAim({}))
  PROVE  "sleep" \notin w.on /\ w.queued \subseteq {Kind(w.on)} /\ Kind(w.on) = {"packet"}
<1> DEFINE n == {}
           p == DmpAim(n)
<1>1. w \in Known(p) /\ p = DmpAim(n)
  OBVIOUS
<1> HIDE DEF n, p
<1>2. p.fifo = "fit" /\ p.on = {"fifo", "dmp"} /\ p.off = {"sleep"}
  BY <1>1, DmpAimIs
<1>3. p.fifo = "fit" /\ "dmp" \in p.on /\ "sleep" \in p.off
  BY <1>2
<1>4. p.on \subseteq w.on /\ p.off \intersect w.on = {} /\ Fits(p, w)
  BY <1>1 DEF Known
<1>5. "dmp" \in w.on /\ "sleep" \notin w.on /\ w.queued \subseteq {Kind(w.on)}
  BY <1>3, <1>4 DEF Fits
<1> QED
  BY <1>5 DEF Kind

LEMMA InvReadable == ASSUME IInv, KInv PROVE Readable
<1> SUFFICES ASSUME Idle, ready
             PROVE  /\ ~ Asleep
                    /\ chip.queued \subseteq {Layout}
                    /\ mode.app = "basic" => chip.queued = {}
                    /\ mode.app = "fifo" =>
                         Layout = Elements(Imu) \union (IF mag = "measuring"
                                                          THEN {"fifo_slv0"} ELSE {})
                    /\ mode.app \in Dmps => Layout = {"packet"}
                    /\ mode.bus = "iic" /\ mode.app \notin Dmps => mag = "measuring"
  BY Zenon DEF Readable
<1>1. now \in Known(Aim(mode, {}))
  BY Zenon DEF KInv, There, Idle
<1>2. /\ now.on = chip.on /\ now.queued = chip.queued /\ now.mag = mag
      /\ Layout = Kind(now.on) /\ (Asleep <=> "sleep" \in now.on)
  BY DEF now, Layout, Kind, Asleep
<1>3. mode.app \in {"basic", "fifo", "dmp", "mpu6050"} /\ mode.bus \in {"iic", "spi"}
  BY ModeIs DEF IInv
<1>4. mode.bus = "spi" => mag # "measuring"
  BY DEF KInv, Tame
<1>5. CASE mode.app = "basic"
  <2>1. Aim(mode, {}) = BasicAim(mode.bus, {})
    BY <1>5 DEF Aim
  <2>2. "sleep" \notin now.on /\ now.queued = {} /\ (mode.bus = "iic" => now.mag = "measuring")
    BY <1>1, <1>3, <2>1, BasicTells
  <2>3. mode.app \notin Dmps
    BY <1>5 DEF Dmps
  <2> QED
    BY <1>2, <1>5, <2>2, <2>3
<1>6. CASE mode.app = "fifo"
  <2>1. Aim(mode, {}) = FifoAim(mode.bus, {})
    BY <1>6 DEF Aim
  <2>2. /\ "sleep" \notin now.on /\ now.queued \subseteq {Kind(now.on)}
        /\ mode.bus = "iic" => Kind(now.on) = Elements(Imu) \union {"fifo_slv0"}
                               /\ now.mag = "measuring"
        /\ mode.bus = "spi" => Kind(now.on) = Elements(Imu)
    BY <1>1, <1>3, <2>1, FifoTells
  <2>3. mode.app \notin Dmps
    BY <1>6 DEF Dmps
  <2>4. Layout = Elements(Imu) \union (IF mag = "measuring" THEN {"fifo_slv0"} ELSE {})
    BY <1>2, <1>3, <1>4, <2>2
  <2> QED
    BY <1>2, <1>6, <2>2, <2>3, <2>4
<1>7. CASE mode.app \in Dmps
  <2>1. Aim(mode, {}) = DmpAim({})
    BY <1>7 DEF Aim, Dmps
  <2>2. /\ "sleep" \notin now.on /\ now.queued \subseteq {Kind(now.on)}
        /\ Kind(now.on) = {"packet"}
    BY <1>1, <2>1, DmpTells
  <2>3. mode.app # "basic" /\ mode.app # "fifo"
    BY <1>7 DEF Dmps
  <2> QED
    BY <1>2, <1>7, <2>2, <2>3
<1> QED
  BY <1>3, <1>5, <1>6, <1>7 DEF Dmps

(* For every set of modes and buses and any number of failing transfers: an init
   that returns 0 leaves every switch as its own setters asked for it last, the
   bypass excepted, which mag_init opens; and the dmp_inits leave the tap
   thresholds that they set and not those that set_feature gives. *)
THEOREM InitKeepsSettings == Spec => []Kept
<1>1. IInv /\ KInv => Kept
  BY InvKept
<1> QED
  BY <1>1, SpecHeads, PTL

(* After an init that returned 0, and until a transfer fails, the chip is awake
   and what its fifo holds has the layout by which mpu9250_read or dmp_read
   takes it apart, through every read and every reset of the fifo. *)
THEOREM FifoStaysReadable == Spec => []Readable
<1>1. IInv /\ KInv => Readable
  BY InvReadable
<1> QED
  BY <1>1, SpecHeads, PTL

(* After an init that returned 0 a read fails only when a transfer does: never
   for the sources of the fifo, which mpu9250_read refuses if they are others,
   or for a magnetometer that does not answer. *)
THEOREM ReadsFailWithBus == Spec => []Reads
<1>1. IInv /\ KInv => Reads
  BY InvReads
<1> QED
  BY <1>1, SpecHeads, PTL
=============================================================================
