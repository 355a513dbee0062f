-------------------------- MODULE DmpDriver_proofs --------------------------
(***************************************************************************)
(* TypeOK, InitFailsClosed, LayoutAgrees and Running for any masks, any    *)
(* firmware and any number of transfers that fail.                         *)
(*                                                                         *)
(* The first two need only to know where a call is (IInv).  The others     *)
(* speak of calls that have returned and hold of none that is under way:   *)
(* what holds then is that the steps it has still to take will put right   *)
(* whatever is not (PInv), unless a transfer fails.  Comes and Stays say   *)
(* such things of a sequence of steps, feature by feature and flag by      *)
(* flag.                                                                   *)
(***************************************************************************)
EXTENDS DmpDriver, TLAPS, SequenceTheorems

Doing ==
  {"write", "cell", "mask", "mask_irq", "flush", "run", "unmask_irq", "identify",
   "init_reset", "poll", "biases", "reset", "wake", "load", "start", "sleep",
   "close", "fifo_on", "irq_on", "dmp_on", "dmp_off", "drain", "clear"}

AStep == [do : Doing, of : SUBSET Feature, is : SUBSET Feature]

(* The steps that leave handle->inited as it is; and those that leave
   dmp_inited off when it is off. *)
Opened == {s \in AStep : s.do \notin {"clear", "poll", "close"}}
NoStart == {s \in AStep : s.do # "start"}
Quiet == Opened \intersect NoStart

(* The steps of dmp_init up to the one that opens the handle. *)
Opening == <<"clear", "identify", "init_reset", "poll">>

(* d of those are still to take. *)
Opens(s, d) ==
  /\ s \in Seq(AStep) /\ Len(s) > d
  /\ \A i \in 1 .. d : s[i].do = Opening[i + 4 - d]
  /\ \A i \in d + 1 .. Len(s) : s[i] \in Opened

(* Where a dmp_init is: none of its transfers has failed, *)
InitRuns ==
  /\ failed = "none" /\ slips = 0
  /\ \E d \in 0 .. 4 :
       /\ Opens(todo, d)
       /\ d \in 1 .. 3 => ~handle.inited
       /\ d = 1 => chip.asleep
       /\ d = 0 => handle.inited

(* or one has, and deinit is on its way. *)
InitCloses ==
  /\ failed \in Doing /\ slips = 1 /\ handle.inited
  /\ \/ todo = <<Step("sleep"), Step("close")>>
     \/ todo = <<Step("close")>> /\ chip.asleep

Todo ==
  /\ call = "none" => todo = <<>>
  /\ call = "dmp_init" => InitRuns \/ InitCloses
  /\ call = "load" => handle.inited /\ todo # <<>> /\ todo \in Seq(Opened)
  /\ call \notin {"none", "dmp_init", "load"} => todo # <<>> /\ todo \in Seq(NoStart)

Flags == handle.dmp_inited => handle.inited

Handles == [inited : BOOLEAN, dmp_inited : BOOLEAN, mask : SUBSET Feature]
Chips == [asleep : BOOLEAN, loaded : BOOLEAN, dmp : BOOLEAN, fifo : BOOLEAN,
          irq : BOOLEAN, on : SUBSET Feature, queued : SUBSET (SUBSET Part)]

Types ==
  /\ handle \in Handles /\ chip \in Chips
  /\ saved \in BOOLEAN /\ slips \in 0 .. MaxSlips
  /\ since \in {"nothing", "feature", "init"}

IInv == Types /\ Flags /\ Todo /\ InitFailsClosed

-----------------------------------------------------------------------------
(* The calls are sequences of such steps. *)
LEMMA StepsAre ==
  /\ \A x \in Doing : Step(x) \in AStep /\ Step(x).do = x
  /\ \A of \in SUBSET Feature : \A m : Cell(of, m) \in Quiet /\ SetMask(of, m) \in Quiet
  /\ Write \in Quiet
  /\ \A x \in Doing \ {"clear", "poll", "close", "start"} : Step(x) \in Quiet
<1>1. \A x \in Doing : Step(x) \in AStep /\ Step(x).do = x
  BY DEF Step, AStep
<1>2. \A of \in SUBSET Feature : \A m : Cell(of, m) \in Quiet /\ SetMask(of, m) \in Quiet
  <2> SUFFICES ASSUME NEW of \in SUBSET Feature, NEW m
               PROVE  Cell(of, m) \in Quiet /\ SetMask(of, m) \in Quiet
    OBVIOUS
  <2>1. m \intersect of \in SUBSET Feature
    OBVIOUS
  <2> QED
    BY <2>1 DEF Cell, SetMask, Quiet, Opened, NoStart, AStep, Doing
<1>3. \A x \in Doing \ {"clear", "poll", "close", "start"} : Step(x) \in Quiet
  BY <1>1 DEF Quiet, Opened, NoStart
<1>4. Write \in Quiet
  BY <1>3 DEF Write, Doing
<1> QED
  BY <1>1, <1>2, <1>3, <1>4

LEMMA QuietSeq == /\ Seq(Quiet) \subseteq Seq(Opened)
                  /\ Seq(Quiet) \subseteq Seq(NoStart)
                  /\ Seq(Opened) \subseteq Seq(AStep)
                  /\ Seq(NoStart) \subseteq Seq(AStep)
<1>1. Quiet \subseteq Opened /\ Quiet \subseteq NoStart /\ Opened \subseteq AStep
      /\ NoStart \subseteq AStep
  BY DEF Quiet, Opened, NoStart
<1> QED
  BY <1>1

LEMMA QuietCalls ==
  /\ ResetFifo \in Seq(Quiet) /\ ResetFifo # <<>>
  /\ SelfTest \in Seq(Quiet) /\ SelfTest # <<>>
  /\ Configure \in Seq(Quiet) /\ Tune \in Seq(Quiet)
  /\ \A m : SetFeature(m) \in Seq(Quiet) /\ SetFeature(m) # <<>>
  /\ \A f \in Quaternion : \A m :
       SetQuaternion(f, m) \in Seq(Quiet) /\ SetQuaternion(f, m) # <<>>
  /\ \A m : SetGyroCalibrate(m) \in Seq(Quiet) /\ SetGyroCalibrate(m) # <<>>
<1>1. ResetFifo \in Seq(Quiet) /\ Len(ResetFifo) = 4
  BY StepsAre DEF ResetFifo, Doing
<1>2. SelfTest \in Seq(Quiet) /\ Len(SelfTest) = 4
  BY StepsAre DEF SelfTest, Doing
<1>3. Configure \in Seq(Quiet) /\ Tune \in Seq(Quiet)
  BY StepsAre DEF Configure, Tune, Doing
<1>4. \A s, t : s \in Seq(Quiet) /\ t \in Seq(Quiet) =>
        s \o t \in Seq(Quiet) /\ Len(s \o t) = Len(s) + Len(t)
  BY ConcatProperties
<1>5. ASSUME NEW m PROVE SetFeature(m) \in Seq(Quiet) /\ SetFeature(m) # <<>>
  <2>1. Sensors(m) \in Seq(Quiet)
    <3>1. /\ {"accel", "gyro"} \in SUBSET Feature /\ {"gesture"} \in SUBSET Feature
          /\ {"gyro_cal"} \in SUBSET Feature
      BY DEF Feature, Part
    <3>2. /\ Cell({"accel", "gyro"}, m) \in Quiet /\ Cell({"gesture"}, m) \in Quiet
          /\ Cell({"gyro_cal"}, m) \in Quiet
      BY <3>1, StepsAre
    <3> QED
      BY <3>2, StepsAre DEF Sensors
  <2>2. TapDefaults \in Seq(Quiet) /\ OrientInt \in Seq(Quiet)
    BY StepsAre DEF TapDefaults, OrientInt
  <2>3. Quaternions(m) \in Seq(Quiet)
    <3>1. {"3x_quat"} \in SUBSET Feature /\ {"6x_quat"} \in SUBSET Feature
      BY DEF Feature, Part, Quaternion
    <3>2. <<Cell({"3x_quat"}, m)>> \in Seq(Quiet) /\ <<Cell({"6x_quat"}, m)>> \in Seq(Quiet)
      BY <3>1, StepsAre
    <3>3. <<Cell({"3x_quat"}, m)>> \o ResetFifo \in Seq(Quiet)
      BY <3>2, <1>1, <1>4
    <3>4. <<Cell({"3x_quat"}, m)>> \o ResetFifo \o <<Cell({"6x_quat"}, m)>> \in Seq(Quiet)
      BY <3>2, <3>3, <1>4
    <3> QED
      BY <3>4, <1>1, <1>4 DEF Quaternions
  <2>4. <<SetMask(Feature, m)>> \in Seq(Quiet)
    BY StepsAre
  <2>5. Sensors(m) \o TapDefaults \in Seq(Quiet)
    BY <2>1, <2>2, <1>4
  <2>6. Sensors(m) \o TapDefaults \o OrientInt \in Seq(Quiet)
    BY <2>5, <2>2, <1>4
  <2>7. Sensors(m) \o TapDefaults \o OrientInt \o Quaternions(m) \in Seq(Quiet)
    BY <2>6, <2>3, <1>4
  <2>8. Sensors(m) \o TapDefaults \o OrientInt \o Quaternions(m)
          \o <<SetMask(Feature, m)>> \in Seq(Quiet)
    BY <2>7, <2>4, <1>4
  <2>9. SetFeature(m) \in Seq(Quiet) /\ Len(SetFeature(m)) >= 4
    <3> DEFINE s == Sensors(m) \o TapDefaults \o OrientInt \o Quaternions(m)
                      \o <<SetMask(Feature, m)>>
    <3>1. SetFeature(m) = s \o ResetFifo
      BY DEF SetFeature
    <3>2. s \in Seq(Quiet)
      BY <2>8
    <3> HIDE DEF s
    <3>3. s \o ResetFifo \in Seq(Quiet) /\ Len(s \o ResetFifo) = Len(s) + 4
      BY <1>1, <1>4, <3>2
    <3>4. Len(s) \in Nat
      BY <3>2, LenProperties
    <3> QED
      BY <3>1, <3>3, <3>4
  <2> QED
    BY <2>9
<1>6. ASSUME NEW f \in Quaternion, NEW m
      PROVE  SetQuaternion(f, m) \in Seq(Quiet) /\ SetQuaternion(f, m) # <<>>
  <2>1. {f} \in SUBSET Feature
    BY DEF Feature, Part
  <2>2. <<Cell({f}, m)>> \in Seq(Quiet) /\ <<SetMask({f}, m)>> \in Seq(Quiet)
        /\ Len(<<SetMask({f}, m)>>) = 1
    BY <2>1, StepsAre
  <2>3. <<Cell({f}, m)>> \o ResetFifo \in Seq(Quiet)
    BY <2>2, <1>1, <1>4
  <2>4. SetQuaternion(f, m) \in Seq(Quiet)
        /\ Len(SetQuaternion(f, m)) = Len(<<Cell({f}, m)>> \o ResetFifo) + 1
    BY <2>2, <2>3, <1>4 DEF SetQuaternion
  <2>5. Len(<<Cell({f}, m)>> \o ResetFifo) \in Nat
    BY <2>3, LenProperties
  <2> QED
    BY <2>4, <2>5
<1>7. ASSUME NEW m PROVE SetGyroCalibrate(m) \in Seq(Quiet) /\ SetGyroCalibrate(m) # <<>>
  <2>1. {"gyro_cal"} \in SUBSET Feature
    BY DEF Feature
  <2>2. Cell({"gyro_cal"}, m) \in Quiet /\ SetMask({"gyro_cal"}, m) \in Quiet
    BY <2>1, StepsAre
  <2> QED
    BY <2>2 DEF SetGyroCalibrate
<1>8. ResetFifo # <<>> /\ SelfTest # <<>>
  BY <1>1, <1>2
<1> HIDE DEF ResetFifo, SelfTest
<1> QED
  BY <1>1, <1>2, <1>3, <1>5, <1>6, <1>7, <1>8, Zenon

-----------------------------------------------------------------------------
(* dmp_init begins with the steps of Opening, and has none of them later. *)
Starts(s) ==
  /\ s \in Seq(AStep) /\ Len(s) >= 4
  /\ \A i \in 1 .. 4 : s[i].do = Opening[i]
  /\ \A i \in 5 .. Len(s) : s[i] \in Opened

LEMMA StartsMore ==
  ASSUME NEW s, Starts(s), NEW t \in Seq(Opened)
  PROVE  Starts(s \o t) /\ Len(s \o t) = Len(s) + Len(t)
<1>1. s \in Seq(AStep) /\ t \in Seq(AStep) /\ Len(s) >= 4 /\ Len(s) \in Nat
      /\ Len(t) \in Nat
  BY QuietSeq DEF Starts
<1>2. /\ s \o t \in Seq(AStep) /\ Len(s \o t) = Len(s) + Len(t)
      /\ \A i \in 1 .. Len(s) + Len(t) :
           (s \o t)[i] = IF i <= Len(s) THEN s[i] ELSE t[i - Len(s)]
  BY <1>1, ConcatProperties
<1>3. \A i \in 1 .. 4 : (s \o t)[i].do = Opening[i]
  BY <1>1, <1>2 DEF Starts
<1>4. ASSUME NEW i \in 5 .. Len(s) + Len(t) PROVE (s \o t)[i] \in Opened
  <2>1. CASE i <= Len(s)
    BY <1>1, <1>2, <2>1 DEF Starts
  <2>2. CASE ~(i <= Len(s))
    <3>1. i - Len(s) \in 1 .. Len(t)
      BY <1>1, <2>2
    <3>2. t[i - Len(s)] \in Opened
      BY <3>1, ElementOfSeq
    <3> QED
      BY <1>1, <1>2, <2>2, <3>2
  <2> QED
    BY <2>1, <2>2
<1> QED
  BY <1>1, <1>2, <1>3, <1>4 DEF Starts

LEMMA InitOpens == Opens(DmpInit, 4)
<1> DEFINE s1 == <<Step("clear")>> \o Init6050
           s2 == s1 \o <<Step("wake")>>
           s3 == s2 \o SelfTest
           s4 == s3 \o Configure
           s5 == s4 \o LoadFirmware
           s6 == s5 \o Tune
           s7 == s6 \o SetFeature(DefaultMask)
           s8 == s7 \o Tune
           s9 == s8 \o <<Step("dmp_on")>>
<1>1. Starts(s1)
  <2> DEFINE t == <<Step("clear")>>
  <2>1. /\ Step("clear") \in AStep /\ Step("identify") \in AStep
        /\ Step("init_reset") \in AStep /\ Step("poll") \in AStep
        /\ Step("clear").do = "clear" /\ Step("identify").do = "identify"
        /\ Step("init_reset").do = "init_reset" /\ Step("poll").do = "poll"
    BY StepsAre DEF Doing
  <2>2. t \in Seq(AStep) /\ Len(t) = 1 /\ t[1].do = "clear"
    BY <2>1
  <2>3. /\ Init6050 \in Seq(AStep) /\ Len(Init6050) = 3
        /\ Init6050[1].do = "identify" /\ Init6050[2].do = "init_reset"
        /\ Init6050[3].do = "poll"
    BY <2>1 DEF Init6050
  <2> HIDE DEF t
  <2>4. /\ s1 \in Seq(AStep) /\ Len(s1) = 4
        /\ s1[1] = t[1] /\ s1[2] = Init6050[1] /\ s1[3] = Init6050[2]
        /\ s1[4] = Init6050[3]
    <3>1. s1 = t \o Init6050
      BY DEF t
    <3> HIDE DEF s1
    <3>2. /\ t \o Init6050 \in Seq(AStep) /\ Len(t \o Init6050) = 4
          /\ \A i \in 1 .. 4 :
               (t \o Init6050)[i] = IF i <= 1 THEN t[i] ELSE Init6050[i - 1]
      <4>1. /\ t \o Init6050 \in Seq(AStep)
            /\ Len(t \o Init6050) = Len(t) + Len(Init6050)
            /\ \A i \in 1 .. Len(t) + Len(Init6050) :
                 (t \o Init6050)[i] = IF i <= Len(t) THEN t[i]
                                      ELSE Init6050[i - Len(t)]
        BY <2>2, <2>3, ConcatProperties, Zenon
      <4> QED
        BY <4>1, <2>2, <2>3
    <3> QED
      BY <3>1, <3>2
  <2> HIDE DEF s1
  <2>5. /\ Opening[1] = "clear" /\ Opening[2] = "identify"
        /\ Opening[3] = "init_reset" /\ Opening[4] = "poll"
    BY DEF Opening
  <2>6. \A i \in 1 .. 4 : s1[i].do = Opening[i]
    BY <2>2, <2>3, <2>4, <2>5
  <2> QED
    BY <2>4, <2>6 DEF Starts
<1>2. /\ <<Step("wake")>> \in Seq(Opened) /\ SelfTest \in Seq(Opened)
      /\ Configure \in Seq(Opened) /\ Tune \in Seq(Opened)
      /\ SetFeature(DefaultMask) \in Seq(Opened)
      /\ <<Step("dmp_on")>> \in Seq(Opened)
      /\ ResetFifo \in Seq(Opened) /\ Len(ResetFifo) = 4
  <2>1. /\ <<Step("wake")>> \in Seq(Quiet) /\ <<Step("dmp_on")>> \in Seq(Quiet)
    BY StepsAre DEF Doing
  <2>2. Len(ResetFifo) = 4
    BY DEF ResetFifo
  <2> QED
    BY <2>1, <2>2, QuietCalls, QuietSeq
<1>3. LoadFirmware \in Seq(Opened)
  <2>1. Step("load") \in Opened /\ Step("start") \in Opened
    BY StepsAre DEF Doing, Opened
  <2> QED
    BY <2>1 DEF LoadFirmware
<1>4. DmpInit = s9 \o ResetFifo
  BY DEF DmpInit
<1> HIDE DEF s1
<1>5. Starts(s2)
  BY <1>1, <1>2, StartsMore
<1> HIDE DEF s2
<1>6. Starts(s3)
  BY <1>5, <1>2, StartsMore
<1> HIDE DEF s3
<1>7. Starts(s4)
  BY <1>6, <1>2, StartsMore
<1> HIDE DEF s4
<1>8. Starts(s5)
  BY <1>7, <1>3, StartsMore
<1> HIDE DEF s5
<1>9. Starts(s6)
  BY <1>8, <1>2, StartsMore
<1> HIDE DEF s6
<1>10. Starts(s7)
  BY <1>9, <1>2, StartsMore
<1> HIDE DEF s7
<1>11. Starts(s8)
  BY <1>10, <1>2, StartsMore
<1> HIDE DEF s8
<1>12. Starts(s9)
  BY <1>11, <1>2, StartsMore
<1> HIDE DEF s9
<1>13. Starts(DmpInit) /\ Len(DmpInit) = Len(s9) + 4
  BY <1>12, <1>2, <1>4, StartsMore
<1>14. Len(s9) \in Nat /\ Len(s9) >= 4
  BY <1>12 DEF Starts
<1> HIDE DEF DmpInit
<1> QED
  BY <1>13, <1>14 DEF Starts, Opens

(* What a step leaves of such a sequence. *)
LEMMA OpensTail ==
  ASSUME NEW d \in 0 .. 4, NEW s, Opens(s, d)
  PROVE  /\ Head(s) \in AStep
         /\ d # 0 => Head(s).do = Opening[5 - d] /\ Len(s) > 1 /\ Opens(Tail(s), d - 1)
         /\ d = 0 => Head(s) \in Opened
         /\ d = 0 /\ Len(s) > 1 => Opens(Tail(s), 0)
<1>1. s \in Seq(AStep) /\ Len(s) \in Nat /\ Len(s) > d /\ s # <<>>
  BY DEF Opens
<1>2. Head(s) = s[1] /\ s[1] \in AStep
  BY <1>1, ElementOfSeq
<1>3. /\ Tail(s) \in Seq(AStep) /\ Len(Tail(s)) = Len(s) - 1
      /\ \A i \in 1 .. Len(Tail(s)) : Tail(s)[i] = s[i + 1]
  BY <1>1, HeadTailProperties
<1>4. ASSUME d # 0
      PROVE  Head(s).do = Opening[5 - d] /\ Len(s) > 1 /\ Opens(Tail(s), d - 1)
  <2>1. Head(s).do = Opening[5 - d] /\ Len(s) > 1
    BY <1>1, <1>2, <1>4 DEF Opens
  <2>2. \A i \in 1 .. d - 1 : Tail(s)[i].do = Opening[i + 4 - (d - 1)]
    <3> SUFFICES ASSUME NEW i \in 1 .. d - 1
                 PROVE  Tail(s)[i].do = Opening[i + 4 - (d - 1)]
      OBVIOUS
    <3>1. Tail(s)[i] = s[i + 1] /\ i + 1 \in 1 .. d
      BY <1>1, <1>3
    <3>2. s[i + 1].do = Opening[(i + 1) + 4 - d]
      BY <3>1 DEF Opens
    <3>3. (i + 1) + 4 - d = i + 4 - (d - 1)
      OBVIOUS
    <3> QED
      BY <3>1, <3>2, <3>3
  <2>3. \A i \in (d - 1) + 1 .. Len(Tail(s)) : Tail(s)[i] \in Opened
    BY <1>1, <1>3, <1>4 DEF Opens
  <2>4. Len(Tail(s)) > d - 1
    BY <1>1, <1>3
  <2> QED
    BY <2>1, <2>2, <2>3, <2>4, <1>3 DEF Opens
<1>5. d = 0 => Head(s) \in Opened
  BY <1>1, <1>2 DEF Opens
<1>6. ASSUME d = 0, Len(s) > 1 PROVE Opens(Tail(s), 0)
  BY <1>1, <1>3, <1>6 DEF Opens
<1> QED
  BY <1>2, <1>4, <1>5, <1>6

LEMMA SeqTail ==
  ASSUME NEW S, NEW s \in Seq(S), s # <<>>
  PROVE  Head(s) \in S /\ Tail(s) \in Seq(S) /\ (Len(s) > 1 => Tail(s) # <<>>)
<1>1. Head(s) \in S /\ Tail(s) \in Seq(S) /\ Len(Tail(s)) = Len(s) - 1
  BY HeadTailProperties
<1>2. Len(s) \in Nat /\ Len(<<>>) = 0
  OBVIOUS
<1>3. Len(s) > 1 => Tail(s) # <<>>
  BY <1>1, <1>2
<1> QED
  BY <1>1, <1>3

-----------------------------------------------------------------------------
(* What a step does to the chip and to the handle. *)
Moved(s, c, b) ==
  /\ s.do = "cell" => b.on = (c.on \ s.of) \union s.is
  /\ s.do \notin {"cell", "load"} => b.on = c.on
  /\ s.do = "flush" => b.queued = {}
  /\ b.queued \subseteq c.queued

Powered(s, c, b) ==
  /\ s.do = "wake" => ~ b.asleep
  /\ s.do \notin {"init_reset", "reset", "sleep"} /\ ~ c.asleep => ~ b.asleep
  /\ s.do = "load" => b.loaded
  /\ s.do \notin {"init_reset", "reset"} /\ c.loaded => b.loaded
  /\ s.do \in {"run", "fifo_on", "biases"} => b.fifo
  /\ s.do \notin {"flush", "init_reset", "reset"} /\ c.fifo => b.fifo

Lighted(s, c, b) ==
  /\ s.do = "irq_on" => b.irq = TRUE
  /\ s.do = "unmask_irq" => b.irq = saved
  /\ s.do \in {"irq_on", "unmask_irq", "mask_irq", "init_reset", "reset", "biases"}
       \/ b.irq = c.irq

LEMMA OutcomesAre ==
  ASSUME NEW c \in Chips, NEW s \in AStep, NEW b \in Outcomes(s, c),
         saved \in BOOLEAN, handle \in Handles
  PROVE  /\ b \in Chips
         /\ s.do \in {"sleep", "init_reset"} => b.asleep
         /\ s.do \in {"poll", "close"} => b = c
         /\ Moved(s, c, b) /\ Powered(s, c, b) /\ Lighted(s, c, b)
<1>1. CASE s.do = "cell"
  <2>1. b \in {[c EXCEPT !.on = (@ \ s.of) \union s.is]}
    BY <1>1, Zenon DEF Outcomes
  <2> QED
    BY <1>1, <2>1 DEF Chips, AStep, Moved, Powered, Lighted
<1>2. CASE s.do = "mask_irq"
  <2>1. b \in {[c EXCEPT !.irq = FALSE]}
    BY <1>2, Zenon DEF Outcomes
  <2> QED
    BY <1>2, <2>1 DEF Chips, Moved, Powered, Lighted
<1>3. CASE s.do = "flush"
  <2>1. b \in Flush(c)
    BY <1>3, Zenon DEF Outcomes
  <2> QED
    BY <1>3, <2>1 DEF Chips, Flush, Moved, Powered, Lighted
<1>4. CASE s.do = "run"
  <2>1. b \in Run(c)
    BY <1>4, Zenon DEF Outcomes
  <2> QED
    BY <1>4, <2>1, ZenonT(40) DEF Chips, Run, Handles, Moved, Powered, Lighted
<1>5. CASE s.do = "unmask_irq"
  <2>1. b \in {[c EXCEPT !.irq = saved]}
    BY <1>5, Zenon DEF Outcomes
  <2> QED
    BY <1>5, <2>1 DEF Chips, Moved, Powered, Lighted
<1>6. CASE s.do = "init_reset"
  <2>1. b \in Reset(c)
    BY <1>6, Zenon DEF Outcomes
  <2> QED
    BY <1>6, <2>1 DEF Chips, Reset, Moved, Powered, Lighted
<1>7. CASE s.do = "reset"
  <2>1. b \in Reset(c)
    BY <1>7, Zenon DEF Outcomes
  <2> QED
    BY <1>7, <2>1 DEF Chips, Reset, Moved, Powered, Lighted
<1>8. CASE s.do = "wake"
  <2>1. b \in {[c EXCEPT !.asleep = FALSE]}
    BY <1>8, Zenon DEF Outcomes
  <2> QED
    BY <1>8, <2>1 DEF Chips, Moved, Powered, Lighted
<1>9. CASE s.do = "biases"
  <2>1. b \in {[c EXCEPT !.asleep = FALSE, !.irq = FALSE, !.dmp = FALSE,
                             !.fifo = TRUE, !.queued = {}]}
    BY <1>9, Zenon DEF Outcomes
  <2> QED
    BY <1>9, <2>1 DEF Chips, Moved, Powered, Lighted
<1>10. CASE s.do = "fifo_on"
  <2>1. b \in {[c EXCEPT !.fifo = TRUE]}
    BY <1>10, Zenon DEF Outcomes
  <2> QED
    BY <1>10, <2>1 DEF Chips, Moved, Powered, Lighted
<1>11. CASE s.do = "irq_on"
  <2>1. b \in {[c EXCEPT !.irq = TRUE]}
    BY <1>11, Zenon DEF Outcomes
  <2> QED
    BY <1>11, <2>1 DEF Chips, Moved, Powered, Lighted
<1>12. CASE s.do = "load"
  <2>1. b \in {[c EXCEPT !.loaded = TRUE, !.on = m] : m \in Firmware}
    BY <1>12, Zenon DEF Outcomes
  <2> QED
    <3>1. PICK m \in Firmware : b = [c EXCEPT !.loaded = TRUE, !.on = m]
      BY <2>1, Zenon
    <3>2. m \in SUBSET Feature
      BY DmpAssumption
    <3> QED
      BY <1>12, <3>1, <3>2 DEF Chips, Moved, Powered, Lighted
<1>13. CASE s.do = "dmp_on"
  <2>1. b \in {[c EXCEPT !.dmp = TRUE]}
    BY <1>13, Zenon DEF Outcomes
  <2> QED
    BY <1>13, <2>1 DEF Chips, Moved, Powered, Lighted
<1>14. CASE s.do = "dmp_off"
  <2>1. b \in {[c EXCEPT !.dmp = FALSE]}
    BY <1>14, Zenon DEF Outcomes
  <2> QED
    BY <1>14, <2>1 DEF Chips, Moved, Powered, Lighted
<1>15. CASE s.do = "drain"
  <2>1. b \in {[c EXCEPT !.queued = {}]}
    BY <1>15, Zenon DEF Outcomes
  <2> QED
    BY <1>15, <2>1 DEF Chips, Moved, Powered, Lighted
<1>16. CASE s.do = "sleep"
  <2>1. b \in {[c EXCEPT !.asleep = TRUE]}
    BY <1>16, Zenon DEF Outcomes
  <2> QED
    BY <1>16, <2>1 DEF Chips, Moved, Powered, Lighted
<1>17. CASE s.do \in {"write", "mask", "identify", "poll", "start", "close", "clear"}
  <2>1. b \in {c}
    BY <1>17, Zenon DEF Outcomes
  <2> QED
    BY <1>17, <2>1 DEF Moved, Powered, Lighted
<1> QED
  BY <1>1, <1>2, <1>3, <1>4, <1>5, <1>6, <1>7, <1>8, <1>9,
     <1>10, <1>11, <1>12, <1>13, <1>14, <1>15, <1>16, <1>17 DEF AStep, Doing

Stored(s, h, k) ==
  /\ s.do = "mask" => k.mask = (h.mask \ s.of) \union s.is
  /\ s.do \notin {"mask", "clear"} => k.mask = h.mask
  /\ s.do \notin {"clear", "close"} /\ h.inited => k.inited
  /\ s.do = "poll" => k.inited
  /\ s.do \notin {"clear", "poll", "close"} /\ h.dmp_inited => k.dmp_inited
  /\ s.do = "start" => k.dmp_inited

LEMMA HandledIs ==
  ASSUME NEW h \in Handles, NEW s \in AStep
  PROVE  /\ Handled(s, h) \in Handles
         /\ s \in Opened => Handled(s, h).inited = h.inited
         /\ s \in NoStart /\ (h.dmp_inited => h.inited) =>
              (Handled(s, h).dmp_inited => Handled(s, h).inited)
         /\ s.do \in {"clear", "close"} =>
              ~Handled(s, h).inited /\ ~Handled(s, h).dmp_inited
         /\ s.do = "poll" => Handled(s, h).inited
         /\ s.do \in {"identify", "init_reset", "sleep"} => Handled(s, h) = h
         /\ Stored(s, h, Handled(s, h))
<1>1. CASE s.do = "mask"
  BY <1>1 DEF Stored, Handled, Handles, AStep
<1>2. CASE s.do = "clear"
  BY <1>2 DEF Stored, Handled, Handles, Opened
<1>3. CASE s.do = "poll"
  BY <1>3 DEF Stored, Handled, Handles, Opened
<1>4. CASE s.do = "start"
  BY <1>4 DEF Stored, Handled, Handles, NoStart
<1>5. CASE s.do = "close"
  BY <1>5 DEF Stored, Handled, Handles, Opened
<1>6. CASE s.do \notin {"mask", "clear", "poll", "start", "close"}
  <2>1. Handled(s, h) = h
    BY <1>6 DEF Handled
  <2> QED
    BY <1>6, <2>1 DEF Stored
<1> QED
  BY <1>1, <1>2, <1>3, <1>4, <1>5, <1>6

-----------------------------------------------------------------------------
LEMMA InductiveInit == Init => IInv
<1> SUFFICES ASSUME Init PROVE IInv
  OBVIOUS
<1>1. Types
  <2>1. handle \in Handles /\ chip \in Chips
    BY DEF Init, Handles, Chips
  <2>2. 0 \in 0 .. MaxSlips
    BY DmpAssumption
  <2> QED
    BY <2>1, <2>2 DEF Init, Types
<1>2. Flags /\ Todo /\ InitFailsClosed
  BY DEF Init, Flags, Todo, InitFailsClosed, Idle, NoCall
<1> QED
  BY <1>1, <1>2 DEF IInv

(* A call that begins. *)
LEMMA AfterBegin ==
  ASSUME IInv, NEW name, NEW steps, Begin(name, steps), name # "none",
         name = "dmp_init" => steps = DmpInit,
         name = "load" => handle.inited /\ steps # <<>> /\ steps \in Seq(Opened),
         name \notin {"dmp_init", "load"} => steps # <<>> /\ steps \in Seq(NoStart)
  PROVE  IInv'
<1>1. /\ call' = name /\ todo' = steps /\ slips' = 0 /\ failed' = "none"
      /\ saved' = FALSE /\ handle' = handle /\ chip' = chip /\ since' = since
  BY DEF Begin
<1>2. Types' /\ Flags'
  <2>1. 0 \in 0 .. MaxSlips
    BY DmpAssumption
  <2>2. Types'
    BY <1>1, <2>1 DEF IInv, Types
  <2>3. Flags'
    BY <1>1, Zenon DEF IInv, Flags
  <2> QED
    BY <2>2, <2>3
<1>3. name = "dmp_init" => InitRuns'
  <2> SUFFICES ASSUME name = "dmp_init" PROVE InitRuns'
    OBVIOUS
  <2>1. Opens(todo, 4)'
    BY <1>1, InitOpens DEF Opens
  <2>2. 4 \in 0 .. 4 /\ 4 \notin 1 .. 3 /\ 4 # 1 /\ 4 # 0
    OBVIOUS
  <2> QED
    BY <1>1, <2>1, <2>2, Zenon DEF InitRuns
<1>4. Todo'
  BY <1>1, <1>3 DEF Todo
<1>5. InitFailsClosed'
  BY <1>1 DEF InitFailsClosed, Idle
<1> QED
  BY <1>2, <1>4, <1>5 DEF IInv

LEMMA AfterCall == ASSUME IInv, Call PROVE IInv'
<1>1. /\ ResetFifo # <<>> /\ ResetFifo \in Seq(NoStart)
      /\ SelfTest # <<>> /\ SelfTest \in Seq(NoStart)
      /\ \A m : SetFeature(m) # <<>> /\ SetFeature(m) \in Seq(NoStart)
      /\ \A f \in Quaternion : \A m :
           SetQuaternion(f, m) # <<>> /\ SetQuaternion(f, m) \in Seq(NoStart)
      /\ \A m : SetGyroCalibrate(m) # <<>> /\ SetGyroCalibrate(m) \in Seq(NoStart)
  BY QuietCalls, QuietSeq, Zenon
<1>2. \A x \in Doing \ {"start"} : Step(x) \in NoStart
  BY StepsAre DEF NoStart
<1>3. CASE CallDmpInit
  BY <1>3, AfterBegin DEF CallDmpInit
<1>4. CASE CallInit
  <2>1. Init6050 # <<>> /\ Init6050 \in Seq(NoStart)
    BY <1>2 DEF Init6050, Doing
  <2> QED
    BY <1>4, <2>1, AfterBegin DEF CallInit
<1>5. CASE CallLoad
  <2>1. Step("load") \in Opened /\ Step("start") \in Opened
    BY StepsAre DEF Doing, Opened
  <2>2. LoadFirmware # <<>> /\ LoadFirmware \in Seq(Opened)
    BY <2>1 DEF LoadFirmware
  <2> QED
    BY <1>5, <2>2, AfterBegin DEF CallLoad, Inited
<1>6. CASE CallSelfTest
  BY <1>6, <1>1, AfterBegin DEF CallSelfTest
<1>7. CASE CallForceReset
  BY <1>7, <1>1, AfterBegin DEF CallForceReset
<1>8. CASE CallDeinit
  <2>1. Deinit # <<>> /\ Deinit \in Seq(NoStart)
    BY <1>2 DEF Deinit, Doing
  <2> QED
    BY <1>8, <2>1, AfterBegin DEF CallDeinit
<1>9. CASE CallSetFeature
  BY <1>9, <1>1, AfterBegin DEF CallSetFeature
<1>10. CASE CallSetQuaternion
  BY <1>10, <1>1, AfterBegin DEF CallSetQuaternion
<1>11. CASE CallSetGyroCalibrate
  BY <1>11, <1>1, AfterBegin DEF CallSetGyroCalibrate
<1>12. CASE CallSetEnable
  <2>1. PICK x \in {"dmp_on", "dmp_off"} : Begin("set_enable", <<Step(x)>>)
    BY <1>12 DEF CallSetEnable
  <2>2. <<Step(x)>> # <<>> /\ <<Step(x)>> \in Seq(NoStart)
    BY <1>2 DEF Doing
  <2> QED
    BY <2>1, <2>2, AfterBegin
<1>13. CASE CallRead
  <2>1. <<Step("drain")>> # <<>> /\ <<Step("drain")>> \in Seq(NoStart)
    BY <1>2 DEF Doing
  <2> QED
    BY <1>13, <1>1, <2>1, AfterBegin DEF CallRead
<1> QED
  BY <1>3, <1>4, <1>5, <1>6, <1>7, <1>8, <1>9, <1>10, <1>11, <1>12, <1>13 DEF Call

-----------------------------------------------------------------------------
(* What comes next in a call that is running. *)
LEMMA NextStep ==
  ASSUME IInv, todo # <<>>
  PROVE  /\ Head(todo) \in AStep /\ call # "none"
         /\ call \notin {"dmp_init", "load"} =>
              Head(todo) \in NoStart
         /\ call = "load" => Head(todo) \in Opened
<1>1. call # "none"
  BY DEF IInv, Todo
<1>2. CASE call = "dmp_init" /\ InitRuns
  BY <1>2, OpensTail DEF InitRuns
<1>3. CASE call = "dmp_init" /\ InitCloses
  <2>1. Head(todo) \in {Step("sleep"), Step("close")}
    BY <1>3 DEF InitCloses
  <2> QED
    BY <1>3, <2>1, StepsAre DEF Doing
<1>4. CASE call = "load"
  <2>1. Head(todo) \in Opened
    BY <1>4, SeqTail DEF IInv, Todo
  <2> QED
    BY <1>4, <2>1 DEF Opened
<1>5. CASE call \notin {"dmp_init", "load"}
  <2>1. Head(todo) \in NoStart
    BY <1>1, <1>5, SeqTail DEF IInv, Todo
  <2> QED
    BY <1>1, <1>5, <2>1 DEF NoStart
<1> QED
  BY <1>1, <1>2, <1>3, <1>4, <1>5 DEF IInv, Todo

LEMMA AdvanceTypes ==
  ASSUME IInv, Advance
  PROVE  Types'
<1>1. /\ Head(todo) \in AStep /\ chip' \in Outcomes(Head(todo), chip)
      /\ handle' = Handled(Head(todo), handle)
      /\ slips' = slips
  BY NextStep DEF Advance
<1>2. chip' \in Chips /\ handle' \in Handles
  BY <1>1, OutcomesAre, HandledIs DEF IInv, Types
<1>3. saved' \in BOOLEAN
  BY DEF Advance, IInv, Types, Chips
<1>4. since' \in {"nothing", "feature", "init"}
  BY DEF Advance, Established, IInv, Types
<1> QED
  BY <1>1, <1>2, <1>3, <1>4 DEF IInv, Types

(* dmp_init, step by step. *)
LEMMA AdvanceInit ==
  ASSUME IInv, Advance, call = "dmp_init", InitRuns
  PROVE  Flags' /\ Todo' /\ InitFailsClosed'
<1> DEFINE s == Head(todo)
<1>1. PICK d \in 0 .. 4 : /\ Opens(todo, d)
                          /\ d \in 1 .. 3 => ~handle.inited
                          /\ d = 1 => chip.asleep
                          /\ d = 0 => handle.inited
  BY DEF InitRuns
<1>2. /\ chip' \in Outcomes(s, chip) /\ handle' = Handled(s, handle)
      /\ slips' = slips /\ failed' = failed /\ slips = 0 /\ failed = "none"
      /\ Len(todo) > 1 => todo' = Tail(todo) /\ call' = call
      /\ ~(Len(todo) > 1) => /\ call' = "none" /\ todo' = <<>>
                             /\ last'.ok = (failed = "none")
  BY DEF Advance, Return, InitRuns
<1>3. s \in AStep /\ handle \in Handles /\ chip \in Chips /\ saved \in BOOLEAN
  BY NextStep DEF Advance, IInv, Types
<1> HIDE DEF s
<1>4. CASE d # 0
  <2>1. s.do = Opening[5 - d] /\ Len(todo) > 1 /\ Opens(Tail(todo), d - 1)
    BY <1>1, <1>4, OpensTail DEF s
  <2>2. todo' = Tail(todo) /\ call' = "dmp_init" /\ Opens(todo, d - 1)'
    BY <1>2, <2>1 DEF Opens
  <2>3. /\ d = 4 => s.do = "clear"
        /\ d = 3 => s.do = "identify"
        /\ d = 2 => s.do = "init_reset"
        /\ d = 1 => s.do = "poll"
    BY <2>1 DEF Opening
  <2>4. s.do \in {"clear", "identify", "init_reset", "poll"}
    BY <1>1, <1>4, <2>3
  <2>5. Flags'
    <3>1. s \in NoStart
      BY <1>3, <2>4 DEF NoStart
    <3> QED
      BY <1>2, <1>3, <3>1, HandledIs DEF IInv, Flags
  <2>6. d - 1 \in 1 .. 3 => ~handle'.inited
    BY <1>1, <1>2, <1>3, <1>4, <2>3, HandledIs
  <2>7. d - 1 = 1 => chip'.asleep
    BY <1>1, <1>2, <1>3, <2>3, OutcomesAre
  <2>8. d - 1 = 0 => handle'.inited
    BY <1>1, <1>2, <1>3, <2>3, HandledIs
  <2>9. d - 1 \in 0 .. 4
    BY <1>1, <1>4
  <2>10. InitRuns'
    BY <1>2, <2>2, <2>6, <2>7, <2>8, <2>9, Zenon DEF InitRuns
  <2>11. Todo' /\ InitFailsClosed'
    BY <2>2, <2>10 DEF Todo, InitFailsClosed, Idle
  <2> QED
    BY <2>5, <2>11
<1>5. CASE d = 0
  <2>1. s \in Opened /\ (Len(todo) > 1 => Opens(Tail(todo), 0))
    BY <1>1, <1>5, OpensTail DEF s
  <2>2. handle.inited /\ handle'.inited = handle.inited
    BY <1>1, <1>2, <1>3, <1>5, <2>1, HandledIs
  <2>3. Flags'
    BY <2>2 DEF Flags
  <2>4. CASE Len(todo) > 1
    <3>1. todo' = Tail(todo) /\ call' = "dmp_init" /\ Opens(todo, 0)'
      BY <1>2, <2>1, <2>4 DEF Opens
    <3>2. 0 \in 0 .. 4 /\ 0 \notin 1 .. 3 /\ 0 # 1
      OBVIOUS
    <3>3. InitRuns'
      BY <1>2, <2>2, <3>1, <3>2, Zenon DEF InitRuns
    <3> QED
      BY <2>3, <3>1, <3>3 DEF Todo, InitFailsClosed, Idle
  <2>5. CASE ~(Len(todo) > 1)
    BY <1>2, <2>3, <2>5 DEF Todo, InitFailsClosed
  <2> QED
    BY <2>4, <2>5
<1> QED
  BY <1>4, <1>5

(* and the deinit that follows a failure. *)
LEMMA AdvanceClose ==
  ASSUME IInv, Advance, call = "dmp_init", InitCloses
  PROVE  Flags' /\ Todo' /\ InitFailsClosed'
<1> DEFINE s == Head(todo)
<1>1. /\ chip' \in Outcomes(s, chip) /\ handle' = Handled(s, handle)
      /\ slips' = slips /\ failed' = failed /\ slips = 1 /\ failed \in Doing
      /\ handle.inited
      /\ Len(todo) > 1 => todo' = Tail(todo) /\ call' = call
      /\ ~(Len(todo) > 1) => call' = "none" /\ todo' = <<>>
  BY DEF Advance, Return, InitCloses
<1>2. s \in AStep /\ handle \in Handles /\ chip \in Chips /\ saved \in BOOLEAN
  BY NextStep DEF Advance, IInv, Types
<1>3. CASE todo = <<Step("sleep"), Step("close")>>
  <2>1. s = Step("sleep") /\ Len(todo) > 1 /\ Tail(todo) = <<Step("close")>>
    BY <1>3
  <2>2. s.do = "sleep"
    BY <2>1, StepsAre DEF Doing
  <2> HIDE DEF s
  <2>3. handle' = handle /\ chip'.asleep
    BY <1>1, <1>2, <2>2, HandledIs, OutcomesAre
  <2>4. InitCloses'
    BY <1>1, <2>1, <2>3 DEF InitCloses
  <2> QED
    BY <1>1, <2>1, <2>3, <2>4 DEF IInv, Flags, Todo, InitFailsClosed, Idle
<1>4. CASE todo = <<Step("close")>> /\ chip.asleep
  <2>1. s = Step("close") /\ ~(Len(todo) > 1)
    BY <1>4
  <2>2. s.do = "close"
    BY <2>1, StepsAre DEF Doing
  <2> HIDE DEF s
  <2>3. ~handle'.inited /\ ~handle'.dmp_inited /\ chip' = chip
    BY <1>1, <1>2, <2>2, HandledIs, OutcomesAre
  <2>4. call' = "none" /\ todo' = <<>> /\ chip'.asleep
    BY <1>1, <1>4, <2>1, <2>3
  <2> QED
    BY <2>3, <2>4 DEF Flags, Todo, InitFailsClosed
<1> QED
  BY <1>3, <1>4 DEF InitCloses

LEMMA AdvanceOther ==
  ASSUME IInv, Advance, call # "dmp_init"
  PROVE  Flags' /\ Todo' /\ InitFailsClosed'
<1> DEFINE s == Head(todo)
<1>1. /\ todo # <<>> /\ handle' = Handled(s, handle)
      /\ Len(todo) > 1 => todo' = Tail(todo) /\ call' = call
      /\ ~(Len(todo) > 1) => call' = "none" /\ todo' = <<>> /\ last'.call = call
  BY DEF Advance, Return
<1>2. /\ s \in AStep /\ handle \in Handles /\ call # "none"
      /\ call # "load" => s \in NoStart
      /\ call = "load" => s \in Opened
  BY <1>1, NextStep DEF IInv, Types
<1>3. call = "load" => handle.inited /\ todo \in Seq(Opened)
  BY DEF IInv, Todo
<1>4. call # "load" => todo \in Seq(NoStart)
  BY <1>2 DEF IInv, Todo
<1> HIDE DEF s
<1>5. Flags' /\ (call = "load" => handle'.inited)
  BY <1>1, <1>2, <1>3, HandledIs DEF IInv, Flags
<1>6. Todo'
  <2>1. CASE call = "load"
    <3>1. Tail(todo) \in Seq(Opened) /\ (Len(todo) > 1 => Tail(todo) # <<>>)
      BY <1>1, <1>3, <2>1, SeqTail
    <3> QED
      BY <1>1, <1>5, <2>1, <3>1 DEF Todo
  <2>2. CASE call # "load"
    <3>1. Tail(todo) \in Seq(NoStart) /\ (Len(todo) > 1 => Tail(todo) # <<>>)
      BY <1>1, <1>4, <2>2, SeqTail
    <3> QED
      BY <1>1, <1>2, <2>2, <3>1 DEF Todo
  <2> QED
    BY <2>1, <2>2
<1>7. InitFailsClosed'
  BY <1>1, <1>2 DEF InitFailsClosed, Idle
<1> QED
  BY <1>5, <1>6, <1>7

LEMMA AfterAdvance == ASSUME IInv, Advance PROVE IInv'
<1>1. call = "dmp_init" => InitRuns \/ InitCloses
  BY DEF IInv, Todo
<1> QED
  BY <1>1, AdvanceTypes, AdvanceInit, AdvanceClose, AdvanceOther DEF IInv

-----------------------------------------------------------------------------
(* A transfer that fails. *)
LEMMA SlipTypes == ASSUME IInv, Slip PROVE Types' /\ Flags'
<1>1. /\ Head(todo) \in AStep
      /\ chip' \in {chip} \union Outcomes(Head(todo), chip)
      /\ handle' = handle /\ saved' = saved /\ since' = "nothing"
      /\ slips' = slips + 1 /\ slips < MaxSlips /\ slips \in 0 .. MaxSlips
  BY NextStep DEF Slip, IInv, Types
<1>2. chip' \in Chips
  BY <1>1, OutcomesAre DEF IInv, Types
<1>3. slips' \in 0 .. MaxSlips
  BY <1>1, DmpAssumption
<1>4. Flags'
  BY <1>1, Zenon DEF IInv, Flags
<1> QED
  BY <1>1, <1>2, <1>3, <1>4 DEF IInv, Types

LEMMA SlipInit ==
  ASSUME IInv, Slip, call = "dmp_init", InitRuns
  PROVE  Todo' /\ InitFailsClosed'
<1> DEFINE s == Head(todo)
<1>1. PICK d \in 0 .. 4 : /\ Opens(todo, d)
                          /\ d \in 1 .. 3 => ~handle.inited
                          /\ d = 1 => chip.asleep
                          /\ d = 0 => handle.inited
  BY DEF InitRuns
<1>2. /\ s \in AStep /\ CanSlip(s) /\ handle' = handle
      /\ slips' = 1 /\ failed = "none" /\ failed' = s.do
      /\ chip' \in {chip} \union Outcomes(s, chip)
  BY NextStep DEF Slip, InitRuns
<1>3. CASE d = 0
  <2>1. todo' = <<Step("sleep"), Step("close")>> /\ call' = call /\ handle.inited
    BY <1>1, <1>3, <1>2 DEF Slip, Deinit
  <2>2. InitCloses'
    BY <1>2, <2>1 DEF InitCloses, AStep
  <2> QED
    BY <2>1, <2>2 DEF Todo, InitFailsClosed, Idle
<1>4. CASE d # 0
  <2>1. s.do = Opening[5 - d]
    BY <1>1, <1>4, OpensTail
  <2> HIDE DEF s
  <2>2. /\ d = 4 => s.do = "clear"
        /\ d = 3 => s.do = "identify"
        /\ d = 2 => s.do = "init_reset"
        /\ d = 1 => s.do = "poll"
    BY <2>1 DEF Opening
  <2>3. d # 4
    BY <1>2, <2>2 DEF CanSlip
  <2>4. ~handle.inited
    BY <1>1, <1>4, <2>3
  <2>5. call' = "none" /\ todo' = <<>> /\ last'.failed = s.do
    BY <1>2, <2>4 DEF Slip, Return
  <2>6. ~handle'.inited /\ ~handle'.dmp_inited
    BY <1>2, <2>4 DEF IInv, Flags
  <2>7. chip'.asleep \/ s.do \in {"identify", "init_reset"}
    <3>1. CASE d = 1
      BY <1>1, <1>2, <2>2, <3>1, OutcomesAre DEF IInv, Types
    <3>2. CASE d # 1
      BY <1>1, <1>4, <2>2, <2>3, <3>2
    <3> QED
      BY <3>1, <3>2
  <2> QED
    BY <2>5, <2>6, <2>7 DEF Todo, InitFailsClosed
<1> QED
  BY <1>3, <1>4

LEMMA AfterSlip == ASSUME IInv, Slip PROVE IInv'
<1>1. CASE call = "dmp_init" /\ InitRuns
  BY <1>1, SlipTypes, SlipInit DEF IInv
<1>2. CASE call = "dmp_init" /\ InitCloses
  <2>1. failed # "none" /\ slips = 1
    BY <1>2 DEF InitCloses, Doing
  <2>2. call' = "none" /\ todo' = <<>> /\ last'.slips = 2
    BY <2>1 DEF Slip, Return
  <2> QED
    BY <2>2, SlipTypes DEF IInv, Todo, InitFailsClosed
<1>3. CASE call # "dmp_init"
  <2>1. call # "none"
    BY NextStep DEF Slip
  <2>2. call' = "none" /\ todo' = <<>> /\ last'.call = call
    BY <1>3 DEF Slip, Return
  <2> QED
    BY <1>3, <2>2, SlipTypes DEF IInv, Todo, InitFailsClosed
<1> QED
  BY <1>1, <1>2, <1>3 DEF IInv, Todo

LEMMA AfterProduce == ASSUME IInv, Produce PROVE IInv'
<1>1. /\ chip' = [chip EXCEPT !.queued = {Layout(chip.on)}]
      /\ handle' = handle /\ call' = call /\ todo' = todo /\ saved' = saved
      /\ slips' = slips /\ failed' = failed /\ last' = last /\ since' = since
  BY DEF Produce
<1>2. chip' \in Chips /\ chip'.asleep = chip.asleep
  BY <1>1 DEF IInv, Types, Chips, Layout
<1>3. Types' /\ Flags'
  <2>1. Types'
    BY <1>1, <1>2, Zenon DEF IInv, Types
  <2>2. Flags'
    BY <1>1, Zenon DEF IInv, Flags
  <2> QED
    BY <2>1, <2>2
<1>4. Todo'
  <2>1. InitRuns => InitRuns'
    BY <1>1, <1>2, Zenon DEF InitRuns
  <2>2. InitCloses => InitCloses'
    BY <1>1, <1>2, Zenon DEF InitCloses
  <2> QED
    BY <1>1, <2>1, <2>2, Zenon DEF IInv, Todo
<1>5. InitFailsClosed'
  BY <1>1, <1>2, Zenon DEF IInv, InitFailsClosed, Idle
<1> QED
  BY <1>3, <1>4, <1>5 DEF IInv

LEMMA InductiveStep == ASSUME IInv, [Next]_vars PROVE IInv'
<1>1. CASE UNCHANGED vars
  <2>1. Types' /\ Flags' /\ InitFailsClosed'
    BY <1>1, Zenon DEF vars, IInv, Types, Flags, InitFailsClosed, Idle
  <2>2. InitRuns' = InitRuns /\ InitCloses' = InitCloses
    BY <1>1 DEF vars, InitRuns, InitCloses
  <2>3. Todo'
    BY <1>1, <2>2, Zenon DEF vars, IInv, Todo
  <2> QED
    BY <2>1, <2>3 DEF IInv
<1> QED
  BY <1>1, AfterCall, AfterAdvance, AfterSlip, AfterProduce DEF Next

LEMMA IInvSuffices == IInv => TypeOK
<1> SUFFICES ASSUME IInv PROVE TypeOK
  OBVIOUS
<1>1. (call = "none") = (todo = <<>>)
  <2>1. InitRuns => todo # <<>>
    BY DEF InitRuns, Opens
  <2>2. InitCloses => todo # <<>>
    BY DEF InitCloses
  <2> QED
    BY <2>1, <2>2 DEF IInv, Todo
<1> QED
  BY <1>1 DEF IInv, Types, Flags, TypeOK, Handles, Chips

-----------------------------------------------------------------------------
(* What the steps still to take will have done: one of "on" is to come, after
   which there is none of "off"; or there is none of "off" at all. *)
Comes(s, on, off) ==
  \E i \in 1 .. Len(s) : s[i] \in on /\ \A j \in i + 1 .. Len(s) : s[j] \notin off
Stays(s, off) == \A i \in 1 .. Len(s) : s[i] \notin off

LEMMA Onward ==
  ASSUME NEW S, NEW s \in Seq(S), s # <<>>, NEW on, NEW off
  PROVE  /\ Stays(s, off) => Head(s) \notin off /\ Stays(Tail(s), off)
         /\ Comes(s, on, off) => \/ Comes(Tail(s), on, off)
                                 \/ Head(s) \in on /\ Stays(Tail(s), off)
<1>1. /\ Len(s) \in Nat /\ Len(s) >= 1 /\ Head(s) = s[1]
      /\ Len(Tail(s)) = Len(s) - 1
      /\ \A i \in 1 .. Len(Tail(s)) : Tail(s)[i] = s[i + 1]
  BY HeadTailProperties, EmptySeq
<1>2. ASSUME Stays(s, off) PROVE Head(s) \notin off /\ Stays(Tail(s), off)
  BY <1>1, <1>2 DEF Stays
<1>3. ASSUME Comes(s, on, off)
      PROVE  \/ Comes(Tail(s), on, off)
             \/ Head(s) \in on /\ Stays(Tail(s), off)
  <2>1. PICK i \in 1 .. Len(s) :
          s[i] \in on /\ \A j \in i + 1 .. Len(s) : s[j] \notin off
    BY <1>3 DEF Comes
  <2>2. CASE i = 1
    BY <1>1, <2>1, <2>2 DEF Stays
  <2>3. CASE i # 1
    <3>1. i - 1 \in 1 .. Len(Tail(s)) /\ Tail(s)[i - 1] = s[i]
      BY <1>1, <2>3
    <3>2. ASSUME NEW j \in (i - 1) + 1 .. Len(Tail(s)) PROVE Tail(s)[j] \notin off
      BY <1>1, <2>1, <2>3, <3>2
    <3> QED
      BY <2>1, <3>1, <3>2 DEF Comes
  <2> QED
    BY <2>2, <2>3
<1> QED
  BY <1>2, <1>3

LEMMA StaysIn ==
  ASSUME NEW S, NEW s \in Seq(S), NEW off, S \intersect off = {}
  PROVE  Stays(s, off)
BY ElementOfSeq DEF Stays

LEMMA Joined ==
  ASSUME NEW S, NEW s \in Seq(S), NEW t \in Seq(S), NEW on, NEW off
  PROVE  /\ Stays(s, off) /\ Stays(t, off) => Stays(s \o t, off)
         /\ Comes(s, on, off) /\ Stays(t, off) => Comes(s \o t, on, off)
         /\ Comes(t, on, off) => Comes(s \o t, on, off)
<1>1. /\ Len(s) \in Nat /\ Len(t) \in Nat /\ Len(s \o t) = Len(s) + Len(t)
      /\ \A i \in 1 .. Len(s) + Len(t) :
           (s \o t)[i] = IF i <= Len(s) THEN s[i] ELSE t[i - Len(s)]
  BY ConcatProperties, LenProperties
<1>2. /\ \A i \in 1 .. Len(s) : (s \o t)[i] = s[i]
      /\ \A i \in Len(s) + 1 .. Len(s) + Len(t) :
           (s \o t)[i] = t[i - Len(s)] /\ i - Len(s) \in 1 .. Len(t)
      /\ \A i \in 1 .. Len(t) : (s \o t)[i + Len(s)] = t[i]
  BY <1>1
<1> DEFINE r == s \o t
<1>3. Len(r) = Len(s) + Len(t)
  BY <1>1
<1> HIDE DEF r
<1>4. ASSUME Stays(s, off), Stays(t, off) PROVE Stays(r, off)
  <2> SUFFICES ASSUME NEW i \in 1 .. Len(s) + Len(t) PROVE r[i] \notin off
    BY <1>3 DEF Stays
  <2>1. CASE i <= Len(s)
    BY <1>1, <1>2, <1>4, <2>1 DEF Stays, r
  <2>2. CASE ~(i <= Len(s))
    BY <1>1, <1>2, <1>4, <2>2 DEF Stays, r
  <2> QED
    BY <2>1, <2>2
<1>5. ASSUME Comes(s, on, off), Stays(t, off) PROVE Comes(r, on, off)
  <2>1. PICK i \in 1 .. Len(s) :
          s[i] \in on /\ \A j \in i + 1 .. Len(s) : s[j] \notin off
    BY <1>5 DEF Comes
  <2>2. r[i] \in on /\ i \in 1 .. Len(r)
    BY <1>1, <1>2, <1>3, <2>1 DEF r
  <2>3. ASSUME NEW j \in i + 1 .. Len(r) PROVE r[j] \notin off
    <3>1. CASE j <= Len(s)
      BY <1>1, <1>2, <2>1, <3>1 DEF r
    <3>2. CASE ~(j <= Len(s))
      BY <1>1, <1>2, <1>3, <1>5, <3>2 DEF Stays, r
    <3> QED
      BY <3>1, <3>2
  <2> QED
    BY <2>2, <2>3 DEF Comes
<1>6. ASSUME Comes(t, on, off) PROVE Comes(r, on, off)
  <2>1. PICK i \in 1 .. Len(t) :
          t[i] \in on /\ \A j \in i + 1 .. Len(t) : t[j] \notin off
    BY <1>6 DEF Comes
  <2>2. r[i + Len(s)] \in on /\ i + Len(s) \in 1 .. Len(r)
    BY <1>1, <1>2, <1>3, <2>1 DEF r
  <2>3. ASSUME NEW j \in (i + Len(s)) + 1 .. Len(r) PROVE r[j] \notin off
    <3>1. j \in Len(s) + 1 .. Len(s) + Len(t) /\ j - Len(s) \in i + 1 .. Len(t)
      BY <1>1, <1>3, <2>1
    <3> QED
      BY <1>2, <2>1, <3>1 DEF r
  <2> QED
    BY <2>2, <2>3 DEF Comes
<1> QED
  BY <1>4, <1>5, <1>6 DEF r

-----------------------------------------------------------------------------
(* What a call promises of chip c and handle h while s is what it has still to
   do.  Every write is made of the mask m that the call is to set; *)
Do(names) == {x \in AStep : x.do \in names}
CellsFor(f) == {x \in Do({"cell"}) : f \in x.of}
MasksFor(f) == {x \in Do({"mask"}) : f \in x.of}
Agreeing(m) == {x \in AStep : x.do \in {"cell", "mask"} => x.is = m \intersect x.of}

(* memory and mask have it already, feature by feature, or will; *)
Settles(s, m, c, h) ==
  \A f \in Feature :
    /\ \/ Comes(s, CellsFor(f), Do({"load"}))
       \/ (f \in c.on <=> f \in m) /\ Stays(s, Do({"load"}))
    /\ \/ Comes(s, MasksFor(f), Do({"clear"}))
       \/ (f \in h.mask <=> f \in m) /\ Stays(s, Do({"clear"}))

(* and the fifo is emptied after the last write that changes the layout. *)
Moves == Do({"load"}) \union {x \in Do({"cell"}) : x.of \intersect Part # {}}
Fresh(s, c) ==
  \/ Comes(s, Do({"flush"}), Moves)
  \/ c.queued \subseteq {Layout(c.on)} /\ Stays(s, Moves)

Agrees(s, c, h) ==
  /\ \E m \in SUBSET Feature : s \in Seq(Agreeing(m)) /\ Settles(s, m, c, h)
  /\ Fresh(s, c)

(* In the middle of a reset_fifo the interrupts are those that it saved. *)
Ahead == {"mask_irq", "flush", "run"}
Middle == {"flush", "run", "unmask_irq"}
Framed(s) ==
  \A i \in 1 .. Len(s) :
    /\ s[i].do \in Ahead => i + 1 <= Len(s) /\ s[i + 1].do \in Middle
    /\ i + 1 <= Len(s) /\ s[i + 1].do \in Middle => s[i].do \in Ahead
Lit(s, c, sv) == IF s # <<>> /\ Head(s).do \in Middle THEN sv ELSE c.irq

(* The chip runs, or will. *)
ToSleep == Do({"init_reset", "reset", "sleep"})
ToErase == Do({"init_reset", "reset"})
ToClose == Do({"clear", "close"})
ToForget == Do({"clear", "poll", "close"})
ToStop == Do({"flush", "init_reset", "reset"})
ToDark == Do({"init_reset", "reset", "biases"})
Powers(s, c) ==
  /\ Comes(s, Do({"wake"}), ToSleep) \/ (~ c.asleep /\ Stays(s, ToSleep))
  /\ Comes(s, Do({"load"}), ToErase) \/ (c.loaded /\ Stays(s, ToErase))
  /\ \/ Comes(s, Do({"run", "fifo_on", "biases"}), ToStop)
     \/ c.fifo /\ Stays(s, ToStop)
Holds(s, h) ==
  /\ Comes(s, Do({"poll"}), ToClose) \/ (h.inited /\ Stays(s, ToClose))
  /\ Comes(s, Do({"start"}), ToForget) \/ (h.dmp_inited /\ Stays(s, ToForget))
Lights(s, c, sv) ==
  Comes(s, Do({"irq_on"}), ToDark) \/ (Lit(s, c, sv) /\ Stays(s, ToDark))
Runs(s, c, h, sv) == Powers(s, c) /\ Holds(s, h) /\ Lights(s, c, sv) /\ Framed(s)

(* The calls after which nothing is promised. *)
Undone == {"none", "deinit", "self_test", "init", "load"}
Promise ==
  failed = "none" /\ call \notin Undone =>
    /\ since # "nothing" \/ call \in {"set_feature", "dmp_init"} =>
         Agrees(todo, chip, handle)
    /\ since = "init" \/ call = "dmp_init" => Runs(todo, chip, handle, saved)

PInv ==
  /\ Promise /\ LayoutAgrees /\ Running
  /\ failed # "none" => since = "nothing"

(* A step brings the call nearer to what it promises. *)
LEMMA StepSettles ==
  ASSUME NEW c \in Chips, NEW h \in Handles, saved \in BOOLEAN, handle \in Handles,
         NEW s \in Seq(AStep), s # <<>>, NEW b \in Outcomes(Head(s), c),
         Agrees(s, c, h)
  PROVE  Agrees(Tail(s), b, Handled(Head(s), h))
<1> DEFINE x == Head(s)
           k == Handled(x, h)
<1>1. x \in AStep /\ Tail(s) \in Seq(AStep)
  BY SeqTail
<1>2. PICK m \in SUBSET Feature : s \in Seq(Agreeing(m)) /\ Settles(s, m, c, h)
  BY DEF Agrees
<1>3. x \in Agreeing(m) /\ Tail(s) \in Seq(Agreeing(m))
  BY <1>2, SeqTail
<1>4. /\ x.do = "cell" => b.on = (c.on \ x.of) \union (m \intersect x.of)
      /\ x.do \notin {"cell", "load"} => b.on = c.on
      /\ x.do = "mask" => k.mask = (h.mask \ x.of) \union (m \intersect x.of)
      /\ x.do \notin {"mask", "clear"} => k.mask = h.mask
      /\ x.do = "flush" => b.queued = {}
      /\ b.queued \subseteq c.queued
  <2>1. Moved(x, c, b)
    BY <1>1, OutcomesAre, Zenon
  <2>2. Stored(x, h, k)
    BY <1>1, HandledIs, Zenon
  <2>3. x.do \in {"cell", "mask"} => x.is = m \intersect x.of
    BY <1>3 DEF Agreeing
  <2> HIDE DEF x, k
  <2> QED
    BY <2>1, <2>2, <2>3 DEF Moved, Stored
<1> HIDE DEF x, k
<1>5. Settles(Tail(s), m, b, k)
  <2> SUFFICES ASSUME NEW f \in Feature
               PROVE  /\ \/ Comes(Tail(s), CellsFor(f), Do({"load"}))
                         \/ (f \in b.on <=> f \in m) /\ Stays(Tail(s), Do({"load"}))
                      /\ \/ Comes(Tail(s), MasksFor(f), Do({"clear"}))
                         \/ (f \in k.mask <=> f \in m) /\ Stays(Tail(s), Do({"clear"}))
    BY DEF Settles
  <2>1. /\ x \in CellsFor(f) => (f \in b.on <=> f \in m)
        /\ x \notin CellsFor(f) /\ x \notin Do({"load"}) => (f \in b.on <=> f \in c.on)
        /\ x \in MasksFor(f) => (f \in k.mask <=> f \in m)
        /\ x \notin MasksFor(f) /\ x \notin Do({"clear"}) =>
             (f \in k.mask <=> f \in h.mask)
    BY <1>1, <1>4 DEF CellsFor, MasksFor, Do, x
  <2>2. /\ \/ Comes(s, CellsFor(f), Do({"load"}))
           \/ (f \in c.on <=> f \in m) /\ Stays(s, Do({"load"}))
        /\ \/ Comes(s, MasksFor(f), Do({"clear"}))
           \/ (f \in h.mask <=> f \in m) /\ Stays(s, Do({"clear"}))
    BY <1>2 DEF Settles
  <2>3. /\ Stays(s, Do({"load"})) => x \notin Do({"load"}) /\ Stays(Tail(s), Do({"load"}))
        /\ Stays(s, Do({"clear"})) =>
             x \notin Do({"clear"}) /\ Stays(Tail(s), Do({"clear"}))
        /\ Comes(s, CellsFor(f), Do({"load"})) =>
             \/ Comes(Tail(s), CellsFor(f), Do({"load"}))
             \/ x \in CellsFor(f) /\ Stays(Tail(s), Do({"load"}))
        /\ Comes(s, MasksFor(f), Do({"clear"})) =>
             \/ Comes(Tail(s), MasksFor(f), Do({"clear"}))
             \/ x \in MasksFor(f) /\ Stays(Tail(s), Do({"clear"}))
    BY Onward, Zenon DEF x
  <2> QED
    BY <2>1, <2>2, <2>3, Zenon
<1>6. Fresh(Tail(s), b)
  <2>1. /\ x.do = "flush" => b.queued \subseteq {Layout(b.on)}
        /\ x \notin Moves => Layout(b.on) = Layout(c.on)
    <3>1. x.do = "flush" => b.queued \subseteq {Layout(b.on)}
      BY <1>4
    <3>2. ASSUME x \notin Moves PROVE Layout(b.on) = Layout(c.on)
      <4>1. x.do # "load" /\ (x.do = "cell" => x.of \intersect Part = {})
        BY <1>1, <3>2 DEF Moves, Do, x
      <4> QED
        BY <1>4, <4>1 DEF Layout
    <3> QED
      BY <3>1, <3>2
  <2>2. /\ Stays(s, Moves) => x \notin Moves /\ Stays(Tail(s), Moves)
        /\ Comes(s, Do({"flush"}), Moves) =>
             \/ Comes(Tail(s), Do({"flush"}), Moves)
             \/ x.do = "flush" /\ Stays(Tail(s), Moves)
    BY Onward DEF x, Do
  <2>3. \/ Comes(s, Do({"flush"}), Moves)
        \/ c.queued \subseteq {Layout(c.on)} /\ Stays(s, Moves)
    BY DEF Agrees, Fresh
  <2> QED
    BY <1>4, <2>1, <2>2, <2>3 DEF Fresh
<1> QED
  BY <1>3, <1>5, <1>6 DEF Agrees, x, k

LEMMA StepFrames ==
  ASSUME NEW s \in Seq(AStep), s # <<>>, Framed(s)
  PROVE  /\ Framed(Tail(s))
         /\ Tail(s) # <<>> /\ Head(Tail(s)).do \in Middle <=> Head(s).do \in Ahead
<1>1. /\ Len(s) \in Nat /\ Len(s) >= 1 /\ Head(s) = s[1]
      /\ Tail(s) \in Seq(AStep) /\ Len(Tail(s)) = Len(s) - 1
      /\ \A i \in 1 .. Len(Tail(s)) : Tail(s)[i] = s[i + 1]
  BY HeadTailProperties, EmptySeq
<1>2. Framed(Tail(s))
  <2> SUFFICES ASSUME NEW i \in 1 .. Len(Tail(s))
               PROVE  /\ Tail(s)[i].do \in Ahead =>
                           /\ i + 1 <= Len(Tail(s))
                           /\ Tail(s)[i + 1].do \in Middle
                      /\ i + 1 <= Len(Tail(s)) /\ Tail(s)[i + 1].do \in Middle =>
                           Tail(s)[i].do \in Ahead
    BY DEF Framed
  <2>1. i + 1 \in 1 .. Len(s) /\ Tail(s)[i] = s[i + 1]
        /\ (i + 1 <= Len(Tail(s)) => Tail(s)[i + 1] = s[(i + 1) + 1])
        /\ (i + 1 <= Len(Tail(s)) <=> (i + 1) + 1 <= Len(s))
    BY <1>1
  <2>2. /\ s[i + 1].do \in Ahead =>
             (i + 1) + 1 <= Len(s) /\ s[(i + 1) + 1].do \in Middle
        /\ (i + 1) + 1 <= Len(s) /\ s[(i + 1) + 1].do \in Middle =>
             s[i + 1].do \in Ahead
    BY <2>1, Zenon DEF Framed
  <2> QED
    BY <2>1, <2>2, Zenon
<1>3. 1 \in 1 .. Len(s) /\ 1 + 1 = 2 /\ (2 <= Len(s) <=> Tail(s) # <<>>)
      /\ (Tail(s) # <<>> => Head(Tail(s)) = s[2])
  <2>1. Tail(s) # <<>> => Len(Tail(s)) >= 1 /\ Head(Tail(s)) = Tail(s)[1]
    BY <1>1, EmptySeq
  <2>2. Tail(s) = <<>> => Len(Tail(s)) = 0
    BY EmptySeq, Zenon
  <2> QED
    BY <1>1, <2>1, <2>2
<1>4. /\ s[1].do \in Ahead => 2 <= Len(s) /\ s[2].do \in Middle
      /\ 2 <= Len(s) /\ s[2].do \in Middle => s[1].do \in Ahead
  BY <1>3 DEF Framed
<1> QED
  BY <1>1, <1>2, <1>3, <1>4, Zenon

(* and the chip nearer to running. *)
LEMMA StepRuns ==
  ASSUME NEW c \in Chips, NEW h \in Handles, NEW s \in Seq(AStep), s # <<>>,
         saved \in BOOLEAN, handle \in Handles,
         NEW b \in Outcomes(Head(s), c), Runs(s, c, h, saved)
  PROVE  Runs(Tail(s), b, Handled(Head(s), h),
              IF Head(s).do = "mask_irq" THEN c.irq ELSE saved)
<1> DEFINE x == Head(s)
           k == Handled(x, h)
           v == IF x.do = "mask_irq" THEN c.irq ELSE saved
<1>1. x \in AStep /\ Tail(s) \in Seq(AStep)
  BY SeqTail
<1>2. Powered(x, c, b) /\ Lighted(x, c, b)
  BY <1>1, OutcomesAre, Zenon
<1>3. Stored(x, h, k)
  BY <1>1, HandledIs, Zenon
<1>4. \A on, off :
        /\ Stays(s, off) => x \notin off /\ Stays(Tail(s), off)
        /\ Comes(s, on, off) => \/ Comes(Tail(s), on, off)
                                \/ x \in on /\ Stays(Tail(s), off)
  BY Onward, Zenon
<1>5. \A names : x \in Do(names) <=> x.do \in names
  BY <1>1 DEF Do
<1> HIDE DEF k
<1>6. Powers(Tail(s), b)
  <2> HIDE DEF x
  <2>1. /\ x \in Do({"wake"}) => ~ b.asleep
        /\ x \notin ToSleep /\ ~ c.asleep => ~ b.asleep
    <3>1. x \in Do({"wake"}) => x.do = "wake"
      BY <1>5
    <3>2. x \notin ToSleep => x.do \notin {"init_reset", "reset", "sleep"}
      BY <1>5 DEF ToSleep
    <3> QED
      BY <1>2, <3>1, <3>2, Zenon DEF Powered
  <2>2. /\ x \in Do({"load"}) => b.loaded
        /\ x \notin ToErase /\ c.loaded => b.loaded
    <3>1. x \in Do({"load"}) => x.do = "load"
      BY <1>5
    <3>2. x \notin ToErase => x.do \notin {"init_reset", "reset"}
      BY <1>5 DEF ToErase
    <3> QED
      BY <1>2, <3>1, <3>2, Zenon DEF Powered
  <2>3. /\ x \in Do({"run", "fifo_on", "biases"}) => b.fifo
        /\ x \notin ToStop /\ c.fifo => b.fifo
    BY <1>2, <1>5, Zenon DEF Powered, ToStop
  <2>4. Powers(s, c)
    BY DEF Runs
  <2>5. Comes(Tail(s), Do({"wake"}), ToSleep) \/ (~ b.asleep /\ Stays(Tail(s), ToSleep))
    BY <1>4, <2>1, <2>4, Zenon DEF Powers
  <2>6. Comes(Tail(s), Do({"load"}), ToErase) \/ (b.loaded /\ Stays(Tail(s), ToErase))
    BY <1>4, <2>2, <2>4, Zenon DEF Powers
  <2>7. \/ Comes(Tail(s), Do({"run", "fifo_on", "biases"}), ToStop)
        \/ b.fifo /\ Stays(Tail(s), ToStop)
    BY <1>4, <2>3, <2>4, Zenon DEF Powers
  <2> QED
    BY <2>5, <2>6, <2>7, Zenon DEF Powers
<1>7. Holds(Tail(s), k)
  <2> HIDE DEF x
  <2>1. /\ x \in Do({"poll"}) => k.inited
        /\ x \notin ToClose /\ h.inited => k.inited
        /\ x \in Do({"start"}) => k.dmp_inited
        /\ x \notin ToForget /\ h.dmp_inited => k.dmp_inited
    BY <1>3, <1>5, Zenon DEF Stored, ToClose, ToForget
  <2>2. Holds(s, h)
    BY DEF Runs
  <2> QED
    BY <1>4, <2>1, <2>2, Zenon DEF Holds
<1>8. /\ Framed(Tail(s))
      /\ Tail(s) # <<>> /\ Head(Tail(s)).do \in Middle <=> x.do \in Ahead
  BY StepFrames, Zenon DEF Runs
<1>9. Lights(Tail(s), b, v)
  <2>1. Lights(s, c, saved)
    BY DEF Runs
  <2>2. x \in Do({"irq_on"}) => Lit(Tail(s), b, v)
    <3> SUFFICES ASSUME x.do = "irq_on" PROVE Lit(Tail(s), b, v)
      BY <1>5
    <3>1. b.irq = TRUE
      BY <1>2, Zenon DEF Lighted
    <3>2. x.do \notin Ahead
      BY DEF Ahead
    <3> QED
      BY <1>8, <3>1, <3>2, Zenon DEF Lit
  <2>3. ASSUME Lit(s, c, saved), x \notin ToDark PROVE Lit(Tail(s), b, v)
    <3>1. x.do \notin {"init_reset", "reset", "biases"}
      BY <1>5, <2>3, Zenon DEF ToDark
    <3>2. CASE x.do = "mask_irq"
      <4>1. x.do \in Ahead /\ x.do \notin Middle /\ v = c.irq
        BY <3>2 DEF Ahead, Middle
      <4> QED
        BY <1>8, <2>3, <4>1, Zenon DEF Lit
    <3>3. CASE x.do \in {"flush", "run"}
      <4>1. x.do \in Ahead /\ x.do \in Middle /\ x.do # "mask_irq"
        BY <3>3 DEF Ahead, Middle
      <4> QED
        BY <1>8, <2>3, <4>1, Zenon DEF Lit
    <3>4. CASE x.do = "unmask_irq"
      <4>1. x.do \notin Ahead /\ x.do \in Middle /\ b.irq = saved
        <5>1. b.irq = saved
          BY <1>2, <3>4, Zenon DEF Lighted
        <5> QED
          BY <3>4, <5>1 DEF Ahead, Middle
      <4> QED
        BY <1>8, <2>3, <4>1, Zenon DEF Lit
    <3>5. CASE x.do = "irq_on"
      BY <1>5, <2>2, <3>5
    <3>6. CASE x.do \notin {"mask_irq", "flush", "run", "unmask_irq", "irq_on"}
      <4>1. x.do \notin Ahead /\ x.do \notin Middle
        BY <3>6 DEF Ahead, Middle
      <4>2. b.irq = c.irq
        BY <1>2, <3>1, <3>6, Zenon DEF Lighted
      <4> QED
        BY <1>8, <2>3, <4>1, <4>2, Zenon DEF Lit
    <3> QED
      BY <3>2, <3>3, <3>4, <3>5, <3>6
  <2> QED
    BY <1>4, <2>1, <2>2, <2>3, Zenon DEF Lights
<1> HIDE DEF v, x
<1>10. Runs(Tail(s), b, k, v)
  BY <1>6, <1>7, <1>8, <1>9, Zenon DEF Runs
<1> QED
  BY <1>10, Zenon DEF v, x, k

(* With nothing left to do it has been kept. *)
LEMMA NothingLeft ==
  ASSUME NEW c \in Chips, NEW h \in Handles, NEW sv
  PROVE  /\ Agrees(<<>>, c, h) => c.on = h.mask /\ c.queued \subseteq {Layout(h.mask)}
         /\ Runs(<<>>, c, h, sv) => /\ ~ c.asleep /\ c.loaded /\ c.fifo /\ c.irq
                                    /\ h.inited /\ h.dmp_inited
<1>1. \A on, off : ~ Comes(<<>>, on, off)
  BY DEF Comes
<1>2. ASSUME Agrees(<<>>, c, h)
      PROVE  c.on = h.mask /\ c.queued \subseteq {Layout(h.mask)}
  <2>1. PICK m \in SUBSET Feature : Settles(<<>>, m, c, h)
    BY <1>2 DEF Agrees
  <2>2. \A f \in Feature : (f \in c.on <=> f \in m) /\ (f \in h.mask <=> f \in m)
    BY <1>1, <2>1, Zenon DEF Settles
  <2>3. c.on \subseteq Feature /\ h.mask \subseteq Feature
    BY DEF Chips, Handles
  <2>4. c.on = h.mask
    BY <2>2, <2>3
  <2>5. c.queued \subseteq {Layout(c.on)}
    BY <1>1, <1>2, Zenon DEF Agrees, Fresh
  <2> QED
    BY <2>4, <2>5
<1>3. ASSUME Runs(<<>>, c, h, sv)
      PROVE  /\ ~ c.asleep /\ c.loaded /\ c.fifo /\ c.irq
             /\ h.inited /\ h.dmp_inited
  <2>1. Lit(<<>>, c, sv) => c.irq
    BY Zenon DEF Lit
  <2> QED
    BY <1>1, <1>3, <2>1, Zenon DEF Runs, Powers, Holds, Lights
<1> QED
  BY <1>2, <1>3

-----------------------------------------------------------------------------
(* The calls, as they begin.  Those that may follow a dmp_init are made of
   steps that neither reset the chip nor close the handle. *)
Calm(m) ==
  {x \in Agreeing(m) : x.do \in {"write", "cell", "mask", "mask_irq", "flush", "run",
                                 "unmask_irq", "dmp_on", "dmp_off", "drain"}}

Has(s, on) == \E i \in 1 .. Len(s) : s[i] \in on

(* No reset_fifo is cut short. *)
Whole(s) == Framed(s) /\ (s # <<>> => s[1].do \notin Middle)

LEMMA HasComes ==
  ASSUME NEW S, NEW s \in Seq(S), NEW on, NEW off, Has(s, on), Stays(s, off)
  PROVE  Comes(s, on, off)
<1>1. PICK i \in 1 .. Len(s) : s[i] \in on
  BY DEF Has
<1>2. Len(s) \in Nat
  OBVIOUS
<1>3. \A j \in i + 1 .. Len(s) : s[j] \notin off
  BY <1>2 DEF Stays
<1> QED
  BY <1>1, <1>3 DEF Comes

LEMMA HasJoined ==
  ASSUME NEW S, NEW s \in Seq(S), NEW t \in Seq(S), NEW on,
         Has(s, on) \/ Has(t, on)
  PROVE  Has(s \o t, on)
<1>1. /\ Len(s) \in Nat /\ Len(t) \in Nat /\ Len(s \o t) = Len(s) + Len(t)
      /\ \A i \in 1 .. Len(s) + Len(t) :
           (s \o t)[i] = IF i <= Len(s) THEN s[i] ELSE t[i - Len(s)]
  BY ConcatProperties, LenProperties
<1>2. ASSUME NEW i \in 1 .. Len(s), s[i] \in on PROVE Has(s \o t, on)
  BY <1>1, <1>2 DEF Has
<1>3. ASSUME NEW i \in 1 .. Len(t), t[i] \in on PROVE Has(s \o t, on)
  <2>1. /\ i + Len(s) \in 1 .. Len(s \o t) /\ ~ i + Len(s) <= Len(s)
        /\ (i + Len(s)) - Len(s) = i
    BY <1>1
  <2>2. (s \o t)[i + Len(s)] = t[i]
    BY <1>1, <2>1
  <2> QED
    BY <1>3, <2>1, <2>2 DEF Has
<1> QED
  BY <1>2, <1>3 DEF Has

LEMMA WholeJoined ==
  ASSUME NEW s \in Seq(AStep), NEW t \in Seq(AStep), Whole(s), Whole(t)
  PROVE  Whole(s \o t)
<1>1. /\ Len(s) \in Nat /\ Len(t) \in Nat /\ Len(s \o t) = Len(s) + Len(t)
      /\ \A i \in 1 .. Len(s) + Len(t) :
           (s \o t)[i] = IF i <= Len(s) THEN s[i] ELSE t[i - Len(s)]
  BY ConcatProperties, LenProperties
<1>2. /\ \A i \in 1 .. Len(s) : (s \o t)[i] = s[i]
      /\ \A i \in Len(s) + 1 .. Len(s) + Len(t) :
           (s \o t)[i] = t[i - Len(s)] /\ i - Len(s) \in 1 .. Len(t)
  BY <1>1
<1>3. (s = <<>> <=> Len(s) = 0) /\ (t = <<>> <=> Len(t) = 0)
      /\ (s \o t = <<>> <=> Len(s) + Len(t) = 0)
  BY <1>1, EmptySeq, ConcatProperties
<1> DEFINE r == s \o t
<1>4. Framed(r)
  <2> SUFFICES ASSUME NEW i \in 1 .. Len(s) + Len(t)
               PROVE  /\ r[i].do \in Ahead =>
                           i + 1 <= Len(r) /\ r[i + 1].do \in Middle
                      /\ i + 1 <= Len(r) /\ r[i + 1].do \in Middle =>
                           r[i].do \in Ahead
    BY <1>1 DEF Framed
  <2>1. CASE i < Len(s)
    <3>1. i \in 1 .. Len(s) /\ i + 1 \in 1 .. Len(s) /\ i + 1 <= Len(s) /\ i + 1 <= Len(r)
      BY <1>1, <2>1
    <3>2. r[i] = s[i] /\ r[i + 1] = s[i + 1]
      BY <1>2, <3>1
    <3> QED
      BY <3>1, <3>2, Zenon DEF Whole, Framed
  <2>2. CASE i = Len(s)
    <3>1. i \in 1 .. Len(s) /\ ~ i + 1 <= Len(s) /\ r[i] = s[i]
      BY <1>1, <1>2, <2>2
    <3>2. r[i].do \notin Ahead
      BY <3>1, Zenon DEF Whole, Framed
    <3>3. ASSUME i + 1 <= Len(r) PROVE r[i + 1].do \notin Middle
      <4>1. i + 1 \in Len(s) + 1 .. Len(s) + Len(t) /\ (i + 1) - Len(s) = 1 /\ t # <<>>
        BY <1>1, <1>3, <2>2, <3>3
      <4>2. r[i + 1] = t[1]
        BY <1>2, <4>1
      <4> QED
        BY <4>1, <4>2, Zenon DEF Whole
    <3> QED
      BY <3>2, <3>3
  <2>3. CASE i > Len(s)
    <3>1. /\ i \in Len(s) + 1 .. Len(s) + Len(t) /\ i - Len(s) \in 1 .. Len(t)
          /\ (i + 1 <= Len(r) <=> (i - Len(s)) + 1 <= Len(t))
          /\ r[i] = t[i - Len(s)]
      BY <1>1, <1>2, <2>3
    <3>2. i + 1 <= Len(r) => r[i + 1] = t[(i - Len(s)) + 1]
      BY <1>1, <1>2, <3>1
    <3> QED
      BY <3>1, <3>2, Zenon DEF Whole, Framed
  <2> QED
    BY <1>1, <2>1, <2>2, <2>3
<1>5. ASSUME r # <<>> PROVE r[1].do \notin Middle
  <2>1. CASE s # <<>>
    <3>1. r[1] = s[1]
      BY <1>1, <1>2, <1>3, <2>1
    <3> QED
      BY <2>1, <3>1 DEF Whole
  <2>2. CASE s = <<>>
    <3>1. t # <<>> /\ r[1] = t[1]
      BY <1>1, <1>2, <1>3, <1>5, <2>2
    <3> QED
      BY <3>1 DEF Whole
  <2> QED
    BY <2>1, <2>2
<1> QED
  BY <1>4, <1>5 DEF Whole

LEMMA PlainWhole ==
  ASSUME NEW s \in Seq(AStep \ Do(Ahead \union Middle)) PROVE Whole(s)
<1>1. Len(s) \in Nat /\ (s # <<>> => Len(s) >= 1)
  BY EmptySeq
<1>2. \A i \in 1 .. Len(s) : s[i].do \notin Ahead /\ s[i].do \notin Middle
  BY ElementOfSeq DEF Do
<1>3. \A i \in 1 .. Len(s) : i + 1 <= Len(s) => i + 1 \in 1 .. Len(s)
  BY <1>1
<1>4. Framed(s)
  BY <1>2, <1>3, Zenon DEF Framed
<1>5. s # <<>> => s[1].do \notin Middle
  BY <1>1, <1>2
<1> QED
  BY <1>4, <1>5 DEF Whole

LEMMA CalmStays ==
  ASSUME NEW m, NEW s \in Seq(Calm(m))
  PROVE  /\ s \in Seq(AStep) /\ s \in Seq(Agreeing(m))
         /\ Stays(s, Do({"load"})) /\ Stays(s, Do({"clear"}))
         /\ Stays(s, ToSleep) /\ Stays(s, ToErase) /\ Stays(s, ToClose)
         /\ Stays(s, ToForget) /\ Stays(s, ToDark)
<1>1. Calm(m) \subseteq AStep /\ Calm(m) \subseteq Agreeing(m)
  BY DEF Calm, Agreeing
<1>2. /\ Calm(m) \intersect Do({"load"}) = {} /\ Calm(m) \intersect Do({"clear"}) = {}
      /\ Calm(m) \intersect ToSleep = {} /\ Calm(m) \intersect ToErase = {}
      /\ Calm(m) \intersect ToClose = {} /\ Calm(m) \intersect ToForget = {}
      /\ Calm(m) \intersect ToDark = {}
  BY DEF Calm, Do, ToSleep, ToErase, ToClose, ToForget, ToDark
<1>3. s \in Seq(AStep) /\ s \in Seq(Agreeing(m))
  BY <1>1, SeqMonotonic, Zenon
<1> QED
  BY <1>2, <1>3, StaysIn, Zenon

LEMMA CalmSteps ==
  ASSUME NEW n
  PROVE  /\ \A of \in SUBSET Feature : \A m :
              /\ m \intersect of = n \intersect of =>
                   Cell(of, m) \in Calm(n) /\ SetMask(of, m) \in Calm(n)
              /\ \A f \in of : Cell(of, m) \in CellsFor(f) /\ SetMask(of, m) \in MasksFor(f)
              /\ Cell(of, m).of = of /\ Cell(of, m).do = "cell"
              /\ SetMask(of, m).do = "mask"
         /\ Write \in Calm(n) /\ Write.do = "write"
         /\ \A x \in {"mask_irq", "flush", "run", "unmask_irq", "dmp_on", "dmp_off",
                      "drain"} : Step(x) \in Calm(n) /\ Step(x).do = x
<1>1. ASSUME NEW of \in SUBSET Feature, NEW m
      PROVE  /\ m \intersect of = n \intersect of =>
                  Cell(of, m) \in Calm(n) /\ SetMask(of, m) \in Calm(n)
             /\ \A f \in of : Cell(of, m) \in CellsFor(f) /\ SetMask(of, m) \in MasksFor(f)
             /\ Cell(of, m).of = of /\ Cell(of, m).do = "cell"
             /\ SetMask(of, m).do = "mask"
  <2>1. Cell(of, m) \in AStep /\ SetMask(of, m) \in AStep
    BY StepsAre DEF Quiet, Opened
  <2>2. /\ Cell(of, m).do = "cell" /\ Cell(of, m).of = of
        /\ Cell(of, m).is = m \intersect of
        /\ SetMask(of, m).do = "mask" /\ SetMask(of, m).of = of
        /\ SetMask(of, m).is = m \intersect of
    BY DEF Cell, SetMask
  <2> QED
    BY <2>1, <2>2 DEF Calm, Agreeing, CellsFor, MasksFor, Do
<1>2. ASSUME NEW x \in {"write", "mask_irq", "flush", "run", "unmask_irq", "dmp_on",
                        "dmp_off", "drain"}
      PROVE  Step(x) \in Calm(n) /\ Step(x).do = x
  <2>1. Step(x) \in AStep /\ Step(x).do = x
    BY StepsAre DEF Doing
  <2> QED
    BY <2>1 DEF Calm, Agreeing
<1> QED
  BY <1>1, <1>2 DEF Write

LEMMA CalmSeq ==
  ASSUME NEW n, NEW s \in Seq(Calm(n)), NEW t \in Seq(Calm(n)), Whole(s), Whole(t)
  PROVE  s \o t \in Seq(Calm(n)) /\ Whole(s \o t)
BY ConcatProperties, CalmStays, WholeJoined, Zenon

LEMMA ResetCalm ==
  ASSUME NEW n
  PROVE  /\ ResetFifo \in Seq(Calm(n)) /\ Whole(ResetFifo)
         /\ Comes(ResetFifo, Do({"flush"}), Moves)
         /\ Comes(ResetFifo, Do({"run", "fifo_on", "biases"}), ToStop)
         /\ Stays(ResetFifo, Moves)
<1> DEFINE a == Step("mask_irq")
           b == Step("flush")
           c == Step("run")
           d == Step("unmask_irq")
<1>1. /\ a \in Calm(n) /\ b \in Calm(n) /\ c \in Calm(n) /\ d \in Calm(n)
      /\ a.do = "mask_irq" /\ b.do = "flush" /\ c.do = "run" /\ d.do = "unmask_irq"
  BY CalmSteps
<1>2. ResetFifo = <<a, b, c, d>>
  BY DEF ResetFifo
<1> HIDE DEF a, b, c, d
<1>3. ResetFifo \in Seq(Calm(n))
  BY <1>1, <1>2
<1>4. a \in AStep /\ b \in AStep /\ c \in AStep /\ d \in AStep
  BY <1>1 DEF Calm, Agreeing
<1>5. /\ a \notin Moves /\ b \notin Moves /\ c \notin Moves /\ d \notin Moves
      /\ b \in Do({"flush"}) /\ c \in Do({"run", "fifo_on", "biases"})
      /\ d \notin ToStop
  BY <1>1, <1>4 DEF Moves, Do, ToStop
<1>6. /\ Len(<<a, b, c, d>>) = 4
      /\ <<a, b, c, d>>[1] = a /\ <<a, b, c, d>>[2] = b /\ <<a, b, c, d>>[3] = c
      /\ <<a, b, c, d>>[4] = d
  OBVIOUS
<1> DEFINE s == <<a, b, c, d>>
<1>7. Len(s) = 4 /\ s[1] = a /\ s[2] = b /\ s[3] = c /\ s[4] = d
  BY <1>6
<1> HIDE DEF s
<1>8. Whole(s)
  <2>1. a.do \in Ahead /\ a.do \notin Middle /\ b.do \in Ahead /\ b.do \in Middle
        /\ c.do \in Ahead /\ c.do \in Middle /\ d.do \notin Ahead /\ d.do \in Middle
    BY <1>1 DEF Ahead, Middle
  <2> QED
    BY <1>7, <2>1 DEF Whole, Framed
<1>9. /\ Comes(s, Do({"flush"}), Moves) /\ Stays(s, Moves)
      /\ Comes(s, Do({"run", "fifo_on", "biases"}), ToStop)
  BY <1>5, <1>7 DEF Comes, Stays
<1> QED
  BY <1>2, <1>3, <1>8, <1>9 DEF s

(* A step that reset_fifo does not have is a sequence by itself. *)
LEMMA CalmOne ==
  ASSUME NEW n, NEW x \in Calm(n), x.do \notin Ahead \union Middle
  PROVE  /\ <<x>> \in Seq(Calm(n)) /\ Whole(<<x>>)
         /\ \A on : x \in on => Has(<<x>>, on)
<1>1. x \in AStep \ Do(Ahead \union Middle)
  BY DEF Calm, Agreeing, Do
<1>2. <<x>> \in Seq(AStep \ Do(Ahead \union Middle)) /\ <<x>> \in Seq(Calm(n))
  BY <1>1
<1>3. Len(<<x>>) = 1 /\ <<x>>[1] = x
  OBVIOUS
<1>4. \A on : x \in on => Has(<<x>>, on)
  BY <1>3 DEF Has
<1> QED
  BY <1>2, <1>4, PlainWhole

(* set_feature writes every feature to the memory and to the mask, and empties
   the fifo last. *)
Complete(s, m) ==
  /\ s \in Seq(Calm(m)) /\ Whole(s)
  /\ \A f \in Feature : Has(s, CellsFor(f)) /\ Has(s, MasksFor(f))
  /\ Comes(s, Do({"flush"}), Moves)
  /\ Comes(s, Do({"run", "fifo_on", "biases"}), ToStop)

LEMMA SensorsCalm ==
  ASSUME NEW m
  PROVE  /\ Sensors(m) \in Seq(Calm(m)) /\ Whole(Sensors(m))
         /\ \A f \in {"accel", "gyro", "gesture", "gyro_cal"} : Has(Sensors(m), CellsFor(f))
<1> DEFINE a == Cell({"accel", "gyro"}, m)
           b == Cell({"gesture"}, m)
           c == Cell({"gyro_cal"}, m)
<1>1. /\ a \in Calm(m) /\ b \in Calm(m) /\ c \in Calm(m) /\ Write \in Calm(m)
      /\ a.do = "cell" /\ b.do = "cell" /\ c.do = "cell" /\ Write.do = "write"
      /\ a \in CellsFor("accel") /\ a \in CellsFor("gyro")
      /\ b \in CellsFor("gesture") /\ c \in CellsFor("gyro_cal")
  <2>1. /\ {"accel", "gyro"} \in SUBSET Feature /\ {"gesture"} \in SUBSET Feature
        /\ {"gyro_cal"} \in SUBSET Feature
    BY DEF Feature, Part
  <2> QED
    BY <2>1, CalmSteps
<1>2. Sensors(m) = <<Write, a, b, c, Write>>
  BY DEF Sensors
<1> HIDE DEF a, b, c
<1>3. Sensors(m) \in Seq(Calm(m))
  BY <1>1, <1>2
<1>4. Whole(Sensors(m))
  <2>1. \A x \in {Write, a, b, c} : x \in AStep \ Do(Ahead \union Middle)
    BY <1>1 DEF Calm, Agreeing, Do, Ahead, Middle
  <2>2. Sensors(m) \in Seq(AStep \ Do(Ahead \union Middle))
    BY <1>2, <2>1
  <2> QED
    BY <2>2, PlainWhole
<1>5. /\ Len(Sensors(m)) = 5 /\ Sensors(m)[2] = a /\ Sensors(m)[3] = b
      /\ Sensors(m)[4] = c
  BY <1>2
<1> QED
  BY <1>1, <1>3, <1>4, <1>5 DEF Has

LEMMA QuaternionsCalm ==
  ASSUME NEW m
  PROVE  /\ Quaternions(m) \in Seq(Calm(m)) /\ Whole(Quaternions(m))
         /\ \A f \in Quaternion : Has(Quaternions(m), CellsFor(f))
<1> DEFINE a == <<Cell({"3x_quat"}, m)>>
           b == <<Cell({"6x_quat"}, m)>>
<1>1. /\ a \in Seq(Calm(m)) /\ b \in Seq(Calm(m)) /\ Whole(a) /\ Whole(b)
      /\ Has(a, CellsFor("3x_quat")) /\ Has(b, CellsFor("6x_quat"))
  <2>1. /\ {"3x_quat"} \in SUBSET Feature /\ {"6x_quat"} \in SUBSET Feature
        /\ "cell" \notin Ahead \union Middle
    BY DEF Feature, Part, Quaternion, Ahead, Middle
  <2>2. /\ Cell({"3x_quat"}, m) \in Calm(m) /\ Cell({"6x_quat"}, m) \in Calm(m)
        /\ Cell({"3x_quat"}, m).do = "cell" /\ Cell({"6x_quat"}, m).do = "cell"
        /\ Cell({"3x_quat"}, m) \in CellsFor("3x_quat")
        /\ Cell({"6x_quat"}, m) \in CellsFor("6x_quat")
    BY <2>1, CalmSteps
  <2> QED
    BY <2>1, <2>2, CalmOne
<1>2. ResetFifo \in Seq(Calm(m)) /\ Whole(ResetFifo)
  BY ResetCalm
<1> HIDE DEF a, b
<1>3. a \o ResetFifo \in Seq(Calm(m)) /\ Whole(a \o ResetFifo)
  BY <1>1, <1>2, CalmSeq, Zenon
<1>4. (a \o ResetFifo) \o b \in Seq(Calm(m)) /\ Whole((a \o ResetFifo) \o b)
  BY <1>1, <1>3, CalmSeq, Zenon
<1>5. /\ ((a \o ResetFifo) \o b) \o ResetFifo \in Seq(Calm(m))
      /\ Whole(((a \o ResetFifo) \o b) \o ResetFifo)
  BY <1>2, <1>4, CalmSeq, Zenon
<1>6. Has(((a \o ResetFifo) \o b) \o ResetFifo, CellsFor("3x_quat"))
  <2>1. Has(a \o ResetFifo, CellsFor("3x_quat"))
    BY <1>1, <1>2, HasJoined, Zenon
  <2>2. Has((a \o ResetFifo) \o b, CellsFor("3x_quat"))
    BY <1>1, <1>3, <2>1, HasJoined, Zenon
  <2> QED
    BY <1>2, <1>4, <2>2, HasJoined, Zenon
<1>7. Has(((a \o ResetFifo) \o b) \o ResetFifo, CellsFor("6x_quat"))
  <2>1. Has((a \o ResetFifo) \o b, CellsFor("6x_quat"))
    BY <1>1, <1>3, HasJoined, Zenon
  <2> QED
    BY <1>2, <1>4, <2>1, HasJoined, Zenon
<1>8. Quaternions(m) = ((a \o ResetFifo) \o b) \o ResetFifo
  BY Zenon DEF Quaternions, a, b
<1> QED
  BY <1>5, <1>6, <1>7, <1>8, Zenon DEF Quaternion

LEMMA FeatureComplete == ASSUME NEW m PROVE Complete(SetFeature(m), m)
<1> DEFINE s1 == Sensors(m) \o TapDefaults
           s2 == s1 \o OrientInt
           s3 == s2 \o Quaternions(m)
           a == <<SetMask(Feature, m)>>
           s4 == s3 \o a
<1>1. /\ TapDefaults \in Seq(Calm(m)) /\ Whole(TapDefaults)
      /\ OrientInt \in Seq(Calm(m)) /\ Whole(OrientInt)
  <2>1. Write \in Calm(m) /\ Write.do \notin Ahead \union Middle
    BY CalmSteps DEF Ahead, Middle
  <2> QED
    BY <2>1, CalmOne, Zenon DEF TapDefaults, OrientInt
<1>2. a \in Seq(Calm(m)) /\ Whole(a) /\ \A f \in Feature : Has(a, MasksFor(f))
  <2>1. /\ SetMask(Feature, m) \in Calm(m) /\ SetMask(Feature, m).do = "mask"
        /\ \A f \in Feature : SetMask(Feature, m) \in MasksFor(f)
    BY CalmSteps
  <2>2. "mask" \notin Ahead \union Middle
    BY DEF Ahead, Middle
  <2> QED
    BY <2>1, <2>2, CalmOne
<1>3. SetFeature(m) = s4 \o ResetFifo
  BY Zenon DEF SetFeature
<1> HIDE DEF a
<1>4. s1 \in Seq(Calm(m)) /\ Whole(s1)
  BY <1>1, SensorsCalm, CalmSeq, Zenon
<1>5. \A f \in {"accel", "gyro", "gesture", "gyro_cal"} : Has(s1, CellsFor(f))
  BY <1>1, SensorsCalm, HasJoined, Zenon
<1> HIDE DEF s1
<1>6. s2 \in Seq(Calm(m)) /\ Whole(s2)
  BY <1>1, <1>4, CalmSeq, Zenon
<1>7. \A f \in {"accel", "gyro", "gesture", "gyro_cal"} : Has(s2, CellsFor(f))
  BY <1>1, <1>4, <1>5, HasJoined, Zenon
<1> HIDE DEF s2
<1>8. s3 \in Seq(Calm(m)) /\ Whole(s3)
  BY <1>6, QuaternionsCalm, CalmSeq, Zenon
<1>9. \A f \in Feature : Has(s3, CellsFor(f))
  <2>1. ASSUME NEW f \in Feature PROVE Has(s3, CellsFor(f))
    <3>1. Has(s2, CellsFor(f)) \/ Has(Quaternions(m), CellsFor(f))
      <4>1. f \in {"accel", "gyro", "gesture", "gyro_cal"} \/ f \in Quaternion
        BY DEF Feature, Part
      <4> QED
        BY <1>7, <4>1, QuaternionsCalm, Zenon
    <3> QED
      BY <1>6, <3>1, QuaternionsCalm, HasJoined, Zenon
  <2> QED
    BY <2>1
<1> HIDE DEF s3
<1>10. s4 \in Seq(Calm(m)) /\ Whole(s4)
  BY <1>2, <1>8, CalmSeq, Zenon
<1>11. \A f \in Feature : Has(s4, CellsFor(f)) /\ Has(s4, MasksFor(f))
  BY <1>2, <1>8, <1>9, HasJoined, Zenon
<1> HIDE DEF s4
<1>12. s4 \o ResetFifo \in Seq(Calm(m)) /\ Whole(s4 \o ResetFifo)
  BY <1>10, ResetCalm, CalmSeq, Zenon
<1>13. \A f \in Feature : /\ Has(s4 \o ResetFifo, CellsFor(f))
                          /\ Has(s4 \o ResetFifo, MasksFor(f))
  BY <1>10, <1>11, ResetCalm, HasJoined, Zenon
<1>14. /\ Comes(s4 \o ResetFifo, Do({"flush"}), Moves)
       /\ Comes(s4 \o ResetFifo, Do({"run", "fifo_on", "biases"}), ToStop)
  BY <1>10, ResetCalm, Joined, Zenon
<1> QED
  BY <1>3, <1>12, <1>13, <1>14, Zenon DEF Complete

(* dmp_init up to the firmware: it leaves mask and memory alone, and everything
   that Runs is about, but the fifo, is done before set_feature begins. *)
Bare == AStep \ Do({"cell", "mask"} \union Ahead \union Middle)

Up(s) ==
  /\ Comes(s, Do({"wake"}), ToSleep) /\ Comes(s, Do({"load"}), ToErase)
  /\ Comes(s, Do({"poll"}), ToClose) /\ Comes(s, Do({"start"}), ToForget)
  /\ Comes(s, Do({"irq_on"}), ToDark)

LEMMA BareSteps ==
  \A x \in Doing \ ({"cell", "mask"} \union Ahead \union Middle) :
    /\ Step(x) \in Bare
    /\ \A names : Step(x) \in Do(names) <=> x \in names
<1> SUFFICES ASSUME NEW x \in Doing \ ({"cell", "mask"} \union Ahead \union Middle)
             PROVE  /\ Step(x) \in Bare
                    /\ \A names : Step(x) \in Do(names) <=> x \in names
  OBVIOUS
<1>1. Step(x) \in AStep /\ Step(x).do = x
  BY StepsAre
<1> QED
  BY <1>1 DEF Bare, Do

LEMMA InitPieces ==
  /\ <<Step("clear")>> \in Seq(Bare)
  /\ Init6050 \in Seq(Bare) /\ Comes(Init6050, Do({"poll"}), ToClose)
  /\ <<Step("wake")>> \in Seq(Bare) /\ Stays(<<Step("wake")>>, ToClose)
  /\ SelfTest \in Seq(Bare) /\ Comes(SelfTest, Do({"wake"}), ToSleep)
  /\ Stays(SelfTest, ToClose)
  /\ Configure \in Seq(Bare) /\ Comes(Configure, Do({"irq_on"}), ToDark)
  /\ Stays(Configure, ToClose) /\ Stays(Configure, ToSleep)
  /\ LoadFirmware \in Seq(Bare) /\ Comes(LoadFirmware, Do({"load"}), ToErase)
  /\ Comes(LoadFirmware, Do({"start"}), ToForget)
  /\ Stays(LoadFirmware, ToClose) /\ Stays(LoadFirmware, ToSleep)
  /\ Stays(LoadFirmware, ToDark)
  /\ Tune \in Seq(Bare) /\ <<Step("dmp_on")>> \in Seq(Bare)
<1> DEFINE a == Step("clear")
           b == Step("identify")
           c == Step("init_reset")
           d == Step("poll")
           e == Step("wake")
           f == Step("biases")
           g == Step("write")
           h == Step("reset")
           i == Step("fifo_on")
           j == Step("irq_on")
           k == Step("load")
           l == Step("start")
           m == Step("dmp_on")
<1>1. /\ \A x \in {a, b, c, d, e, f, g, h, i, j, k, l, m} : x \in Bare
      /\ d \in Do({"poll"}) /\ d \notin ToSleep /\ d \notin ToErase
      /\ e \in Do({"wake"}) /\ e \notin ToClose /\ e \notin ToSleep
      /\ f \notin ToClose /\ g \notin ToClose /\ h \notin ToClose /\ i \notin ToClose
      /\ j \notin ToClose /\ k \notin ToClose /\ l \notin ToClose
      /\ g \notin ToSleep /\ i \notin ToSleep /\ j \notin ToSleep /\ k \notin ToSleep
      /\ l \notin ToSleep
      /\ j \in Do({"irq_on"}) /\ g \notin ToDark /\ k \notin ToDark /\ l \notin ToDark
      /\ k \in Do({"load"}) /\ l \notin ToErase /\ l \in Do({"start"})
  BY BareSteps DEF Doing, Ahead, Middle, ToSleep, ToErase, ToClose, ToForget, ToDark
<1>2. /\ Init6050 = <<b, c, d>> /\ SelfTest = <<f, g, h, e>>
      /\ Configure = <<g, i, j, g>> /\ LoadFirmware = <<k, l>> /\ Tune = <<g>>
  BY DEF Init6050, SelfTest, Configure, LoadFirmware, Tune, Write
<1> HIDE DEF a, b, c, d, e, f, g, h, i, j, k, l, m
<1>3. /\ <<a>> \in Seq(Bare) /\ <<b, c, d>> \in Seq(Bare) /\ <<e>> \in Seq(Bare)
      /\ <<f, g, h, e>> \in Seq(Bare) /\ <<g, i, j, g>> \in Seq(Bare)
      /\ <<k, l>> \in Seq(Bare) /\ <<g>> \in Seq(Bare) /\ <<m>> \in Seq(Bare)
  BY <1>1
<1>4. /\ Comes(<<b, c, d>>, Do({"poll"}), ToClose)
      /\ Comes(<<f, g, h, e>>, Do({"wake"}), ToSleep)
      /\ Comes(<<g, i, j, g>>, Do({"irq_on"}), ToDark)
      /\ Comes(<<k, l>>, Do({"load"}), ToErase)
      /\ Comes(<<k, l>>, Do({"start"}), ToForget)
  <2>1. /\ Len(<<b, c, d>>) = 3 /\ <<b, c, d>>[3] = d
        /\ Len(<<f, g, h, e>>) = 4 /\ <<f, g, h, e>>[4] = e
        /\ Len(<<g, i, j, g>>) = 4 /\ <<g, i, j, g>>[3] = j /\ <<g, i, j, g>>[4] = g
        /\ Len(<<k, l>>) = 2 /\ <<k, l>>[1] = k /\ <<k, l>>[2] = l
    OBVIOUS
  <2> QED
    BY <1>1, <2>1 DEF Comes
<1>5. /\ Stays(<<e>>, ToClose) /\ Stays(<<f, g, h, e>>, ToClose)
      /\ Stays(<<g, i, j, g>>, ToClose) /\ Stays(<<g, i, j, g>>, ToSleep)
      /\ Stays(<<k, l>>, ToClose) /\ Stays(<<k, l>>, ToSleep)
      /\ Stays(<<k, l>>, ToDark)
  BY <1>1 DEF Stays
<1> QED
  BY <1>2, <1>3, <1>4, <1>5, Zenon DEF a, e, m

LEMMA BareIs ==
  ASSUME NEW m, NEW s \in Seq(Bare)
  PROVE  s \in Seq(AStep) /\ s \in Seq(Agreeing(m)) /\ Whole(s)
<1>1. /\ Bare \subseteq AStep /\ Bare \subseteq Agreeing(m)
      /\ Bare \subseteq AStep \ Do(Ahead \union Middle)
  BY DEF Bare, Agreeing, Do
<1> QED
  BY <1>1, SeqMonotonic, PlainWhole, Zenon

LEMMA BareJoined ==
  ASSUME NEW s \in Seq(Bare), NEW t \in Seq(Bare) PROVE s \o t \in Seq(Bare)
BY ConcatProperties

LEMMA UpJoined ==
  ASSUME NEW s \in Seq(AStep), NEW t \in Seq(AStep), Up(s),
         Stays(t, ToSleep), Stays(t, ToErase), Stays(t, ToClose), Stays(t, ToForget),
         Stays(t, ToDark)
  PROVE  Up(s \o t)
BY Joined, Zenon DEF Up

LEMMA InitUp ==
  LET s == <<Step("clear")>> \o Init6050 \o <<Step("wake")>> \o SelfTest
             \o Configure \o LoadFirmware
  IN  s \in Seq(Bare) /\ Up(s)
<1> DEFINE s1 == <<Step("clear")>> \o Init6050
           s2 == s1 \o <<Step("wake")>>
           s3 == s2 \o SelfTest
           s4 == s3 \o Configure
           s5 == s4 \o LoadFirmware
<1>1. s1 \in Seq(Bare) /\ Comes(s1, Do({"poll"}), ToClose)
  BY InitPieces, BareJoined, Joined, Zenon
<1> HIDE DEF s1
<1>2. s2 \in Seq(Bare) /\ Comes(s2, Do({"poll"}), ToClose)
  BY <1>1, InitPieces, BareJoined, Joined, Zenon
<1> HIDE DEF s2
<1>3. /\ s3 \in Seq(Bare) /\ Comes(s3, Do({"poll"}), ToClose)
      /\ Comes(s3, Do({"wake"}), ToSleep)
  BY <1>2, InitPieces, BareJoined, Joined, Zenon
<1> HIDE DEF s3
<1>4. /\ s4 \in Seq(Bare) /\ Comes(s4, Do({"poll"}), ToClose)
      /\ Comes(s4, Do({"wake"}), ToSleep) /\ Comes(s4, Do({"irq_on"}), ToDark)
  BY <1>3, InitPieces, BareJoined, Joined, Zenon
<1> HIDE DEF s4
<1>5. s5 \in Seq(Bare)
  BY <1>4, InitPieces, BareJoined, Zenon
<1>6. /\ Comes(s5, Do({"poll"}), ToClose) /\ Comes(s5, Do({"wake"}), ToSleep)
      /\ Comes(s5, Do({"irq_on"}), ToDark)
  BY <1>4, InitPieces, Joined, Zenon
<1>7. Comes(s5, Do({"load"}), ToErase) /\ Comes(s5, Do({"start"}), ToForget)
  BY <1>4, InitPieces, Joined, Zenon
<1> HIDE DEF s5
<1>8. s5 \in Seq(Bare) /\ Up(s5)
  BY <1>5, <1>6, <1>7, Zenon DEF Up
<1> QED
  BY <1>8, Zenon DEF s1, s2, s3, s4, s5

(* A whole dmp_init promises everything, whatever state it begins in. *)
LEMMA InitPromises ==
  ASSUME NEW c, NEW h, NEW sv
  PROVE  Agrees(DmpInit, c, h) /\ Runs(DmpInit, c, h, sv)
<1> DEFINE s5 == <<Step("clear")>> \o Init6050 \o <<Step("wake")>> \o SelfTest
                   \o Configure \o LoadFirmware
           s6 == s5 \o Tune
           t7 == SetFeature(DefaultMask)
           s7 == s6 \o t7
           s8 == s7 \o Tune
           s9 == s8 \o <<Step("dmp_on")>>
           m == DefaultMask
           e == <<Step("dmp_on")>>
<1>1. DmpInit = s9 \o ResetFifo
  BY Zenon DEF DmpInit
<1>2. s5 \in Seq(Bare) /\ Up(s5)
  BY InitUp, Zenon
<1> HIDE DEF s5
<1>3. Tune \in Seq(Calm(m)) /\ Whole(Tune) /\ e \in Seq(Calm(m)) /\ Whole(e)
  <2>1. /\ Write \in Calm(m) /\ Write.do \notin Ahead \union Middle
        /\ Step("dmp_on") \in Calm(m) /\ Step("dmp_on").do \notin Ahead \union Middle
    BY CalmSteps DEF Ahead, Middle
  <2> QED
    BY <2>1, CalmOne, Zenon DEF Tune
<1>4. Complete(t7, m)
  BY FeatureComplete, Zenon
<1> HIDE DEF t7, e, m
<1>5. s6 \in Seq(Bare) /\ Up(s6)
  <2>1. s6 \in Seq(Bare)
    BY <1>2, InitPieces, BareJoined, Zenon
  <2>2. s5 \in Seq(AStep)
    BY <1>2, BareIs, Zenon
  <2> QED
    BY <1>2, <1>3, <2>1, <2>2, CalmStays, UpJoined, Zenon
<1> HIDE DEF s6
<1>6. s6 \in Seq(AStep) /\ s6 \in Seq(Agreeing(m)) /\ Whole(s6)
  BY <1>5, BareIs, Zenon
(* Behind set_feature the steps change nothing of what it has put in place. *)
<1> DEFINE Far(s) == /\ s \in Seq(AStep) /\ s \in Seq(Agreeing(m)) /\ Whole(s)
                     /\ Up(s)
                     /\ \A f \in Feature : /\ Comes(s, CellsFor(f), Do({"load"}))
                                           /\ Comes(s, MasksFor(f), Do({"clear"}))
<1>7. Far(s7)
  <2>1. t7 \in Seq(Calm(m)) /\ Whole(t7)
    BY <1>4, Zenon DEF Complete
  <2>2. /\ t7 \in Seq(AStep) /\ t7 \in Seq(Agreeing(m))
        /\ Stays(t7, Do({"load"})) /\ Stays(t7, Do({"clear"}))
    BY <2>1, CalmStays, Zenon
  <2>3. s7 \in Seq(AStep) /\ s7 \in Seq(Agreeing(m)) /\ Whole(s7)
    BY <1>6, <2>1, <2>2, ConcatProperties, WholeJoined, Zenon
  <2>4. Up(s7)
    BY <1>5, <1>6, <2>1, CalmStays, UpJoined, Zenon
  <2>5. ASSUME NEW f \in Feature
        PROVE  Comes(s7, CellsFor(f), Do({"load"})) /\ Comes(s7, MasksFor(f), Do({"clear"}))
    <3>1. Comes(t7, CellsFor(f), Do({"load"})) /\ Comes(t7, MasksFor(f), Do({"clear"}))
      BY <1>4, <2>2, HasComes, Zenon DEF Complete
    <3> QED
      BY <1>6, <2>2, <3>1, Joined, Zenon
  <2> QED
    BY <2>3, <2>4, <2>5, Zenon
<1> HIDE DEF s7
<1>8. ASSUME NEW s, Far(s), NEW t \in Seq(Calm(m)), Whole(t) PROVE Far(s \o t)
  <2>1. /\ t \in Seq(AStep) /\ t \in Seq(Agreeing(m))
        /\ Stays(t, Do({"load"})) /\ Stays(t, Do({"clear"}))
    BY CalmStays, Zenon
  <2>2. s \o t \in Seq(AStep) /\ s \o t \in Seq(Agreeing(m)) /\ Whole(s \o t)
    BY <1>8, <2>1, ConcatProperties, WholeJoined, Zenon
  <2>3. Up(s \o t)
    BY <1>8, <2>1, CalmStays, UpJoined, Zenon
  <2>4. \A f \in Feature : /\ Comes(s \o t, CellsFor(f), Do({"load"}))
                           /\ Comes(s \o t, MasksFor(f), Do({"clear"}))
    BY <1>8, <2>1, Joined, Zenon
  <2> QED
    BY <2>2, <2>3, <2>4, Zenon
<1>9. Far(s8)
  BY <1>3, <1>7, <1>8, Zenon
<1> HIDE DEF s8
<1>10. Far(s9)
  BY <1>3, <1>8, <1>9, Zenon DEF e
<1> HIDE DEF s9
<1>11. ResetFifo \in Seq(Calm(m)) /\ Whole(ResetFifo) /\ ResetFifo \in Seq(AStep)
  BY ResetCalm, CalmStays, Zenon
<1>12. Far(s9 \o ResetFifo)
  BY <1>8, <1>10, <1>11, Zenon
<1>13. /\ Comes(s9 \o ResetFifo, Do({"flush"}), Moves)
       /\ Comes(s9 \o ResetFifo, Do({"run", "fifo_on", "biases"}), ToStop)
  BY <1>10, <1>11, ResetCalm, Joined, Zenon
<1>14. Far(DmpInit) /\ Comes(DmpInit, Do({"flush"}), Moves)
       /\ Comes(DmpInit, Do({"run", "fifo_on", "biases"}), ToStop)
  BY <1>1, <1>12, <1>13, Zenon
<1> HIDE DEF DmpInit
<1>15. Agrees(DmpInit, c, h)
  <2>1. m \in SUBSET Feature
    BY DmpAssumption DEF Sound, m
  <2>2. DmpInit \in Seq(Agreeing(m)) /\ Settles(DmpInit, m, c, h)
    BY <1>14, Zenon DEF Settles
  <2> QED
    BY <1>14, <2>1, <2>2, Zenon DEF Agrees, Fresh
<1>16. Runs(DmpInit, c, h, sv)
  <2> DEFINE Fifo == Comes(DmpInit, Do({"run", "fifo_on", "biases"}), ToStop)
  <2>0. Up(DmpInit) /\ Fifo
    BY <1>14, Zenon
  <2>1. Powers(DmpInit, c)
    BY <2>0 DEF Powers, Up
  <2>2. Holds(DmpInit, h)
    BY <2>0 DEF Holds, Up
  <2>3. Lights(DmpInit, c, sv)
    BY <2>0 DEF Lights, Up
  <2>4. Framed(DmpInit)
    BY <1>14, Zenon DEF Whole
  <2> QED
    BY <2>1, <2>2, <2>3, <2>4, Zenon DEF Runs
<1> QED
  BY <1>15, <1>16

-----------------------------------------------------------------------------
(* Calls that begin.  One of calm steps promises what holds already or is among
   its writes. *)
LEMMA CalmAgrees ==
  ASSUME NEW c, NEW h, NEW m \in SUBSET Feature, NEW s \in Seq(Calm(m)),
         \A f \in Feature : /\ Has(s, CellsFor(f)) \/ (f \in c.on <=> f \in m)
                            /\ Has(s, MasksFor(f)) \/ (f \in h.mask <=> f \in m),
         Fresh(s, c)
  PROVE  Agrees(s, c, h)
<1>1. /\ s \in Seq(AStep) /\ s \in Seq(Agreeing(m))
      /\ Stays(s, Do({"load"})) /\ Stays(s, Do({"clear"}))
  BY CalmStays, Zenon
<1>2. /\ \A f : Has(s, CellsFor(f)) => Comes(s, CellsFor(f), Do({"load"}))
      /\ \A f : Has(s, MasksFor(f)) => Comes(s, MasksFor(f), Do({"clear"}))
  BY <1>1, HasComes, Zenon
<1>3. Settles(s, m, c, h)
  BY <1>1, <1>2, Zenon DEF Settles
<1> QED
  BY <1>1, <1>3, Zenon DEF Agrees

LEMMA CalmRuns ==
  ASSUME NEW c, NEW h, NEW sv, NEW m, NEW s \in Seq(Calm(m)), Whole(s),
         ~ c.asleep, c.loaded, c.fifo, c.irq, h.inited, h.dmp_inited,
         Comes(s, Do({"run", "fifo_on", "biases"}), ToStop) \/ Stays(s, ToStop)
  PROVE  Runs(s, c, h, sv)
<1>1. /\ s \in Seq(AStep)
      /\ Stays(s, ToSleep) /\ Stays(s, ToErase) /\ Stays(s, ToClose)
      /\ Stays(s, ToForget) /\ Stays(s, ToDark)
  BY CalmStays, Zenon
<1>2. Powers(s, c)
  BY <1>1, Zenon DEF Powers
<1>3. Holds(s, h)
  BY <1>1, Zenon DEF Holds
<1>4. Lights(s, c, sv)
  <2>1. s # <<>> => Head(s) = s[1]
    OBVIOUS
  <2>2. Lit(s, c, sv)
    BY <2>1, Zenon DEF Lit, Whole
  <2> QED
    BY <1>1, <2>2, Zenon DEF Lights
<1> QED
  BY <1>2, <1>3, <1>4, Zenon DEF Runs, Whole

LEMMA PromiseBegins ==
  ASSUME IInv, PInv, NEW name, NEW steps, Begin(name, steps), name # "none",
         name \notin Undone =>
           /\ since # "nothing" \/ name \in {"set_feature", "dmp_init"} =>
                Agrees(steps, chip, handle)
           /\ since = "init" \/ name = "dmp_init" => Runs(steps, chip, handle, FALSE)
  PROVE  PInv'
<1>1. /\ call' = name /\ todo' = steps /\ failed' = "none" /\ saved' = FALSE
      /\ handle' = handle /\ chip' = chip /\ since' = since
  BY DEF Begin
<1>2. Agrees(todo, chip, handle)' <=> Agrees(steps, chip, handle)
  BY <1>1 DEF Agrees, Settles, Fresh
<1>3. Runs(todo, chip, handle, saved)' <=> Runs(steps, chip, handle, FALSE)
  BY <1>1 DEF Runs, Powers, Holds, Lights, Lit
<1>4. Promise'
  BY <1>1, <1>2, <1>3, Zenon DEF Promise
<1>5. LayoutAgrees' /\ Running' /\ (failed' # "none" => since' = "nothing")
  BY <1>1, Zenon DEF LayoutAgrees, Running, Idle
<1> QED
  BY <1>4, <1>5 DEF PInv

(* Where there is something to keep, LayoutAgrees and Running hold as the call
   begins. *)
LEMMA KeptSoFar ==
  ASSUME IInv, PInv, Idle
  PROVE  /\ since # "nothing" => /\ chip.on = handle.mask
                                 /\ chip.queued \subseteq {Layout(chip.on)}
         /\ since = "init" => /\ ~ chip.asleep /\ chip.loaded /\ chip.fifo /\ chip.irq
                              /\ handle.inited /\ handle.dmp_inited
         /\ handle.mask \in SUBSET Feature
<1>1. since # "nothing" => /\ chip.on = handle.mask
                           /\ chip.queued \subseteq {Layout(chip.on)}
  BY DEF PInv, LayoutAgrees
<1>2. since = "init" => /\ ~ chip.asleep /\ chip.loaded /\ chip.fifo /\ chip.irq
                        /\ handle.inited /\ handle.dmp_inited
  BY Zenon DEF PInv, Running, DmpInited
<1>3. handle.mask \in SUBSET Feature
  BY DEF IInv, Types, Handles
<1> QED
  BY <1>1, <1>2, <1>3, Zenon

(* Calls that write no feature. *)
LEMMA ReadBegins ==
  ASSUME IInv, PInv, NEW name, NEW steps, Begin(name, steps),
         name \notin {"none", "set_feature", "dmp_init"},
         steps \in Seq(Calm(handle.mask)), Whole(steps), Stays(steps, Moves),
         \/ Comes(steps, Do({"run", "fifo_on", "biases"}), ToStop)
         \/ Stays(steps, ToStop)
  PROVE  PInv'
<1>1. Idle
  BY DEF Begin
<1>2. since # "nothing" => Agrees(steps, chip, handle)
  <2> SUFFICES ASSUME since # "nothing" PROVE Agrees(steps, chip, handle)
    OBVIOUS
  <2>1. Fresh(steps, chip) /\ chip.on = handle.mask /\ handle.mask \in SUBSET Feature
    BY <1>1, KeptSoFar, Zenon DEF Fresh
  <2>2. \A f \in Feature : f \in chip.on <=> f \in handle.mask
    BY <2>1
  <2> QED
    BY <2>1, <2>2, CalmAgrees, Zenon
<1>3. since = "init" => Runs(steps, chip, handle, FALSE)
  BY <1>1, KeptSoFar, CalmRuns, Zenon
<1> QED
  BY <1>2, <1>3, PromiseBegins, Zenon

LEMMA FeatureBegins == ASSUME IInv, PInv, CallSetFeature PROVE PInv'
<1>1. PICK m \in Masks : Begin("set_feature", SetFeature(m))
  BY DEF CallSetFeature
<1>2. m \in SUBSET Feature
  BY DmpAssumption DEF Sound
<1>3. Complete(SetFeature(m), m) /\ Idle
  BY <1>1, FeatureComplete, Zenon DEF Begin
<1> DEFINE s == SetFeature(m)
<1> HIDE DEF s
<1>4. Agrees(s, chip, handle)
  BY <1>2, <1>3, CalmAgrees, Zenon DEF Complete, Fresh, s
<1>5. since = "init" => Runs(s, chip, handle, FALSE)
  BY <1>3, KeptSoFar, CalmRuns, Zenon DEF Complete, s
<1>6. Begin("set_feature", s) /\ "set_feature" # "none" /\ "set_feature" # "dmp_init"
  BY <1>1 DEF s
<1> QED
  BY <1>4, <1>5, <1>6, PromiseBegins, Zenon

LEMMA QuaternionBegins == ASSUME IInv, PInv, CallSetQuaternion PROVE PInv'
<1>0. PICK f \in Quaternion :
        \E m \in {{}, {f}} : Begin("set_quaternion", SetQuaternion(f, m))
  BY DEF CallSetQuaternion
<1>1. PICK m \in {{}, {f}} : Begin("set_quaternion", SetQuaternion(f, m))
  BY <1>0
<1> DEFINE n == (handle.mask \ {f}) \union (m \intersect {f})
           a == <<Cell({f}, m)>>
           b == <<SetMask({f}, m)>>
           s == (a \o ResetFifo) \o b
<1>2. Idle /\ handle.mask \in SUBSET Feature /\ {f} \in SUBSET Feature
  BY <1>1, KeptSoFar DEF Begin, Feature, Part
<1>3. n \in SUBSET Feature /\ m \intersect {f} = n \intersect {f}
  BY <1>2
<1>4. /\ a \in Seq(Calm(n)) /\ Whole(a) /\ Has(a, CellsFor(f))
      /\ b \in Seq(Calm(n)) /\ Whole(b) /\ Has(b, MasksFor(f))
      /\ Stays(b, Moves) /\ Stays(b, ToStop)
  <2>1. /\ Cell({f}, m) \in Calm(n) /\ SetMask({f}, m) \in Calm(n)
        /\ Cell({f}, m) \in CellsFor(f) /\ SetMask({f}, m) \in MasksFor(f)
        /\ Cell({f}, m).do = "cell" /\ SetMask({f}, m).do = "mask"
    BY <1>2, <1>3, CalmSteps
  <2>2. "cell" \notin Ahead \union Middle /\ "mask" \notin Ahead \union Middle
    BY DEF Ahead, Middle
  <2>3. SetMask({f}, m) \notin Moves /\ SetMask({f}, m) \notin ToStop
    BY <2>1 DEF Moves, ToStop, Do
  <2>4. Len(b) = 1 /\ b[1] = SetMask({f}, m)
    OBVIOUS
  <2>5. Stays(b, Moves) /\ Stays(b, ToStop)
    BY <2>3, <2>4 DEF Stays
  <2> HIDE DEF n
  <2> QED
    BY <2>1, <2>2, <2>5, CalmOne
<1> HIDE DEF a, b
<1>5. a \o ResetFifo \in Seq(Calm(n)) /\ Whole(a \o ResetFifo)
  BY <1>4, ResetCalm, CalmSeq, Zenon
<1>6. s \in Seq(Calm(n)) /\ Whole(s)
  BY <1>4, <1>5, CalmSeq, Zenon
<1>7. Has(s, CellsFor(f)) /\ Has(s, MasksFor(f))
  <2>1. Has(a \o ResetFifo, CellsFor(f))
    BY <1>4, ResetCalm, HasJoined, Zenon
  <2> QED
    BY <1>4, <1>5, <2>1, HasJoined, Zenon
<1>8. Comes(s, Do({"flush"}), Moves) /\ Comes(s, Do({"run", "fifo_on", "biases"}), ToStop)
  <2>1. /\ Comes(a \o ResetFifo, Do({"flush"}), Moves)
        /\ Comes(a \o ResetFifo, Do({"run", "fifo_on", "biases"}), ToStop)
    BY <1>4, ResetCalm, Joined, Zenon
  <2> QED
    BY <1>4, <1>5, <2>1, Joined, Zenon
<1>9. SetQuaternion(f, m) = s
  BY Zenon DEF SetQuaternion, a, b
<1> HIDE DEF s
<1>10. since # "nothing" => Agrees(s, chip, handle)
  <2> SUFFICES ASSUME since # "nothing" PROVE Agrees(s, chip, handle)
    OBVIOUS
  <2>1. chip.on = handle.mask
    BY <1>2, KeptSoFar, Zenon
  <2>2. \A g \in Feature : /\ g = f \/ (g \in chip.on <=> g \in n)
                           /\ g = f \/ (g \in handle.mask <=> g \in n)
    BY <2>1
  <2>3. \A g \in Feature : /\ Has(s, CellsFor(g)) \/ (g \in chip.on <=> g \in n)
                           /\ Has(s, MasksFor(g)) \/ (g \in handle.mask <=> g \in n)
    BY <1>7, <2>2, Zenon
  <2> HIDE DEF n
  <2>4. Fresh(s, chip)
    BY <1>8, Zenon DEF Fresh
  <2> QED
    BY <1>3, <1>6, <2>3, <2>4, CalmAgrees, Zenon
<1>11. since = "init" => Runs(s, chip, handle, FALSE)
  BY <1>2, <1>6, <1>8, KeptSoFar, CalmRuns, Zenon
<1>12. /\ Begin("set_quaternion", s) /\ "set_quaternion" # "none"
       /\ "set_quaternion" # "dmp_init" /\ "set_quaternion" # "set_feature"
  BY <1>1, <1>9
<1> QED
  BY <1>10, <1>11, <1>12, PromiseBegins, Zenon

LEMMA CalibrateBegins == ASSUME IInv, PInv, CallSetGyroCalibrate PROVE PInv'
<1>1. PICK m \in {{}, {"gyro_cal"}} : Begin("set_gyro_calibrate", SetGyroCalibrate(m))
  BY DEF CallSetGyroCalibrate
<1> DEFINE f == "gyro_cal"
           n == (handle.mask \ {f}) \union (m \intersect {f})
           a == Cell({f}, m)
           b == SetMask({f}, m)
<1>2. Idle /\ handle.mask \in SUBSET Feature /\ {f} \in SUBSET Feature
  BY <1>1, KeptSoFar DEF Begin, Feature
<1>3. n \in SUBSET Feature /\ m \intersect {f} = n \intersect {f}
  BY <1>2
<1>4. /\ a \in Calm(n) /\ b \in Calm(n) /\ a \in CellsFor(f) /\ b \in MasksFor(f)
      /\ a.do = "cell" /\ a.of = {f} /\ b.do = "mask"
  <2> HIDE DEF n
  <2> QED
    BY <1>2, <1>3, CalmSteps
<1>5. SetGyroCalibrate(m) = <<a, b>>
  BY DEF SetGyroCalibrate
<1>6. f \notin Part
  BY DEF Part, Quaternion
<1> HIDE DEF a, b
<1>7. <<a, b>> \in Seq(Calm(n))
  BY <1>4
<1>8. a \in AStep \ Do(Ahead \union Middle) /\ b \in AStep \ Do(Ahead \union Middle)
  BY <1>4 DEF Calm, Agreeing, Do, Ahead, Middle
<1>9. <<a, b>> \in Seq(AStep \ Do(Ahead \union Middle))
  BY <1>8
<1>10. Whole(<<a, b>>)
  BY <1>9, PlainWhole
<1>11. Len(<<a, b>>) = 2 /\ <<a, b>>[1] = a /\ <<a, b>>[2] = b
  OBVIOUS
<1>12. /\ a \notin Moves /\ b \notin Moves /\ a \notin ToStop /\ b \notin ToStop
  BY <1>4, <1>6 DEF Moves, ToStop, Do
<1> DEFINE s == <<a, b>>
<1>13. Len(s) = 2 /\ s[1] = a /\ s[2] = b
  BY <1>11
<1>14. /\ Has(s, CellsFor(f)) /\ Has(s, MasksFor(f)) /\ Stays(s, Moves)
       /\ Stays(s, ToStop)
  <2> HIDE DEF s
  <2> QED
    BY <1>4, <1>12, <1>13 DEF Has, Stays
<1>15. s \in Seq(Calm(n)) /\ Whole(s) /\ Begin("set_gyro_calibrate", s)
  BY <1>1, <1>5, <1>7, <1>10
<1> HIDE DEF s
<1>16. since # "nothing" => Agrees(s, chip, handle)
  <2> SUFFICES ASSUME since # "nothing" PROVE Agrees(s, chip, handle)
    OBVIOUS
  <2>1. chip.on = handle.mask /\ chip.queued \subseteq {Layout(chip.on)}
    BY <1>2, KeptSoFar, Zenon
  <2>2. \A g \in Feature : /\ g = f \/ (g \in chip.on <=> g \in n)
                           /\ g = f \/ (g \in handle.mask <=> g \in n)
    BY <2>1
  <2>3. \A g \in Feature : /\ Has(s, CellsFor(g)) \/ (g \in chip.on <=> g \in n)
                           /\ Has(s, MasksFor(g)) \/ (g \in handle.mask <=> g \in n)
    BY <1>14, <2>2, Zenon
  <2> HIDE DEF n
  <2>4. Fresh(s, chip)
    BY <1>14, <2>1, Zenon DEF Fresh
  <2> QED
    BY <1>3, <1>15, <2>3, <2>4, CalmAgrees, Zenon
<1>17. since = "init" => Runs(s, chip, handle, FALSE)
  BY <1>2, <1>14, <1>15, KeptSoFar, CalmRuns, Zenon
<1>18. /\ "set_gyro_calibrate" # "none" /\ "set_gyro_calibrate" # "dmp_init"
       /\ "set_gyro_calibrate" # "set_feature"
  OBVIOUS
<1> QED
  BY <1>15, <1>16, <1>17, <1>18, PromiseBegins, Zenon

(* One step that is neither a write of memory nor of USER_CTRL. *)
LEMMA OneBegins ==
  ASSUME IInv, PInv, NEW name, name \notin {"none", "set_feature", "dmp_init"},
         NEW x \in {"dmp_on", "dmp_off", "drain"}, Begin(name, <<Step(x)>>)
  PROVE  PInv'
<1> DEFINE a == Step(x)
           n == handle.mask
<1>1. a \in Calm(n) /\ a.do = x
  <2> HIDE DEF n
  <2> QED
    BY CalmSteps
<1>2. a.do \notin Ahead \union Middle /\ a \notin Moves /\ a \notin ToStop
  BY <1>1 DEF Ahead, Middle, Moves, ToStop, Do
<1>3. Begin(name, <<a>>)
  OBVIOUS
<1> HIDE DEF a, n
<1>4. <<a>> \in Seq(Calm(n)) /\ Whole(<<a>>)
  BY <1>1, <1>2, CalmOne, Zenon
<1>5. Stays(<<a>>, Moves) /\ Stays(<<a>>, ToStop)
  <2>1. Len(<<a>>) = 1 /\ <<a>>[1] = a
    OBVIOUS
  <2> QED
    BY <1>2, <2>1 DEF Stays
<1> QED
  BY <1>3, <1>4, <1>5, ReadBegins, Zenon DEF n

LEMMA ResetBegins ==
  ASSUME IInv, PInv, NEW name, name \notin {"none", "set_feature", "dmp_init"},
         Begin(name, ResetFifo)
  PROVE  PInv'
BY ResetCalm, ReadBegins, Zenon

LEMMA UndoneBegins ==
  ASSUME IInv, PInv, NEW name, NEW steps, name \in Undone, name # "none",
         Begin(name, steps)
  PROVE  PInv'
BY PromiseBegins, Zenon

LEMMA CallPromises == ASSUME IInv, PInv, Call PROVE PInv'
<1>1. CASE CallDmpInit
  BY <1>1, InitPromises, PromiseBegins DEF CallDmpInit
<1>2. CASE CallInit \/ CallLoad \/ CallSelfTest \/ CallDeinit
  BY <1>2, UndoneBegins
    DEF CallInit, CallLoad, CallSelfTest, CallDeinit, Undone
<1>3. CASE CallForceReset
  BY <1>3, ResetBegins DEF CallForceReset
<1>4. CASE CallSetFeature
  BY <1>4, FeatureBegins
<1>5. CASE CallSetQuaternion
  BY <1>5, QuaternionBegins
<1>6. CASE CallSetGyroCalibrate
  BY <1>6, CalibrateBegins
<1>7. CASE CallSetEnable
  BY <1>7, OneBegins DEF CallSetEnable
<1>8. CASE CallRead
  BY <1>8, OneBegins, ResetBegins DEF CallRead
<1> QED
  BY <1>1, <1>2, <1>3, <1>4, <1>5, <1>6, <1>7, <1>8, Zenon DEF Call

-----------------------------------------------------------------------------
(* A step taken keeps the promise, and the last one redeems it. *)
LEMMA TodoSteps == IInv => todo \in Seq(AStep)
<1> SUFFICES ASSUME IInv PROVE todo \in Seq(AStep)
  OBVIOUS
<1>1. CASE call = "none"
  BY <1>1 DEF IInv, Todo
<1>2. CASE call = "dmp_init" /\ InitRuns
  BY <1>2 DEF InitRuns, Opens
<1>3. CASE call = "dmp_init" /\ InitCloses
  <2>1. Step("sleep") \in AStep /\ Step("close") \in AStep
    BY StepsAre DEF Doing
  <2> QED
    BY <1>3, <2>1 DEF InitCloses
<1>4. CASE call = "load"
  BY <1>4, QuietSeq DEF IInv, Todo
<1>5. CASE call \notin {"none", "dmp_init", "load"}
  BY <1>5, QuietSeq DEF IInv, Todo
<1> QED
  BY <1>1, <1>2, <1>3, <1>4, <1>5 DEF IInv, Todo

LEMMA AdvancePromises == ASSUME IInv, PInv, Advance PROVE PInv'
<1>1. /\ todo # <<>> /\ failed' = failed
      /\ chip' \in Outcomes(Head(todo), chip)
      /\ handle' = Handled(Head(todo), handle)
      /\ saved' = IF Head(todo).do = "mask_irq" THEN chip.irq ELSE saved
      /\ Len(todo) > 1 => todo' = Tail(todo) /\ call' = call /\ since' = since
      /\ ~ (Len(todo) > 1) =>
           /\ call' = "none" /\ todo' = <<>>
           /\ since' = IF failed = "none" THEN Established ELSE since
  BY DEF Advance, Return
<1>2. /\ todo \in Seq(AStep) /\ chip \in Chips /\ handle \in Handles
      /\ saved \in BOOLEAN
  BY TodoSteps DEF IInv, Types
<1>3. CASE failed # "none"
  <2>1. since = "nothing" /\ since' = "nothing" /\ failed' # "none"
    BY <1>1, <1>3 DEF PInv
  <2> QED
    BY <2>1, Zenon DEF PInv, Promise, LayoutAgrees, Running
<1>4. CASE failed = "none" /\ Len(todo) > 1
  <2>1. /\ todo' = Tail(todo) /\ call' = call /\ since' = since /\ failed' = "none"
        /\ call # "none"
    BY <1>1, <1>4 DEF IInv, Todo
  <2>2. Agrees(todo, chip, handle) => Agrees(Tail(todo), chip', handle')
    BY <1>1, <1>2, StepSettles, Zenon
  <2>3. Runs(todo, chip, handle, saved) => Runs(Tail(todo), chip', handle', saved')
    BY <1>1, <1>2, StepRuns
  <2>4. /\ Agrees(todo, chip, handle)' <=> Agrees(Tail(todo), chip', handle')
        /\ Runs(todo, chip, handle, saved)' <=> Runs(Tail(todo), chip', handle', saved')
    BY <2>1 DEF Agrees, Settles, Fresh, Runs, Powers, Holds, Lights, Lit
  <2>5. Promise'
    BY <1>4, <2>1, <2>2, <2>3, <2>4, Zenon DEF PInv, Promise
  <2> QED
    BY <2>1, <2>5, Zenon DEF PInv, LayoutAgrees, Running, Idle
<1>5. CASE failed = "none" /\ ~ (Len(todo) > 1)
  <2>1. /\ Tail(todo) = <<>> /\ call' = "none" /\ failed' = "none"
        /\ since' = Established /\ call # "none"
    <3>1. Len(Tail(todo)) = Len(todo) - 1 /\ Tail(todo) \in Seq(AStep) /\ Len(todo) \in Nat
      BY <1>1, <1>2, HeadTailProperties
    <3>2. Tail(todo) = <<>>
      BY <1>1, <1>2, <1>5, <3>1, EmptySeq
    <3> QED
      BY <1>1, <1>5, <3>2 DEF IInv, Todo
  <2>2. Promise'
    BY <2>1 DEF Promise, Undone
  <2>3. chip' \in Chips /\ handle' \in Handles
    BY AdvanceTypes DEF Types
  <2>4. ASSUME since' # "nothing"
        PROVE  chip'.on = handle'.mask /\ chip'.queued \subseteq {Layout(handle'.mask)}
    <3>1. call \notin Undone /\ (since # "nothing" \/ call \in {"set_feature", "dmp_init"})
      BY <2>1, <2>4 DEF Established, Undone
    <3>2. Agrees(todo, chip, handle)
      BY <1>5, <3>1, Zenon DEF PInv, Promise
    <3>3. Agrees(<<>>, chip', handle')
      BY <1>1, <1>2, <2>1, <3>2, StepSettles, Zenon
    <3> QED
      BY <2>3, <3>3, NothingLeft, Zenon
  <2>5. ASSUME since' = "init"
        PROVE  /\ ~ chip'.asleep /\ chip'.loaded /\ chip'.fifo /\ chip'.irq
               /\ handle'.inited /\ handle'.dmp_inited
    <3>1. call \notin Undone /\ (since = "init" \/ call = "dmp_init")
      BY <2>1, <2>5 DEF Established, Undone
    <3>2. Runs(todo, chip, handle, saved)
      BY <1>5, <3>1, Zenon DEF PInv, Promise
    <3>3. Runs(<<>>, chip', handle', saved')
      BY <1>1, <1>2, <2>1, <3>2, StepRuns
    <3> QED
      BY <2>3, <3>3, NothingLeft, Zenon
  <2>6. LayoutAgrees'
    BY <2>4, Zenon DEF LayoutAgrees
  <2>7. Running'
    BY <2>5, Zenon DEF Running, DmpInited
  <2> QED
    BY <2>1, <2>2, <2>6, <2>7 DEF PInv
<1> QED
  BY <1>3, <1>4, <1>5

(* A transfer that fails ends every promise. *)
LEMMA SlipPromises == ASSUME IInv, PInv, Slip PROVE PInv'
<1>1. Head(todo) \in AStep /\ todo # <<>>
  BY NextStep DEF Slip
<1>2. Head(todo).do # "none"
  BY <1>1 DEF AStep, Doing
<1>3. since' = "nothing" /\ failed' # "none"
  BY <1>2 DEF Slip
<1> QED
  BY <1>3, Zenon DEF PInv, Promise, LayoutAgrees, Running

(* A packet has the layout of the moment; where more cells are to be written the
   fifo is to be emptied too. *)
LEMMA ProducePromises == ASSUME IInv, PInv, Produce PROVE PInv'
<1>1. /\ chip' = [chip EXCEPT !.queued = {Layout(chip.on)}] /\ chip \in Chips
      /\ handle' = handle /\ call' = call /\ todo' = todo /\ saved' = saved
      /\ failed' = failed /\ since' = since
  BY DEF Produce, IInv, Types
<1>2. /\ chip'.on = chip.on /\ chip'.queued = {Layout(chip.on)}
      /\ chip'.asleep = chip.asleep /\ chip'.loaded = chip.loaded
      /\ chip'.fifo = chip.fifo /\ chip'.irq = chip.irq
  BY <1>1 DEF Chips
<1>3. Agrees(todo, chip, handle) => Agrees(todo, chip, handle)'
  <2>1. \A m : Settles(todo, m, chip, handle) <=> Settles(todo', m, chip', handle')
    BY <1>1, <1>2, Zenon DEF Settles
  <2>2. Fresh(todo, chip) => Fresh(todo', chip')
    BY <1>1, <1>2 DEF Fresh
  <2>3. Agrees(todo, chip, handle) => Agrees(todo', chip', handle')
    BY <1>1, <2>1, <2>2 DEF Agrees
  <2> QED
    BY <2>3 DEF Agrees, Settles, Fresh
<1>4. Runs(todo, chip, handle, saved) => Runs(todo, chip, handle, saved)'
  <2>1. Powers(todo, chip) <=> Powers(todo', chip')
    BY <1>1, <1>2, Zenon DEF Powers
  <2>2. Holds(todo, handle) <=> Holds(todo', handle')
    BY <1>1, Zenon DEF Holds
  <2>3. Lights(todo, chip, saved) <=> Lights(todo', chip', saved')
    BY <1>1, <1>2, Zenon DEF Lights, Lit
  <2>4. Runs(todo, chip, handle, saved) => Runs(todo', chip', handle', saved')
    BY <1>1, <2>1, <2>2, <2>3, Zenon DEF Runs
  <2> QED
    BY <2>4 DEF Runs, Powers, Holds, Lights, Lit
<1>5. Promise'
  BY <1>1, <1>3, <1>4, Zenon DEF PInv, Promise
<1>6. LayoutAgrees'
  BY <1>1, <1>2 DEF PInv, LayoutAgrees, Idle
<1>7. Running'
  BY <1>1, <1>2, Zenon DEF PInv, Running, Idle, DmpInited
<1> QED
  BY <1>1, <1>5, <1>6, <1>7 DEF PInv

LEMMA PromiseKept == ASSUME IInv, PInv, [Next]_vars PROVE PInv'
<1>1. CASE UNCHANGED vars
  <2>1. /\ handle' = handle /\ chip' = chip /\ call' = call /\ todo' = todo
        /\ saved' = saved /\ failed' = failed /\ since' = since
    BY <1>1 DEF vars
  <2>2. Agrees(todo, chip, handle)' <=> Agrees(todo, chip, handle)
    BY <2>1 DEF Agrees, Settles, Fresh
  <2>3. Runs(todo, chip, handle, saved)' <=> Runs(todo, chip, handle, saved)
    BY <2>1 DEF Runs, Powers, Holds, Lights, Lit
  <2>4. Promise'
    BY <2>1, <2>2, <2>3, Zenon DEF PInv, Promise
  <2>5. LayoutAgrees' /\ Running'
    BY <2>1, Zenon DEF PInv, LayoutAgrees, Running, Idle, DmpInited
  <2> QED
    BY <2>1, <2>4, <2>5 DEF PInv
<1> QED
  BY <1>1, CallPromises, AdvancePromises, SlipPromises, ProducePromises DEF Next

LEMMA PromiseInit == Init => PInv
BY DEF Init, PInv, Promise, Undone, LayoutAgrees, Running

-----------------------------------------------------------------------------
(* The handle, the chip and the calls keep their types, a DMP is initialised
   only in an open handle, and a call is in progress exactly while it has steps
   to take. *)
THEOREM TypeCorrect == Spec => []TypeOK
<1>1. Init => IInv
  BY InductiveInit
<1>2. IInv /\ [Next]_vars => IInv'
  BY InductiveStep
<1>3. IInv => TypeOK
  BY IInvSuffices
<1> QED
  BY <1>1, <1>2, <1>3, PTL DEF Spec

(* A dmp_init of which one transfer fails, whichever that is, whatever was
   called before and whatever features are asked for, leaves a closed handle
   and a chip that sleeps or never answered. *)
THEOREM FailedInitCloses == Spec => []InitFailsClosed
<1>1. Init => IInv
  BY InductiveInit
<1>2. IInv /\ [Next]_vars => IInv'
  BY InductiveStep
<1>3. IInv => InitFailsClosed
  BY DEF IInv
<1> QED
  BY <1>1, <1>2, <1>3, PTL DEF Spec

(* Once a set_feature or a dmp_init has succeeded, and for as long as no
   transfer fails, the mask is what the chip's memory sends and the fifo holds
   packets of that layout only: whatever the calls and their order, whatever
   features the program asks for and the firmware has switched on, and whenever
   the DMP writes a packet. *)
THEOREM LayoutsAgree == Spec => []LayoutAgrees
<1>1. Init => IInv /\ PInv
  BY InductiveInit, PromiseInit
<1>2. IInv /\ PInv /\ [Next]_vars => IInv' /\ PInv'
  BY InductiveStep, PromiseKept
<1>3. PInv => LayoutAgrees
  BY DEF PInv
<1> QED
  BY <1>1, <1>2, <1>3, PTL DEF Spec

(* And once a dmp_init has: the handle is open, the chip awake, its firmware
   loaded, its fifo and its interrupts on. *)
THEOREM ChipRuns == Spec => []Running
<1>1. Init => IInv /\ PInv
  BY InductiveInit, PromiseInit
<1>2. IInv /\ PInv /\ [Next]_vars => IInv' /\ PInv'
  BY InductiveStep, PromiseKept
<1>3. PInv => Running
  BY DEF PInv
<1> QED
  BY <1>1, <1>2, <1>3, PTL DEF Spec
=============================================================================
