-------------------------------- MODULE Pwm ---------------------------------
(***************************************************************************)
(* The class Pwm and ServoMotor on top of it: a channel of the kernel's pwm *)
(* class is exported, set and enabled by writing to files of sysfs, one     *)
(* after the other, with no look at what a write came to.  Processes follow *)
(* each other on one channel, and one that is killed leaves the channel as  *)
(* it was.                                                                  *)
(***************************************************************************)
EXTENDS Naturals

CONSTANTS
  Times,      \* bound: the periods and duty cycles that occur, 0 among them
  MaxDeaths   \* bound: how many processes are killed

(* Nanoseconds, which the class and the kernel count in integers. *)
ASSUME PwmAssumption == Times \subseteq Nat

VARIABLES
  chan,    \* the kernel's channel
  late,    \* its files are not there for this process yet
  parm,    \* the PwmPram of the object, a caller's or ServoMotor's
  step,    \* what the object does next
  apt,     \* no file was late, and what an earlier process left at the channel
           \* bars neither the period nor the polarity
  deaths   \* processes killed

pwmVars == <<chan, late, parm, step, apt, deaths>>

Parm == [polarity : BOOLEAN, period : Times, dutycycle : Times]

Reset == [exported |-> FALSE, period |-> 0, duty |-> 0, normal |-> TRUE,
          enabled |-> FALSE]

(* PwmPram's defaults, which is what ServoMotor passes. *)
ServoParm == [polarity |-> TRUE, period |-> 0, dutycycle |-> 0]

PwmBegin(p) ==
  /\ chan = Reset
  /\ late = FALSE
  /\ parm = p
  /\ step = "export"
  /\ apt = FALSE
  /\ deaths = 0

PwmInit == \E p \in Parm \union {ServoParm} : PwmBegin(p)

-----------------------------------------------------------------------------
(* What the kernel makes of a write: it refuses a duty cycle longer than the
   period, a period of 0, one shorter than the duty cycle, a polarity while
   enabled, and to enable a channel without a period. *)
Takes(field, new) ==
  /\ chan.exported /\ ~late
  /\ new.duty <= new.period
  /\ field = "period" => new.period # 0
  /\ field = "normal" /\ chan.enabled => new.normal = chan.normal
  /\ field = "enabled" /\ new.enabled => chan.period # 0

Set(field, value) ==
  LET new == [chan EXCEPT ![field] = value]
  IN chan' = IF Takes(field, new) THEN new ELSE chan

Files == late' \in {late, FALSE}

(* SetupPwm: an exported channel cannot be exported again.  The files may
   take a moment until this process can open them. *)
SetupPwm ==
  /\ step = "export"
  /\ chan' = [chan EXCEPT !.exported = TRUE]
  /\ late' \in BOOLEAN
  /\ apt' = /\ ~late' /\ chan.duty <= parm.period
            /\ chan.enabled => chan.normal = parm.polarity
  /\ step' = "period"
  /\ UNCHANGED <<parm, deaths>>

(* PwmPeriod that gives the duty cycle to the wrong file (a mutant). *)
PwmPeriodLate ==
  /\ step = "period"
  /\ Set("duty", parm.dutycycle)
  /\ step' = "duty"
  /\ Files
  /\ UNCHANGED <<parm, apt, deaths>>

PwmPeriod ==
  /\ step = "period"
  /\ Set("period", parm.period)
  /\ step' = "duty"
  /\ Files
  /\ UNCHANGED <<parm, apt, deaths>>

PwmDutyCycle ==
  /\ step = "duty"
  /\ Set("duty", parm.dutycycle)
  /\ step' = "polarity"
  /\ Files
  /\ UNCHANGED <<parm, apt, deaths>>

PwmPolarity ==
  /\ step = "polarity"
  /\ Set("normal", parm.polarity)
  /\ step' = "enable"
  /\ Files
  /\ UNCHANGED <<parm, apt, deaths>>

PwmEnable ==
  /\ step = "enable"
  /\ Set("enabled", TRUE)
  /\ step' = "use"
  /\ Files
  /\ UNCHANGED <<parm, apt, deaths>>

(* A caller's PwmDutyCycle, or servo(angle), 1 to 2 ms for 0 to 90 degrees. *)
Turn(duty) ==
  /\ step = "use"
  /\ Set("duty", duty)
  /\ parm' = [parm EXCEPT !.dutycycle =
                IF chan.exported /\ ~late THEN duty ELSE parm.dutycycle]
  /\ Files
  /\ UNCHANGED <<step, apt, deaths>>

(* ~Pwm *)
PwmDisable ==
  /\ step = "use"
  /\ Set("enabled", FALSE)
  /\ step' = "unexport"
  /\ Files
  /\ UNCHANGED <<parm, apt, deaths>>

(* An unexport that cannot be opened ends the process by an assert, which is
   Killed at this step. *)
UnExportPwm ==
  /\ step = "unexport"
  /\ chan' = [chan EXCEPT !.exported = FALSE]
  /\ step' = "gone"
  /\ late' = FALSE
  /\ UNCHANGED <<parm, apt, deaths>>

(* The process ends without the destructor; *)
Killed ==
  /\ step # "gone" /\ deaths < MaxDeaths
  /\ deaths' = deaths + 1
  /\ step' = "gone"
  /\ late' = FALSE
  /\ UNCHANGED <<chan, parm, apt>>

(* and another one begins. *)
Restart ==
  /\ step = "gone"
  /\ parm' \in Parm \union {ServoParm}
  /\ step' = "export"
  /\ UNCHANGED <<chan, late, apt, deaths>>

PwmNext ==
  \/ SetupPwm \/ PwmPeriod \/ PwmDutyCycle \/ PwmPolarity \/ PwmEnable
  \/ \E duty \in Times : Turn(duty)
  \/ PwmDisable \/ UnExportPwm \/ Killed \/ Restart

PwmSpec == PwmInit /\ [][PwmNext]_pwmVars

-----------------------------------------------------------------------------
(* Whoever has built a Pwm with values that fit together (a period, and a duty
   cycle within it), and a channel that does not bar them, has the pin pulse
   as asked, also after an earlier process was killed and whatever it had set
   there.  The order in which the constructor writes is what matters. *)
PwmAsAsked ==
  step = "use" /\ apt /\ 0 < parm.period /\ parm.dutycycle <= parm.period =>
    chan = [exported |-> TRUE, period |-> parm.period, duty |-> parm.dutycycle,
            normal |-> parm.polarity, enabled |-> TRUE]
=============================================================================
