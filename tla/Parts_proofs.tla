---------------------------- MODULE Parts_proofs ----------------------------
(***************************************************************************)
(* The parts that share no state: the two that write files, PwmAsAsked for *)
(* any periods and duty cycles, and LogEndsWithNewest for lines of any     *)
(* lengths and any bound of the file, with any number of processes that    *)
(* are killed on the way; and the functions, for any input: the samples    *)
(* that are made of bytes, the chip's orientation, what is drawn, what the *)
(* two buses carry.                                                        *)
(***************************************************************************)
EXTENDS MCParts, TLAPS, FiniteSetTheorems, SequenceTheorems

(* Induction over the naturals, for a set where the library's theorem has an
   operator; from the pigeonhole principle: below a number outside T, the
   successor would map a finite part of T into itself without 0. *)
LEMMA Induct ==
  ASSUME NEW T, 0 \in T, \A num \in Nat : num \in T => num + 1 \in T
  PROVE  \A num \in Nat : num \in T
<1> SUFFICES ASSUME NEW num \in Nat, num \notin T PROVE FALSE
  OBVIOUS
<1> DEFINE A == {k \in 0 .. num : k \in T}
           f == [k \in A |-> k + 1]
<1>1. IsFiniteSet(A) /\ Cardinality(A) \in Nat
  <2>1. IsFiniteSet(0 .. num)
    BY FS_Interval
  <2>2. A \in SUBSET (0 .. num)
    OBVIOUS
  <2> HIDE DEF A
  <2>3. IsFiniteSet(A)
    BY <2>1, <2>2, FS_Subset
  <2> QED
    BY <2>3, FS_CardinalityType
<1>2. IsFiniteSet(A \ {0}) /\ Cardinality(A \ {0}) < Cardinality(A)
  <2>1. 0 \in A
    OBVIOUS
  <2>2. IsFiniteSet(A \ {0}) /\ Cardinality(A \ {0}) = Cardinality(A) - 1
    BY <1>1, <2>1, FS_RemoveElement
  <2> QED
    BY <1>1, <2>2
<1>3. f \in [A -> A \ {0}]
  <2>1. ASSUME NEW k \in A PROVE k + 1 \in A \ {0}
    <3>1. k \in Nat /\ k <= num /\ k \in T
      OBVIOUS
    <3>2. k # num
      BY <3>1
    <3> QED
      BY <3>1, <3>2
  <2> QED
    BY <2>1
<1>4. A \subseteq Nat /\ \A k \in A : f[k] = k + 1
  OBVIOUS
<1> HIDE DEF A, f
<1>5. PICK x \in A, y \in A : x # y /\ f[x] = f[y]
  BY <1>1, <1>2, <1>3, FS_PigeonHole
<1> QED
  BY <1>4, <1>5

-----------------------------------------------------------------------------
(* What is defined from its predecessor exists. *)
Iterates(f, num, S, s0, move) ==
  /\ f \in [0 .. num -> S] /\ f[0] = s0
  /\ \A k \in 1 .. num : f[k] = move[k][f[k - 1]]

LEMMA IterationExists ==
  ASSUME NEW num \in Nat, NEW S, NEW s0 \in S, NEW move \in [1 .. num -> [S -> S]]
  PROVE  \E f : Iterates(f, num, S, s0, move)
<1> DEFINE T == {m \in Nat : m <= num => \E f : Iterates(f, m, S, s0, move)}
<1>1. 0 \in T
  <2>1. Iterates([k \in 0 .. 0 |-> s0], 0, S, s0, move)
    BY DEF Iterates
  <2> QED
    BY <2>1
<1>2. ASSUME NEW m \in Nat, m \in T PROVE m + 1 \in T
  <2> SUFFICES ASSUME m + 1 <= num PROVE \E f : Iterates(f, m + 1, S, s0, move)
    OBVIOUS
  <2>1. m <= num /\ m + 1 \in 1 .. num
    OBVIOUS
  <2>2. PICK f : Iterates(f, m, S, s0, move)
    BY <1>2, <2>1
  <2> DEFINE g == [k \in 0 .. m + 1 |-> IF k <= m THEN f[k] ELSE move[m + 1][f[m]]]
  <2>3. f[m] \in S /\ move[m + 1][f[m]] \in S
    BY <2>1, <2>2 DEF Iterates
  <2>4. g \in [0 .. m + 1 -> S] /\ g[0] = s0
    BY <2>2, <2>3 DEF Iterates
  <2>5. ASSUME NEW k \in 1 .. m + 1 PROVE g[k] = move[k][g[k - 1]]
    <3>1. k - 1 \in 0 .. m /\ g[k - 1] = f[k - 1]
      OBVIOUS
    <3>2. CASE k = m + 1
      BY <3>1, <3>2
    <3>3. CASE k # m + 1
      <4>1. k \in 1 .. m /\ g[k] = f[k]
        BY <3>3
      <4> QED
        BY <2>2, <3>1, <4>1 DEF Iterates
    <3> QED
      BY <3>2, <3>3
  <2>6. Iterates(g, m + 1, S, s0, move)
    BY <2>4, <2>5 DEF Iterates
  <2> QED
    BY <2>6
<1> HIDE DEF T
<1>3. num \in T
  BY <1>1, <1>2, Induct
<1> QED
  BY <1>3 DEF T

(* Whatever holds of the first and is handed on holds of all. *)
LEMMA IterationKeeps ==
  ASSUME NEW num \in Nat, NEW f, NEW P, 0 \in P,
         \A k \in 1 .. num : k - 1 \in P => k \in P
  PROVE  \A k \in 0 .. num : k \in P
<1> DEFINE T == {m \in Nat : m <= num => m \in P}
<1>1. 0 \in T
  OBVIOUS
<1>2. ASSUME NEW m \in Nat, m \in T PROVE m + 1 \in T
  BY <1>2
<1> HIDE DEF T
<1>3. \A m \in Nat : m \in T
  BY <1>1, <1>2, Induct
<1> QED
  BY <1>3 DEF T

-----------------------------------------------------------------------------
(* Nanoseconds, which the class and the kernel count in integers. *)
WholeTimes == Times \subseteq Nat

Channel == [exported : BOOLEAN, period : Nat, duty : Nat, normal : BOOLEAN,
            enabled : BOOLEAN]

TypeInv ==
  /\ chan \in Channel
  /\ parm \in [polarity : BOOLEAN, period : Nat, dutycycle : Nat]
  /\ late \in BOOLEAN /\ apt \in BOOLEAN
  /\ step \in {"export", "period", "duty", "polarity", "enable", "use",
               "unexport", "gone"}

Working == {"period", "duty", "polarity", "enable", "use"}

(* The files are there, and no polarity is in the way. *)
Reachable ==
  apt /\ step \in Working => ~late /\ chan.exported

(* What the constructor has got the kernel to take when it is at a step. *)
PeriodSet ==
  apt /\ 0 < parm.period =>
    /\ step \in {"period"} => chan.duty <= parm.period
    /\ step \in Working \ {"period"} => /\ chan.period = parm.period
                                        /\ chan.duty <= parm.period
DutySet ==
  /\ apt /\ 0 < parm.period /\ parm.dutycycle <= parm.period
  /\ step \in {"polarity", "enable", "use"}
  => chan.duty = parm.dutycycle
PolaritySet ==
  apt =>
    /\ step \in {"period", "duty", "polarity"} =>
         (chan.enabled => chan.normal = parm.polarity)
    /\ step \in {"enable", "use"} /\ 0 < parm.period => chan.normal = parm.polarity
EnableSet == apt /\ 0 < parm.period /\ step = "use" => chan.enabled

IInv == TypeInv /\ Reachable /\ PeriodSet /\ DutySet /\ PolaritySet /\ EnableSet

-----------------------------------------------------------------------------
LEMMA ParmType ==
  ASSUME WholeTimes
  PROVE  Parm \union {ServoParm} \subseteq
           [polarity : BOOLEAN, period : Nat, dutycycle : Nat]
<1>1. \A p \in Parm : p \in [polarity : BOOLEAN, period : Nat, dutycycle : Nat]
  BY DEF Parm, WholeTimes
<1>2. ServoParm \in [polarity : BOOLEAN, period : Nat, dutycycle : Nat]
  BY DEF ServoParm
<1> QED
  BY <1>1, <1>2

LEMMA InductiveInit == ASSUME WholeTimes, PwmInit PROVE IInv
<1> SUFFICES ASSUME NEW p \in Parm \union {ServoParm}, PwmBegin(p) PROVE IInv
  BY DEF PwmInit
<1>2. TypeInv
  BY ParmType DEF TypeInv, PwmBegin, Reset, Channel
<1>3. apt = FALSE
  BY DEF PwmBegin
<1> QED
  BY <1>2, <1>3 DEF IInv, Reachable, PeriodSet, DutySet, PolaritySet, EnableSet

(* What a write to each of the files leaves. *)
LEMMA PeriodWritten ==
  ASSUME TypeInv, NEW v \in Nat, Set("period", v)
  PROVE  /\ chan' \in {chan, [chan EXCEPT !.period = v]}
         /\ chan.exported /\ ~late /\ v # 0 /\ chan.duty <= v =>
              chan' = [chan EXCEPT !.period = v]
<1> DEFINE new == [chan EXCEPT !.period = v]
<1>1. chan' = IF Takes("period", new) THEN new ELSE chan
  BY DEF Set
<1>2. new.duty = chan.duty /\ new.period = v
  BY DEF TypeInv, Channel
<1>3. chan.exported /\ ~late /\ v # 0 /\ chan.duty <= v => Takes("period", new)
  BY <1>2 DEF Takes
<1> QED
  BY <1>1, <1>3

LEMMA DutyWritten ==
  ASSUME TypeInv, NEW v \in Nat, Set("duty", v)
  PROVE  /\ chan' \in {chan, [chan EXCEPT !.duty = v]}
         /\ chan.exported /\ ~late /\ v <= chan.period =>
              chan' = [chan EXCEPT !.duty = v]
         /\ chan' = [chan EXCEPT !.duty = v] => chan' = chan \/ v <= chan.period
<1> DEFINE new == [chan EXCEPT !.duty = v]
<1>1. chan' = IF Takes("duty", new) THEN new ELSE chan
  BY DEF Set
<1>2. new.duty = v /\ new.period = chan.period
  BY DEF TypeInv, Channel
<1>3. chan.exported /\ ~late /\ v <= chan.period => Takes("duty", new)
  BY <1>2 DEF Takes
<1>4. Takes("duty", new) => v <= chan.period
  BY <1>2 DEF Takes
<1> QED
  BY <1>1, <1>3, <1>4

LEMMA PolarityWritten ==
  ASSUME TypeInv, NEW v \in BOOLEAN, Set("normal", v)
  PROVE  /\ chan' \in {chan, [chan EXCEPT !.normal = v]}
         /\ /\ chan.exported /\ ~late /\ chan.duty <= chan.period
            /\ chan.enabled => chan.normal = v
            => chan' = [chan EXCEPT !.normal = v]
<1> DEFINE new == [chan EXCEPT !.normal = v]
<1>1. chan' = IF Takes("normal", new) THEN new ELSE chan
  BY DEF Set
<1>2. new.duty = chan.duty /\ new.period = chan.period /\ new.normal = v
  BY DEF TypeInv, Channel
<1>3. /\ chan.exported /\ ~late /\ chan.duty <= chan.period
      /\ chan.enabled => chan.normal = v
      => Takes("normal", new)
  BY <1>2, Zenon DEF Takes
<1> QED
  BY <1>1, <1>3

LEMMA EnableWritten ==
  ASSUME TypeInv, NEW v \in BOOLEAN, Set("enabled", v)
  PROVE  /\ chan' \in {chan, [chan EXCEPT !.enabled = v]}
         /\ /\ chan.exported /\ ~late /\ chan.duty <= chan.period
            /\ chan.period # 0
            => chan' = [chan EXCEPT !.enabled = v]
<1> DEFINE new == [chan EXCEPT !.enabled = v]
<1>1. chan' = IF Takes("enabled", new) THEN new ELSE chan
  BY DEF Set
<1>2. new.duty = chan.duty /\ new.period = chan.period
  BY DEF TypeInv, Channel
<1>3. /\ chan.exported /\ ~late /\ chan.duty <= chan.period /\ chan.period # 0
      => Takes("enabled", new)
  BY <1>2, Zenon DEF Takes
<1> QED
  BY <1>1, <1>3

-----------------------------------------------------------------------------
(* A step of the constructor or of the destructor: the object's values stay,
   and no file goes away. *)
LEMMA Kept ==
  ASSUME IInv, PwmPeriod \/ PwmDutyCycle \/ PwmPolarity \/ PwmEnable \/ PwmDisable
  PROVE  /\ TypeInv /\ parm' = parm /\ apt' = apt /\ late' \in {late, FALSE}
         /\ parm.period \in Nat /\ parm.dutycycle \in Nat
         /\ parm.polarity \in BOOLEAN /\ chan.period \in Nat /\ chan.duty \in Nat
<1>1. TypeInv /\ parm' = parm /\ apt' = apt /\ late' \in {late, FALSE}
  BY DEF IInv, PwmPeriod, PwmDutyCycle, PwmPolarity, PwmEnable, PwmDisable, Files
<1> QED
  BY <1>1 DEF TypeInv, Channel

LEMMA AfterSetup == ASSUME IInv, SetupPwm PROVE IInv'
<1>1. TypeInv'
  BY DEF IInv, TypeInv, SetupPwm, Channel
<1>2. /\ step' = "period" /\ parm' = parm /\ chan'.exported /\ chan'.duty = chan.duty
      /\ chan'.enabled = chan.enabled /\ chan'.normal = chan.normal
      /\ apt' => ~late' /\ chan.duty <= parm.period
      /\ apt' => (chan.enabled => chan.normal = parm.polarity)
  BY DEF IInv, TypeInv, SetupPwm, Channel
<1>3. Reachable' /\ PolaritySet'
  BY <1>2, Zenon DEF Reachable, PolaritySet
<1>4. PeriodSet' /\ DutySet' /\ EnableSet'
  BY <1>2 DEF PeriodSet, DutySet, EnableSet, Working
<1> QED
  BY <1>1, <1>3, <1>4 DEF IInv

LEMMA AfterPeriod == ASSUME IInv, PwmPeriod PROVE IInv'
<1> DEFINE new == [chan EXCEPT !.period = parm.period]
<1>0. TypeInv /\ parm' = parm /\ apt' = apt /\ late' \in {late, FALSE}
  BY Kept
<1>1. /\ chan' \in {chan, new}
      /\ chan.exported /\ ~late /\ parm.period # 0 /\ chan.duty <= parm.period =>
           chan' = new
  BY Kept, PeriodWritten DEF PwmPeriod
<1>2. /\ step = "period" /\ step' = "duty"
      /\ chan'.exported = chan.exported /\ chan'.duty = chan.duty
      /\ chan'.normal = chan.normal /\ chan'.enabled = chan.enabled
      /\ new.period = parm.period
  BY Kept, <1>1 DEF PwmPeriod, TypeInv, Channel
<1>3. TypeInv'
  BY Kept, <1>1, <1>2 DEF TypeInv, Channel
<1>4. Reachable' /\ PolaritySet'
  <2>1. Reachable'
    BY <1>0, <1>2, Zenon DEF IInv, Reachable, Working
  <2>2. PolaritySet'
    BY <1>0, <1>2, Zenon DEF IInv, PolaritySet
  <2> QED
    BY <2>1, <2>2
<1>5. apt => chan.exported /\ ~late
  BY <1>2, Zenon DEF IInv, Reachable, Working
<1>6. apt /\ 0 < parm.period => chan.duty <= parm.period
  BY <1>2 DEF IInv, PeriodSet
<1>7. ASSUME apt, 0 < parm.period PROVE chan' = new
  BY Kept, <1>1, <1>5, <1>6, <1>7
<1>8. PeriodSet'
  BY Kept, <1>2, <1>6, <1>7 DEF PeriodSet, Working
<1>9. DutySet' /\ EnableSet'
  BY <1>2 DEF DutySet, EnableSet
<1> QED
  BY <1>3, <1>4, <1>8, <1>9 DEF IInv

LEMMA AfterDutyCycle == ASSUME IInv, PwmDutyCycle PROVE IInv'
<1> DEFINE new == [chan EXCEPT !.duty = parm.dutycycle]
<1>0. TypeInv /\ parm' = parm /\ apt' = apt /\ late' \in {late, FALSE}
  BY Kept
<1>1. /\ chan' \in {chan, new}
      /\ chan.exported /\ ~late /\ parm.dutycycle <= chan.period => chan' = new
      /\ chan' = new => chan' = chan \/ parm.dutycycle <= chan.period
  BY Kept, DutyWritten DEF PwmDutyCycle
<1>2. /\ step = "duty" /\ step' = "polarity"
      /\ chan'.exported = chan.exported /\ chan'.period = chan.period
      /\ chan'.normal = chan.normal /\ chan'.enabled = chan.enabled
      /\ new.duty = parm.dutycycle
  BY Kept, <1>1 DEF PwmDutyCycle, TypeInv, Channel
<1>3. TypeInv'
  BY Kept, <1>1, <1>2 DEF TypeInv, Channel
<1>4. Reachable' /\ PolaritySet'
  <2>1. Reachable'
    BY <1>0, <1>2, Zenon DEF IInv, Reachable, Working
  <2>2. PolaritySet'
    BY <1>0, <1>2, Zenon DEF IInv, PolaritySet
  <2> QED
    BY <2>1, <2>2
<1>5. apt => chan.exported /\ ~late
  BY <1>2, Zenon DEF IInv, Reachable, Working
<1>6. apt /\ 0 < parm.period => chan.period = parm.period /\ chan.duty <= parm.period
  BY <1>2 DEF IInv, PeriodSet, Working
<1>7. PeriodSet'
  BY Kept, <1>1, <1>2, <1>6 DEF PeriodSet, Working
<1>8. ASSUME apt, 0 < parm.period, parm.dutycycle <= parm.period
      PROVE  chan' = new
  BY <1>1, <1>5, <1>6, <1>8
<1>9. DutySet' /\ EnableSet'
  <2>1. DutySet'
    BY Kept, <1>2, <1>8 DEF DutySet
  <2>2. EnableSet'
    BY <1>2 DEF EnableSet
  <2> QED
    BY <2>1, <2>2
<1> QED
  BY <1>3, <1>4, <1>7, <1>9 DEF IInv

LEMMA AfterPolarity == ASSUME IInv, PwmPolarity PROVE IInv'
<1> DEFINE new == [chan EXCEPT !.normal = parm.polarity]
<1>0. TypeInv /\ parm' = parm /\ apt' = apt /\ late' \in {late, FALSE}
  BY Kept
<1>1. /\ chan' \in {chan, new}
      /\ /\ chan.exported /\ ~late /\ chan.duty <= chan.period
         /\ chan.enabled => chan.normal = parm.polarity
         => chan' = new
  BY Kept, PolarityWritten DEF PwmPolarity
<1>2. /\ step = "polarity" /\ step' = "enable"
      /\ chan'.exported = chan.exported /\ chan'.period = chan.period
      /\ chan'.duty = chan.duty /\ chan'.enabled = chan.enabled
      /\ new.normal = parm.polarity
  BY Kept, <1>1 DEF PwmPolarity, TypeInv, Channel
<1>3. TypeInv'
  BY Kept, <1>1, <1>2 DEF TypeInv, Channel
<1>4. Reachable'
  BY Kept, <1>2, Zenon DEF IInv, Reachable, Working
<1>5. apt => /\ chan.exported /\ ~late
             /\ chan.enabled => chan.normal = parm.polarity
  BY <1>2, Zenon DEF IInv, Reachable, PolaritySet, Working
<1>6. apt /\ 0 < parm.period => chan.period = parm.period /\ chan.duty <= parm.period
  BY <1>2 DEF IInv, PeriodSet, Working
<1>7. PeriodSet' /\ DutySet' /\ EnableSet'
  <2>1. PeriodSet'
    BY Kept, <1>2, <1>6 DEF PeriodSet, Working
  <2>2. DutySet'
    BY <1>0, <1>2, Zenon DEF IInv, DutySet
  <2>3. EnableSet'
    BY <1>2 DEF EnableSet
  <2> QED
    BY <2>1, <2>2, <2>3
<1>8. apt /\ 0 < parm.period => chan.duty <= chan.period
  BY <1>6
<1>9. apt /\ 0 < parm.period => chan' = new
  BY <1>1, <1>5, <1>8, Zenon
<1>10. PolaritySet'
  BY Kept, <1>2, <1>9, Zenon DEF PolaritySet
<1> QED
  BY <1>3, <1>4, <1>7, <1>10 DEF IInv

LEMMA AfterEnable == ASSUME IInv, PwmEnable PROVE IInv'
<1> DEFINE new == [chan EXCEPT !.enabled = TRUE]
<1>0. TypeInv /\ parm' = parm /\ apt' = apt /\ late' \in {late, FALSE}
  BY Kept
<1>1. /\ chan' \in {chan, new}
      /\ /\ chan.exported /\ ~late /\ chan.duty <= chan.period
         /\ chan.period # 0
         => chan' = new
  BY Kept, EnableWritten DEF PwmEnable
<1>2. /\ step = "enable" /\ step' = "use"
      /\ chan'.exported = chan.exported /\ chan'.period = chan.period
      /\ chan'.duty = chan.duty /\ chan'.normal = chan.normal
      /\ new.enabled = TRUE
  BY Kept, <1>1 DEF PwmEnable, TypeInv, Channel
<1>3. TypeInv'
  BY Kept, <1>1, <1>2 DEF TypeInv, Channel
<1>4. Reachable' /\ PolaritySet'
  <2>1. Reachable'
    BY <1>0, <1>2, Zenon DEF IInv, Reachable, Working
  <2>2. PolaritySet'
    BY <1>0, <1>2, Zenon DEF IInv, PolaritySet
  <2> QED
    BY <2>1, <2>2
<1>5. apt => chan.exported /\ ~late
  BY <1>2, Zenon DEF IInv, Reachable, Working
<1>6. apt /\ 0 < parm.period => chan.period = parm.period /\ chan.duty <= parm.period
  BY <1>2 DEF IInv, PeriodSet, Working
<1>7. PeriodSet' /\ DutySet'
  <2>1. PeriodSet'
    BY Kept, <1>2, <1>6 DEF PeriodSet, Working
  <2>2. DutySet'
    BY <1>0, <1>2, Zenon DEF IInv, DutySet
  <2> QED
    BY <2>1, <2>2
<1>8. apt /\ 0 < parm.period => chan.duty <= chan.period /\ chan.period # 0
  BY Kept, <1>6
<1>9. apt /\ 0 < parm.period => chan' = new
  BY <1>1, <1>5, <1>8, Zenon
<1>10. EnableSet'
  BY Kept, <1>2, <1>9, Zenon DEF EnableSet
<1> QED
  BY <1>3, <1>4, <1>7, <1>10 DEF IInv

LEMMA AfterTurn ==
  ASSUME IInv, NEW duty \in Nat, Turn(duty)
  PROVE  IInv'
<1> DEFINE new == [chan EXCEPT !.duty = duty]
<1>1. /\ TypeInv /\ apt' = apt /\ late' \in {late, FALSE}
      /\ step = "use" /\ step' = "use"
  BY DEF IInv, Turn, Files
<1>2. /\ chan' \in {chan, new}
      /\ chan.exported /\ ~late /\ duty <= chan.period => chan' = new
      /\ chan' = new => chan' = chan \/ duty <= chan.period
  BY <1>1, DutyWritten DEF Turn
<1>3. /\ parm'.period = parm.period /\ parm'.polarity = parm.polarity
      /\ parm'.dutycycle \in Nat
      /\ chan.exported /\ ~late => parm'.dutycycle = duty
      /\ parm' \in [polarity : BOOLEAN, period : Nat, dutycycle : Nat]
  BY <1>1 DEF Turn, TypeInv
<1>4. /\ chan'.exported = chan.exported /\ chan'.period = chan.period
      /\ chan'.normal = chan.normal /\ chan'.enabled = chan.enabled
      /\ new.duty = duty /\ chan.period \in Nat /\ chan.duty \in Nat
      /\ parm.period \in Nat
  BY <1>1, <1>2 DEF TypeInv, Channel
<1>5. TypeInv'
  BY <1>1, <1>2, <1>3 DEF TypeInv, Channel
<1>6. apt => chan.exported /\ ~late
  BY <1>1, Zenon DEF IInv, Reachable, Working
<1>7. apt /\ 0 < parm.period => chan.period = parm.period /\ chan.duty <= parm.period
  BY <1>1 DEF IInv, PeriodSet, Working
<1>8. Reachable'
  BY <1>1, <1>4, <1>6, Zenon DEF Reachable
<1>9. apt => (0 < parm.period => chan.normal = parm.polarity)
  BY <1>1, Zenon DEF IInv, PolaritySet
<1>10. PolaritySet'
  BY <1>1, <1>3, <1>4, <1>9, Zenon DEF PolaritySet
<1>11. EnableSet'
  BY <1>1, <1>3, <1>4, Zenon DEF IInv, EnableSet
<1>12. PeriodSet'
  BY <1>1, <1>2, <1>3, <1>4, <1>7 DEF PeriodSet, Working
<1>13. ASSUME apt, 0 < parm.period, parm'.dutycycle <= parm.period
       PROVE  chan'.duty = parm'.dutycycle
  BY <1>2, <1>3, <1>4, <1>6, <1>7, <1>13
<1>14. DutySet'
  BY <1>1, <1>3, <1>13 DEF DutySet
<1> QED
  BY <1>5, <1>8, <1>10, <1>11, <1>12, <1>14 DEF IInv

LEMMA AfterDisable == ASSUME IInv, PwmDisable PROVE IInv'
<1>1. chan' \in {chan, [chan EXCEPT !.enabled = FALSE]}
  BY Kept, EnableWritten DEF PwmDisable
<1>2. TypeInv'
  BY Kept, <1>1 DEF TypeInv, Channel, PwmDisable
<1>3. step' = "unexport"
  BY DEF PwmDisable
<1> QED
  BY <1>2, <1>3 DEF IInv, Reachable, PeriodSet, DutySet, PolaritySet, EnableSet,
                    Working

(* The steps after which no object is at work, or one that has done nothing. *)
LEMMA AfterRest ==
  ASSUME WholeTimes, IInv, UnExportPwm \/ Killed \/ Restart
  PROVE  IInv'
<1>1. TypeInv'
  <2>1. CASE UnExportPwm
    BY <2>1 DEF IInv, TypeInv, UnExportPwm, Channel
  <2>2. CASE Killed
    BY <2>2 DEF IInv, TypeInv, Killed
  <2>3. CASE Restart
    BY <2>3, ParmType DEF IInv, TypeInv, Restart
  <2> QED
    BY <2>1, <2>2, <2>3
<1>2. step' \in {"gone", "export"}
  BY DEF UnExportPwm, Killed, Restart
<1> QED
  BY <1>1, <1>2 DEF IInv, Reachable, PeriodSet, DutySet, PolaritySet, EnableSet,
                    Working

LEMMA InductiveStep == ASSUME WholeTimes, IInv, [PwmNext]_pwmVars PROVE IInv'
<1>1. ASSUME NEW duty \in Times, Turn(duty) PROVE IInv'
  BY <1>1, AfterTurn DEF WholeTimes
<1>2. CASE UNCHANGED pwmVars
  BY <1>2 DEF pwmVars, IInv, TypeInv, Reachable, PeriodSet, DutySet, PolaritySet,
              EnableSet
<1> QED
  BY <1>1, <1>2, AfterSetup, AfterPeriod, AfterDutyCycle, AfterPolarity,
     AfterEnable, AfterDisable, AfterRest DEF PwmNext

LEMMA IInvSuffices == ASSUME IInv PROVE PwmAsAsked
<1> SUFFICES ASSUME step = "use", apt, 0 < parm.period,
                    parm.dutycycle <= parm.period
             PROVE  chan = [exported |-> TRUE, period |-> parm.period,
                            duty |-> parm.dutycycle, normal |-> parm.polarity,
                            enabled |-> TRUE]
  BY DEF PwmAsAsked
<1>1. chan \in Channel
  BY DEF IInv, TypeInv
<1>2. chan.exported = TRUE
  BY <1>1 DEF IInv, Reachable, Working, Channel
<1>3. chan.enabled = TRUE
  BY <1>1 DEF IInv, EnableSet, Channel
<1>4. chan.normal = parm.polarity
  BY Zenon DEF IInv, PolaritySet
<1>5. chan.period = parm.period /\ chan.duty = parm.dutycycle
  BY DEF IInv, PeriodSet, DutySet, Working
<1> QED
  BY <1>1, <1>2, <1>3, <1>4, <1>5 DEF Channel

(* Whatever periods and duty cycles are asked for, and however many processes
   are killed between two writes: the pin pulses as the last one asked. *)
THEOREM PulsesAsAsked == PwmSpec => []PwmAsAsked
<1>1. PwmInit => IInv
  BY PwmAssumption, InductiveInit DEF WholeTimes
<1>2. IInv /\ [PwmNext]_pwmVars => IInv'
  BY PwmAssumption, InductiveStep DEF WholeTimes
<1>3. IInv => PwmAsAsked
  BY IInvSuffices
<1> QED
  BY <1>1, <1>2, <1>3, PTL DEF PwmSpec

-----------------------------------------------------------------------------
(* Lines have lengths, and the file a bound. *)
WholeLengths == Lengths \subseteq Nat /\ MaxSize \in Nat

Line == [call : Nat, length : Lengths]

-----------------------------------------------------------------------------
(* The first sums of num numbers. *)
Sums(e, a, num) ==
  /\ e \in [0 .. num -> Nat] /\ e[0] = 0
  /\ \A k \in 1 .. num : e[k] = e[k - 1] + a[k]

LEMMA SumsExist ==
  ASSUME NEW num \in Nat, NEW a, \A k \in 1 .. num : a[k] \in Nat
  PROVE  \E e : Sums(e, a, num)
<1> DEFINE move == [k \in 1 .. num |-> [sum \in Nat |-> sum + a[k]]]
<1>1. move \in [1 .. num -> [Nat -> Nat]]
  OBVIOUS
<1>2. PICK e : Iterates(e, num, Nat, 0, move)
  <2> HIDE DEF move
  <2> QED
    BY <1>1, IterationExists
<1>3. ASSUME NEW k \in 1 .. num PROVE e[k] = e[k - 1] + a[k]
  <2>1. k - 1 \in 0 .. num
    OBVIOUS
  <2>2. e[k - 1] \in Nat
    BY <1>2, <2>1 DEF Iterates
  <2>3. e[k] = move[k][e[k - 1]]
    <3> HIDE DEF move
    <3> QED
      BY <1>2 DEF Iterates
  <2>4. move[k] = [sum \in Nat |-> sum + a[k]]
    OBVIOUS
  <2> QED
    BY <2>2, <2>3, <2>4
<1> QED
  BY <1>2, <1>3 DEF Iterates, Sums

-----------------------------------------------------------------------------
(* Ends is what its definition says, for every sequence of lines. *)
LEMMA LinesAre ==
  ASSUME WholeLengths, NEW s \in Seq(Line)
  PROVE  Len(s) \in Nat /\ \A k \in 1 .. Len(s) : s[k] \in Line /\ s[k].length \in Nat
<1>1. Len(s) \in Nat /\ \A k \in 1 .. Len(s) : s[k] \in Line
  BY LenProperties, ElementOfSeq
<1> QED
  BY <1>1 DEF WholeLengths, Line

LEMMA EndsAre ==
  ASSUME WholeLengths, NEW s \in Seq(Line)
  PROVE  /\ Ends(s) \in [0 .. Len(s) -> Nat]
         /\ Ends(s)[0] = 0
         /\ \A k \in 1 .. Len(s) : Ends(s)[k] = Ends(s)[k - 1] + s[k].length
<1> DEFINE num == Len(s)
           a == [k \in 1 .. num |-> s[k].length]
           Nth(e, k) == IF k = 0 THEN 0 ELSE e[k - 1] + s[k].length
<1>1. num \in Nat /\ \A k \in 1 .. num : a[k] \in Nat
  BY LinesAre
<1>2. PICK e : Sums(e, a, num)
  BY <1>1, SumsExist
<1>3. e = [k \in 0 .. num |-> Nth(e, k)]
  <2>1. ASSUME NEW k \in 0 .. num PROVE e[k] = Nth(e, k)
    <3>1. CASE k = 0
      BY <1>2, <3>1 DEF Sums
    <3>2. CASE k # 0
      <4>1. k \in 1 .. num
        BY <1>1, <3>2
      <4> QED
        BY <1>2, <4>1 DEF Sums
    <3> QED
      BY <3>1, <3>2
  <2>2. e = [k \in 0 .. num |-> e[k]]
    BY <1>2 DEF Sums
  <2> QED
    BY <2>1, <2>2
<1>4. Ends(s) = [k \in 0 .. num |-> Nth(Ends(s), k)]
  BY <1>3 DEF Ends
<1> DEFINE f == Ends(s)
<1>5. f[0] = 0 /\ \A k \in 1 .. num : f[k] = f[k - 1] + s[k].length
  <2> HIDE DEF f
  <2>1. f = [k \in 0 .. num |-> Nth(f, k)]
    BY <1>4 DEF f
  <2> QED
    BY <1>1, <2>1
<1>6. f \in [0 .. num -> Nat]
  <2> DEFINE T == {k \in Nat : k <= num => f[k] \in Nat}
  <2> HIDE DEF f
  <2>1. 0 \in T
    BY <1>5
  <2>2. ASSUME NEW k \in Nat, k \in T PROVE k + 1 \in T
    <3> SUFFICES ASSUME k + 1 <= num PROVE f[k + 1] \in Nat
      OBVIOUS
    <3>1. k + 1 \in 1 .. num /\ (k + 1) - 1 = k /\ k <= num
      BY <1>1
    <3>2. f[k + 1] = f[k] + s[k + 1].length
      BY <1>5, <3>1
    <3>3. f[k] \in Nat /\ s[k + 1].length \in Nat
      BY <2>2, <3>1, LinesAre
    <3> QED
      BY <3>2, <3>3
  <2> HIDE DEF T
  <2>3. \A k \in Nat : k \in T
    BY <2>1, <2>2, Induct
  <2>4. ASSUME NEW k \in 0 .. num PROVE f[k] \in Nat
    BY <1>1, <2>3 DEF T
  <2>5. f = [k \in 0 .. num |-> f[k]]
    BY <1>4 DEF f
  <2> QED
    BY <2>4, <2>5
<1> QED
  BY <1>5, <1>6

LEMMA NoText == ASSUME WholeLengths PROVE TextSize(<<>>) = 0
<1>1. <<>> \in Seq(Line) /\ Len(<<>>) = 0
  BY EmptySeq
<1> QED
  BY <1>1, EndsAre DEF TextSize

(* One line more adds its length. *)
LEMMA TextGrows ==
  ASSUME WholeLengths, NEW s \in Seq(Line), NEW x \in Line
  PROVE  /\ TextSize(Append(s, x)) = TextSize(s) + x.length
         /\ TextSize(s) \in Nat /\ x.length \in Nat
<1> DEFINE t == Append(s, x)
           num == Len(s)
<1>1. /\ t \in Seq(Line) /\ Len(t) = num + 1 /\ num \in Nat
      /\ t[num + 1] = x /\ \A k \in 1 .. num : t[k] = s[k]
  BY AppendProperties, LenProperties
<1> DEFINE f == Ends(s)
           g == Ends(t)
           T == {k \in Nat : k <= num => g[k] = f[k]}
<1>2. /\ f \in [0 .. num -> Nat] /\ f[0] = 0
      /\ \A k \in 1 .. num : f[k] = f[k - 1] + s[k].length
  BY EndsAre
<1>3. /\ g[0] = 0 /\ \A k \in 1 .. num + 1 : g[k] = g[k - 1] + t[k].length
  <2> HIDE DEF t
  <2> QED
    BY <1>1, EndsAre
<1> HIDE DEF t, f, g
<1>4. 0 \in T
  BY <1>2, <1>3
<1>5. ASSUME NEW k \in Nat, k \in T PROVE k + 1 \in T
  <2> SUFFICES ASSUME k + 1 <= num PROVE g[k + 1] = f[k + 1]
    OBVIOUS
  <2>1. k + 1 \in 1 .. num /\ k + 1 \in 1 .. num + 1 /\ (k + 1) - 1 = k /\ k <= num
    BY <1>1
  <2>2. g[k + 1] = g[k] + t[k + 1].length /\ f[k + 1] = f[k] + s[k + 1].length
    BY <1>2, <1>3, <2>1
  <2> QED
    BY <1>1, <1>5, <2>1, <2>2
<1> HIDE DEF T
<1>6. \A k \in Nat : k \in T
  BY <1>4, <1>5, Induct
<1>7. g[num] = f[num]
  BY <1>1, <1>6 DEF T
<1>8. g[num + 1] = f[num] + x.length
  <2>1. num + 1 \in 1 .. num + 1 /\ (num + 1) - 1 = num
    BY <1>1
  <2> QED
    BY <1>1, <1>3, <1>7, <2>1
<1>9. f[num] \in Nat
  BY <1>1, <1>2
<1>10. x.length \in Nat
  BY DEF WholeLengths, Line
<1> QED
  BY <1>1, <1>8, <1>9, <1>10 DEF TextSize, f, g, t

-----------------------------------------------------------------------------
(* Lines in the order of their calls, none after call c. *)
InOrder(s, c) ==
  /\ \A k \in 1 .. Len(s) - 1 : s[k].call < s[k + 1].call
  /\ \A k \in 1 .. Len(s) : s[k].call <= c

(* No longer than the bound and the longest line. *)
Bounded(s) ==
  \A length \in Lengths :
    (\A other \in Lengths : other <= length) => TextSize(s) <= MaxSize + length

LogType ==
  /\ file \in Seq(Line) /\ str \in Seq(Line)
  /\ doing \in {"none", "open", "cut", "write"}
  /\ calls \in Nat /\ killed \in BOOLEAN

(* What was read is what the file held, *)
Copied == doing = "open" => str = file

(* and once the file is truncated only the memory has it. *)
Emptied ==
  doing \in {"cut", "write"} => file = <<>> /\ calls > 0 /\ InOrder(str, calls - 1)
ShortEnough == doing = "write" => TextSize(str) <= MaxSize
Newest ==
  doing \in {"none", "open"} /\ calls > 0 /\ ~killed
    => file # <<>> /\ file[Len(file)].call = calls

LogInv ==
  /\ LogType /\ InOrder(file, calls) /\ Bounded(file)
  /\ Copied /\ Emptied /\ ShortEnough /\ Newest

LEMMA NothingInOrder ==
  ASSUME WholeLengths, NEW c \in Nat PROVE InOrder(<<>>, c) /\ Bounded(<<>>)
<1>1. Len(<<>>) = 0
  BY EmptySeq
<1> QED
  BY <1>1, NoText DEF InOrder, Bounded, WholeLengths

LEMMA ShortBounded ==
  ASSUME WholeLengths, NEW s \in Seq(Line), TextSize(s) <= MaxSize
  PROVE  Bounded(s)
<1>1. CASE Lengths = {}
  BY <1>1 DEF Bounded
<1>2. CASE Lengths # {}
  <2>1. PICK length : length \in Lengths
    BY <1>2
  <2>2. TextSize(s) \in Nat
    BY <2>1, TextGrows, [call |-> 0, length |-> length] \in Line DEF Line
  <2> QED
    BY <2>2 DEF Bounded, WholeLengths
<1> QED
  BY <1>1, <1>2

(* A line that is newer than the others goes to their end. *)
LEMMA LineAdded ==
  ASSUME WholeLengths, NEW s \in Seq(Line), NEW c \in Nat, c > 0,
         InOrder(s, c - 1), TextSize(s) <= MaxSize, NEW length \in Lengths
  PROVE  LET t == Append(s, [call |-> c, length |-> length])
         IN  /\ t \in Seq(Line) /\ InOrder(t, c) /\ Bounded(t)
             /\ t # <<>> /\ t[Len(t)].call = c
<1> DEFINE x == [call |-> c, length |-> length]
           t == Append(s, x)
           num == Len(s)
<1>1. x \in Line /\ x.call = c /\ x.length = length
  BY DEF Line
<1> HIDE DEF x
<1>2. /\ t \in Seq(Line) /\ Len(t) = num + 1 /\ num \in Nat /\ t # <<>>
      /\ t[num + 1] = x /\ \A k \in 1 .. num : t[k] = s[k]
  BY <1>1, AppendProperties, LenProperties
<1>3. TextSize(t) = TextSize(s) + length /\ TextSize(s) \in Nat /\ length \in Nat
  BY <1>1, TextGrows
<1> HIDE DEF t
<1>4. \A k \in 1 .. num : s[k].call \in Nat /\ s[k].call <= c - 1
  BY LinesAre DEF InOrder, Line
<1>5. ASSUME NEW k \in 1 .. num + 1 PROVE t[k].call <= c
  BY <1>1, <1>2, <1>4
<1>6. ASSUME NEW k \in 1 .. num PROVE t[k].call < t[k + 1].call
  <2>1. CASE k = num
    BY <1>1, <1>2, <1>4, <2>1
  <2>2. CASE k # num
    <3>1. k \in 1 .. num - 1 /\ k + 1 \in 1 .. num
      BY <1>2, <2>2
    <3> QED
      BY <1>2, <3>1 DEF InOrder
  <2> QED
    BY <2>1, <2>2
<1>7. InOrder(t, c)
  BY <1>2, <1>5, <1>6 DEF InOrder
<1>8. Bounded(t)
  BY <1>3 DEF Bounded, WholeLengths
<1> QED
  BY <1>1, <1>2, <1>7, <1>8 DEF t, x

LEMMA FrontCut ==
  ASSUME WholeLengths, NEW s \in Seq(Line), s # <<>>, NEW c, InOrder(s, c)
  PROVE  Tail(s) \in Seq(Line) /\ InOrder(Tail(s), c)
<1> DEFINE t == Tail(s)
<1>1. /\ t \in Seq(Line) /\ Len(t) = Len(s) - 1 /\ Len(s) \in Nat
      /\ \A k \in 1 .. Len(t) : t[k] = s[k + 1]
  BY HeadTailProperties, LenProperties
<1> HIDE DEF t
<1>2. ASSUME NEW k \in 1 .. Len(t) PROVE t[k].call <= c
  <2>1. k + 1 \in 1 .. Len(s)
    BY <1>1
  <2> QED
    BY <1>1, <2>1 DEF InOrder
<1>3. ASSUME NEW k \in 1 .. Len(t) - 1 PROVE t[k].call < t[k + 1].call
  <2>1. k + 1 \in 1 .. Len(s) - 1 /\ k \in 1 .. Len(t) /\ k + 1 \in 1 .. Len(t)
    BY <1>1
  <2> QED
    BY <1>1, <2>1 DEF InOrder
<1> QED
  BY <1>1, <1>2, <1>3 DEF InOrder, t

LEMMA OrderGoesOn ==
  ASSUME NEW s \in Seq(Line), NEW c \in Nat, InOrder(s, c)
  PROVE  InOrder(s, (c + 1) - 1)
BY DEF InOrder

-----------------------------------------------------------------------------
LEMMA LogInvInit == ASSUME WholeLengths, LogInit PROVE LogInv
<1>1. <<>> \in Seq(Line)
  BY EmptySeq
<1>2. InOrder(file, calls) /\ Bounded(file)
  BY NothingInOrder DEF LogInit
<1>3. LogType
  BY <1>1 DEF LogInit, LogType
<1>4. Copied /\ Emptied /\ ShortEnough /\ Newest
  BY DEF LogInit, Copied, Emptied, ShortEnough, Newest
<1> QED
  BY <1>2, <1>3, <1>4 DEF LogInv

LEMMA LogInvStep ==
  ASSUME WholeLengths, LogInv, [LogNext]_logVars
  PROVE  LogInv'
<1> USE DEF LogInv, LogType
<1>1. CASE Read
  <2>1. /\ file' = file /\ calls' = calls /\ killed' = killed
        /\ str' = file /\ doing = "none" /\ doing' = "open"
    BY <1>1 DEF Read
  <2>2. InOrder(file, calls)' /\ Bounded(file)'
    BY <2>1 DEF InOrder, Bounded
  <2> QED
    BY <2>1, <2>2 DEF Copied, Emptied, ShortEnough, Newest
<1>2. CASE OpenTrunc
  <2>1. doing = "open" /\ str' = str /\ killed' = killed /\ str = file
    BY <1>2 DEF OpenTrunc, Copied
  <2>2. CASE file' = <<>> /\ doing' = "cut" /\ calls' = calls + 1
    <3>1. calls' \in Nat /\ <<>> \in Seq(Line)
      BY <2>2, EmptySeq
    <3>2. InOrder(file, calls)' /\ Bounded(file)'
      <4>1. InOrder(<<>>, calls + 1) /\ Bounded(<<>>)
        BY <2>2, <3>1, NothingInOrder
      <4> QED
        BY <2>2, <4>1 DEF InOrder, Bounded
    <3>3. InOrder(str, calls - 1)'
      BY <2>1, <2>2, OrderGoesOn DEF InOrder
    <3> QED
      BY <2>1, <2>2, <3>1, <3>2, <3>3
      DEF Copied, Emptied, ShortEnough, Newest
  <2>3. CASE UNCHANGED <<file, calls>> /\ doing' = "none"
    <3>1. InOrder(file, calls)' /\ Bounded(file)'
      BY <2>3 DEF InOrder, Bounded
    <3> QED
      BY <2>1, <2>3, <3>1 DEF Copied, Emptied, ShortEnough, Newest
  <2> QED
    BY <1>2, <2>2, <2>3 DEF OpenTrunc
<1>3. CASE Cut
  <2>1. /\ doing = "cut" /\ file' = file /\ calls' = calls /\ killed' = killed
        /\ file = <<>> /\ calls > 0 /\ InOrder(str, calls - 1)
    BY <1>3 DEF Cut, Emptied
  <2>2. InOrder(file, calls)' /\ Bounded(file)'
    BY <2>1 DEF InOrder, Bounded
  <2>3. CASE TextSize(str) > MaxSize
    <3>1. str' = Tail(str) /\ doing' = doing
      BY <1>3, <2>3 DEF Cut
    <3>2. str # <<>>
      BY <2>3, NoText DEF WholeLengths
    <3>3. str' \in Seq(Line) /\ InOrder(str', calls - 1)
      BY <2>1, <3>1, <3>2, FrontCut
    <3>4. InOrder(str, calls - 1)'
      BY <2>1, <3>3 DEF InOrder
    <3> QED
      BY <2>1, <2>2, <3>1, <3>3, <3>4 DEF Copied, Emptied, ShortEnough, Newest
  <2>4. CASE ~(TextSize(str) > MaxSize)
    <3>1. str' = str /\ doing' = "write"
      BY <1>3, <2>4 DEF Cut
    <3>2. InOrder(str, calls - 1)'
      BY <2>1, <3>1 DEF InOrder
    <3>3. TextSize(str) \in Nat
      BY EndsAre, LenProperties DEF TextSize
    <3>4. (TextSize(str) <= MaxSize)'
      BY <2>4, <3>1, <3>3 DEF WholeLengths, TextSize
    <3> QED
      BY <2>1, <2>2, <3>1, <3>2, <3>4 DEF Copied, Emptied, ShortEnough, Newest
  <2> QED
    BY <2>3, <2>4
<1>4. CASE \E length \in Lengths : AppendLine(length)
  <2>1. PICK length \in Lengths : AppendLine(length)
    BY <1>4
  <2> DEFINE x == [call |-> calls, length |-> length]
             t == Append(str, x)
  <2>2. /\ doing = "write" /\ doing' = "none" /\ killed' = FALSE
        /\ str' = str /\ calls' = calls /\ file' = file \o str \o <<x>>
        /\ file = <<>> /\ calls > 0 /\ InOrder(str, calls - 1)
        /\ TextSize(str) <= MaxSize
    BY <2>1 DEF AppendLine, Emptied, ShortEnough
  <2>3. x \in Line
    BY DEF Line
  <2>4. file' = t
    <3> HIDE DEF x
    <3>1. <<>> \o str = str /\ Append(str, x) = str \o <<x>>
      BY <2>3, ConcatEmptySeq, AppendIsConcat
    <3> QED
      BY <2>2, <3>1
  <2>5. /\ t \in Seq(Line) /\ InOrder(t, calls) /\ Bounded(t)
        /\ t # <<>> /\ t[Len(t)].call = calls
    BY <2>2, LineAdded
  <2> HIDE DEF t
  <2>6. InOrder(file, calls)' /\ Bounded(file)'
    BY <2>2, <2>4, <2>5 DEF InOrder, Bounded
  <2> QED
    BY <2>2, <2>4, <2>5, <2>6 DEF Copied, Emptied, ShortEnough, Newest
<1>5. CASE Kill
  <2>1. /\ doing # "none" /\ doing' = "none" /\ str' = <<>> /\ calls' = calls
        /\ killed' = (killed \/ doing # "open") /\ <<>> \in Seq(Line)
    BY <1>5, EmptySeq DEF Kill
  <2>2. CASE file' = file
    <3>1. InOrder(file, calls)' /\ Bounded(file)'
      BY <2>1, <2>2 DEF InOrder, Bounded
    <3> QED
      BY <2>1, <2>2, <3>1 DEF Copied, Emptied, ShortEnough, Newest
  <2>3. CASE file' # file
    <3>1. doing = "write" /\ file' = file \o str
      BY <1>5, <2>3 DEF Kill
    <3>2. /\ file = <<>> /\ calls > 0 /\ InOrder(str, calls - 1)
          /\ TextSize(str) <= MaxSize
      BY <3>1 DEF Emptied, ShortEnough
    <3>3. file' = str
      BY <3>1, <3>2, ConcatEmptySeq
    <3>4. Bounded(str)
      BY <3>2, ShortBounded
    <3>5. InOrder(str, calls)
      <4>1. \A k \in 1 .. Len(str) : str[k].call \in Nat
        BY LinesAre DEF Line
      <4> QED
        BY <3>2, <4>1 DEF InOrder
    <3>6. InOrder(file, calls)' /\ Bounded(file)'
      BY <2>1, <3>3, <3>4, <3>5 DEF InOrder, Bounded
    <3> QED
      BY <2>1, <3>1, <3>3, <3>6 DEF Copied, Emptied, ShortEnough, Newest
  <2> QED
    BY <2>2, <2>3
<1>6. CASE UNCHANGED logVars
  <2>1. /\ file' = file /\ str' = str /\ doing' = doing /\ calls' = calls
        /\ killed' = killed
    BY <1>6 DEF logVars
  <2> QED
    BY <2>1 DEF InOrder, Bounded, TextSize, Copied, Emptied, ShortEnough, Newest
<1> QED
  BY <1>1, <1>2, <1>3, <1>4, <1>5, <1>6 DEF LogNext

(* Whatever is written, and wherever calls are killed: between calls the log
   holds whole lines in the order of their calls and at most one line above
   the bound, and the newest is the last unless a call was killed after it had
   truncated the file. *)
THEOREM LogKeepsNewest == LogSpec => []LogEndsWithNewest
<1>1. LogInit => LogInv
  BY RateLogAssumption, LogInvInit DEF WholeLengths
<1>2. LogInv /\ [LogNext]_logVars => LogInv'
  BY RateLogAssumption, LogInvStep DEF WholeLengths
<1>3. LogInv => LogEndsWithNewest
  BY DEF LogInv, LogType, InOrder, Bounded, Newest, LogEndsWithNewest
<1> QED
  BY <1>1, <1>2, <1>3, PTL DEF LogSpec

-----------------------------------------------------------------------------
LEMMA Parted ==
  ASSUME NEW u \in Int
  PROVE  /\ 256 * (u \div 256) + (u % 256) = u /\ u \div 256 \in Int /\ u % 256 \in Int
OBVIOUS

LEMMA Two == ASSUME NEW a \in Int, NEW b \in Int
  PROVE <<a, b>> \in Seq(Int) /\ Len(<<a, b>>) = 2
OBVIOUS
LEMMA One == ASSUME NEW a \in Int
  PROVE <<a>> \in Seq(Int) /\ Len(<<a>>) = 1 /\ <<a>>[1] = a
OBVIOUS

LEMMA WordInt == \A x \in Word16 : x \in Int
BY SMTT(40) DEF Word16

LEMMA Lower ==
  ASSUME NEW x \in Int, -32768 <= x, x <= 32767
  PROVE  x % 256 = (x % 65536) % 256
<1>1. x \in Int /\ -32768 <= x /\ x <= 32767
  OBVIOUS
<1>2. CASE x >= 0
   BY <1>1, <1>2
<1>3. CASE x < 0
  <2> DEFINE y == x + 65536
  <2>1. y \in Int /\ x = y - 256 * 256
    BY <1>1
  <2>2. x % 65536 = y
    BY <1>1, <1>3
  <2> HIDE DEF y
  <2>3. x % 256 = y % 256
    BY <2>1
  <2> QED
   BY <2>2, <2>3
<1> QED
   BY <1>1, <1>2, <1>3

Signed(u) == IF u < 32768 THEN u ELSE u - 65536

LEMMA PairBack ==
  ASSUME NEW u \in Int, 0 <= u, u <= 65535
  PROVE  /\ Int16(u \div 256, u % 256) = Signed(u)
         /\ u \div 256 \in Int /\ u % 256 \in Int
BY Parted DEF Int16, Signed

LEMMA IntBack ==
  ASSUME NEW x \in Int, -32768 <= x, x <= 32767
  PROVE  /\ Bytes16(x) \in Seq(Int) /\ Len(Bytes16(x)) = 2
         /\ Int16(Bytes16(x)[1], Bytes16(x)[2]) = x
<1>1. x \in Int /\ -32768 <= x /\ x <= 32767
  OBVIOUS
<1> DEFINE u == x % 65536
           h == u \div 256
           l == u % 256
<1>2. u \in Int /\ 0 <= u /\ u <= 65535 /\ u = IF x >= 0 THEN x ELSE x + 65536
  BY <1>1
<1>3. Bytes16(x) = <<h, l>>
  BY Lower DEF Bytes16
<1> HIDE DEF u
<1>4. Int16(h, l) = Signed(u) /\ h \in Int /\ l \in Int
  BY <1>2, PairBack
<1> HIDE DEF h, l
<1>5. Int16(h, l) = x
  BY <1>1, <1>2, <1>4 DEF Signed
<1>6. <<h, l>> \in Seq(Int) /\ Len(<<h, l>>) = 2 /\ <<h, l>>[1] = h /\ <<h, l>>[2] = l
  BY <1>4
<1> QED
  BY <1>3, <1>5, <1>6

LEMMA InRangeOf ==
  ASSUME NEW a \in Int, NEW b \in Int, NEW x \in a .. b
  PROVE  x \in Int /\ a <= x /\ x <= b
OBVIOUS

LEMMA WordBack ==
  ASSUME NEW x \in Word16
  PROVE  /\ Bytes16(x) \in Seq(Int) /\ Len(Bytes16(x)) = 2
         /\ Int16(Bytes16(x)[1], Bytes16(x)[2]) = x
<1> DEFINE low == -32768
           high == 32767
<1>1. low \in Int /\ high \in Int /\ Word16 = low .. high
  BY SMTT(40) DEF Word16
<1>2. x \in Int /\ low <= x /\ x <= high
  <2> HIDE DEF low, high
  <2> QED
    BY <1>1, InRangeOf
<1> QED
  BY <1>2, IntBack

(* s is the m elements of p, then the num of q. *)
Joint(s, p, q, m, num) ==
  /\ s \in Seq(Int) /\ Len(s) = m + num
  /\ \A z \in 1 .. m + num : s[z] = IF z <= m THEN p[z] ELSE q[z - m]

LEMMA Joined ==
  ASSUME NEW p \in Seq(Int), NEW q \in Seq(Int)
  PROVE  Joint(p \o q, p, q, Len(p), Len(q))
BY ConcatProperties DEF Joint

LEMMA TwelveAndEight ==
  ASSUME NEW p \in Seq(Int), NEW q \in Seq(Int), Len(p) = 12, Len(q) = 8
  PROVE  Joint(p \o q, p, q, 12, 8)
<1>1. Joint(p \o q, p, q, Len(p), Len(q))
  BY Joined
<1> QED
  BY <1>1

Three(s, p, q, r) ==
  /\ s \in Seq(Int) /\ Len(s) = 6
  /\ s[1] = p[1] /\ s[2] = p[2] /\ s[3] = q[1] /\ s[4] = q[2]
  /\ s[5] = r[1] /\ s[6] = r[2]

LEMMA ThreePairs ==
  ASSUME NEW p \in Seq(Int), NEW q \in Seq(Int), NEW r \in Seq(Int),
         Len(p) = 2, Len(q) = 2, Len(r) = 2
  PROVE  Three(p \o q \o r, p, q, r)
<1> DEFINE t == p \o q
           s == t \o r
<1>1. Joint(t, p, q, 2, 2)
  BY Joined
<1> HIDE DEF t
<1>2. t \in Seq(Int) /\ Len(t) = 4
  BY <1>1 DEF Joint
<1>3. Joint(s, t, r, 4, 2)
  BY <1>2, Joined
<1> HIDE DEF s
<1>4. t[1] = p[1] /\ t[2] = p[2] /\ t[3] = q[1] /\ t[4] = q[2]
  BY <1>1 DEF Joint
<1>5. /\ s \in Seq(Int) /\ Len(s) = 6
      /\ s[1] = t[1] /\ s[2] = t[2] /\ s[3] = t[3] /\ s[4] = t[4]
      /\ s[5] = r[1] /\ s[6] = r[2]
  BY <1>3 DEF Joint
<1> QED
  BY <1>4, <1>5 DEF s, t, Three

LEMMA HighBytesAre ==
  ASSUME NEW v \in [Axis -> Word16]
  PROVE  /\ HighBytes(v) \in Seq(Int) /\ Len(HighBytes(v)) = 6
         /\ \A a \in Axis : Int16(HighBytes(v)[2 * a + 1], HighBytes(v)[2 * a + 2]) = v[a]
<1>1. v[0] \in Word16 /\ v[1] \in Word16 /\ v[2] \in Word16
  BY DEF Axis
<1> DEFINE p == Bytes16(v[0])
           q == Bytes16(v[1])
           r == Bytes16(v[2])
           s == p \o q \o r
<1>2. p \in Seq(Int) /\ Len(p) = 2 /\ Int16(p[1], p[2]) = v[0]
  BY <1>1, WordBack
<1>3. q \in Seq(Int) /\ Len(q) = 2 /\ Int16(q[1], q[2]) = v[1]
  BY <1>1, WordBack
<1>4. r \in Seq(Int) /\ Len(r) = 2 /\ Int16(r[1], r[2]) = v[2]
  BY <1>1, WordBack
<1>5. HighBytes(v) = s
  BY DEF HighBytes
<1> HIDE DEF p, q, r
<1>6. Three(s, p, q, r)
  BY <1>2, <1>3, <1>4, ThreePairs
<1> HIDE DEF s
<1>7. Int16(s[1], s[2]) = v[0] /\ Int16(s[3], s[4]) = v[1] /\ Int16(s[5], s[6]) = v[2]
  BY <1>2, <1>3, <1>4, <1>6 DEF Three
<1>8. ASSUME NEW a \in Axis PROVE Int16(s[2 * a + 1], s[2 * a + 2]) = v[a]
  <2>1. a \in {0, 1, 2}
    BY DEF Axis
  <2> QED
    BY <1>7, <2>1
<1> QED
  BY <1>5, <1>6, <1>8 DEF Three

LEMMA LowBytesAre ==
  ASSUME NEW v \in [Axis -> Word16]
  PROVE  /\ LowBytes(v) \in Seq(Int) /\ Len(LowBytes(v)) = 6
         /\ \A a \in Axis : Int16(LowBytes(v)[2 * a + 2], LowBytes(v)[2 * a + 1]) = v[a]
<1>1. v[0] \in Word16 /\ v[1] \in Word16 /\ v[2] \in Word16
  BY DEF Axis
<1> DEFINE p == Bytes16(v[2])
           q == Bytes16(v[1])
           r == Bytes16(v[0])
           s == p \o q \o r
           t == Reverse(s)
<1>2. p \in Seq(Int) /\ Len(p) = 2 /\ Int16(p[1], p[2]) = v[2]
  BY <1>1, WordBack
<1>3. q \in Seq(Int) /\ Len(q) = 2 /\ Int16(q[1], q[2]) = v[1]
  BY <1>1, WordBack
<1>4. r \in Seq(Int) /\ Len(r) = 2 /\ Int16(r[1], r[2]) = v[0]
  BY <1>1, WordBack
<1>5. LowBytes(v) = t
  BY DEF LowBytes
<1> HIDE DEF p, q, r
<1>6. Three(s, p, q, r)
  BY <1>2, <1>3, <1>4, ThreePairs
<1> HIDE DEF s
<1>7. t = [z \in 1 .. 6 |-> s[(6 - z) + 1]]
  BY <1>6 DEF Reverse, Three
<1>8. \A z \in 1 .. 6 : s[(6 - z) + 1] \in Int
  <2>0. s \in Seq(Int) /\ Len(s) = 6
    BY <1>6 DEF Three
  <2>1. s \in [1 .. 6 -> Int]
    BY <2>0, LenProperties
  <2> QED
    BY <2>1
<1> HIDE DEF t
<1>9. t \in Seq(Int) /\ Len(t) = 6
  <2>1. t \in [1 .. 6 -> Int]
    BY <1>7, <1>8
  <2>2. 6 \in Nat
    OBVIOUS
  <2>3. t \in Seq(Int)
    <3>1. t \in UNION {[1 .. num -> Int] : num \in Nat}
      BY <2>1, <2>2
    <3> QED
      BY <3>1, SeqDef
  <2>4. DOMAIN t = 1 .. 6
    BY <2>1
  <2>6. Len(t) \in Nat /\ DOMAIN t = 1 .. Len(t)
    BY <2>3, LenProperties
  <2>7. 6 \in DOMAIN t /\ 7 \notin DOMAIN t
    BY <2>4
  <2>5. Len(t) = 6
    BY <2>6, <2>7
  <2> QED
    BY <2>3, <2>5
<1>10. /\ t[1] = s[6] /\ t[2] = s[5] /\ t[3] = s[4]
       /\ t[4] = s[3] /\ t[5] = s[2] /\ t[6] = s[1]
  BY <1>7
<1>11. Int16(t[2], t[1]) = v[0] /\ Int16(t[4], t[3]) = v[1] /\ Int16(t[6], t[5]) = v[2]
  BY <1>2, <1>3, <1>4, <1>6, <1>10 DEF Three
<1>12. ASSUME NEW a \in Axis PROVE Int16(t[2 * a + 2], t[2 * a + 1]) = v[a]
  <2>1. a \in {0, 1, 2}
    BY DEF Axis
  <2> QED
    BY <1>11, <2>1
<1> QED
  BY <1>5, <1>9, <1>12

(* The eight bytes of the magnetometer. *)
LEMMA MagBytesAre ==
  ASSUME NEW s \in Sample
  PROVE  LET m == MagBytes(s)
         IN  /\ m \in Seq(Int) /\ Len(m) = 8
             /\ \A a \in Axis : Int16(m[2 * a + 3], m[2 * a + 2]) = s.mag[a]
             /\ MagStep(m[8]) = IF s.fine THEN 15 ELSE 60
<1> DEFINE l == LowBytes(s.mag)
           st2 == (IF s.fine THEN 16 ELSE 0) + (IF s.over THEN 8 ELSE 0)
           o == <<1>>
           e == <<st2>>
           f == o \o l
           m == f \o e
<1>1. s.mag \in [Axis -> Word16]
  BY DEF Sample
<1>2. /\ l \in Seq(Int) /\ Len(l) = 6
      /\ \A a \in Axis : Int16(l[2 * a + 2], l[2 * a + 1]) = s.mag[a]
  BY <1>1, LowBytesAre
<1>3. st2 \in Int /\ MagStep(st2) = IF s.fine THEN 15 ELSE 60
  BY DEF MagStep, Bit
<1> HIDE DEF st2
<1>4. o \in Seq(Int) /\ Len(o) = 1 /\ e \in Seq(Int) /\ Len(e) = 1 /\ e[1] = st2
  BY <1>3
<1>5. MagBytes(s) = m
  BY DEF MagBytes, st2
<1> HIDE DEF l, o, e
<1>6. Joint(f, o, l, 1, 6)
  BY <1>2, <1>4, Joined
<1> HIDE DEF f
<1>7. f \in Seq(Int) /\ Len(f) = 7 /\ \A z \in 2 .. 7 : f[z] = l[z - 1]
  BY <1>6 DEF Joint
<1>8. Joint(m, f, e, 7, 1)
  BY <1>4, <1>7, Joined
<1> HIDE DEF m
<1>9. m \in Seq(Int) /\ Len(m) = 8 /\ m[8] = e[1] /\ \A z \in 2 .. 7 : m[z] = f[z]
  BY <1>8 DEF Joint
<1>10. ASSUME NEW a \in Axis
       PROVE  Int16(m[2 * a + 3], m[2 * a + 2]) = s.mag[a]
  <2>1. m[2 * a + 3] = l[2 * a + 2] /\ m[2 * a + 2] = l[2 * a + 1]
    <3>1. a \in {0, 1, 2}
      BY DEF Axis
    <3> QED
      BY <1>7, <1>9, <3>1
  <2> QED
    BY <1>2, <2>1
<1> QED
  BY <1>3, <1>4, <1>5, <1>9, <1>10

-----------------------------------------------------------------------------
(* What the chip stores of a sample. *)

Inertials(s) == HighBytes(s.accel) \o HighBytes(s.gyro)

LEMMA InertialsAre ==
  ASSUME NEW s \in Sample
  PROVE  Joint(Inertials(s), HighBytes(s.accel), HighBytes(s.gyro), 6, 6)
<1>1. s.accel \in [Axis -> Word16] /\ s.gyro \in [Axis -> Word16]
  BY DEF Sample
<1>2. /\ HighBytes(s.accel) \in Seq(Int) /\ Len(HighBytes(s.accel)) = 6
      /\ HighBytes(s.gyro) \in Seq(Int) /\ Len(HighBytes(s.gyro)) = 6
  BY <1>1, HighBytesAre
<1> QED
  BY <1>2, Joined DEF Inertials

LEMMA StoredAre ==
  ASSUME NEW s \in Sample
  PROVE  /\ Stored(120, s) = Inertials(s)
         /\ Stored(121, s) = Inertials(s) \o MagBytes(s)
<1> DEFINE a == HighBytes(s.accel)
           g == HighBytes(s.gyro)
           m == MagBytes(s)
<1>1. s.accel \in [Axis -> Word16] /\ s.gyro \in [Axis -> Word16]
  BY DEF Sample
<1>2. a \in Seq(Int) /\ g \in Seq(Int) /\ Inertials(s) \in Seq(Int)
  BY <1>1, HighBytesAre, InertialsAre DEF Joint
<1>3. Bit(120, 8) /\ ~Bit(120, 128) /\ Bit(120, 64) /\ ~Bit(120, 1)
  BY DEF Bit
<1>4. Bit(121, 8) /\ ~Bit(121, 128) /\ Bit(121, 64) /\ Bit(121, 1)
  BY DEF Bit
<1>5. Inertials(s) = a \o g
  BY DEF Inertials
<1>6. Stored(120, s) = ((a \o <<>>) \o g) \o <<>>
  BY <1>3 DEF Stored
<1>7. Stored(121, s) = ((a \o <<>>) \o g) \o m
  BY <1>4 DEF Stored
<1>8. a \o <<>> = a
  BY <1>2, ConcatEmptySeq
<1>9. Inertials(s) \o <<>> = Inertials(s)
  BY <1>2, ConcatEmptySeq
<1> HIDE DEF a, g, m
<1> QED
  BY <1>5, <1>6, <1>7, <1>8, <1>9 DEF m

(* The first twelve bytes, and with the magnetometer the last eight. *)
Laid(b, fe, accel, gyro, mag) ==
  /\ b \in Seq(Int) /\ Len(b) = IF fe = 120 THEN 12 ELSE 20
  /\ \A k \in 1 .. 6 : b[k] = accel[k]
  /\ \A k \in 7 .. 12 : b[k] = gyro[k - 6]
  /\ fe = 121 => \A k \in 13 .. 20 : b[k] = mag[k - 12]

LEMMA BytesAre ==
  ASSUME NEW s \in Sample, NEW fe \in {120, 121}
  PROVE  Laid(Stored(fe, s), fe, HighBytes(s.accel), HighBytes(s.gyro), MagBytes(s))
<1> DEFINE a == HighBytes(s.accel)
           g == HighBytes(s.gyro)
           e == MagBytes(s)
           f == Inertials(s)
           b == f \o e
<1>1. Joint(f, a, g, 6, 6)
  BY InertialsAre
<1>2. e \in Seq(Int) /\ Len(e) = 8
  BY MagBytesAre
<1>3. Stored(120, s) = f /\ Stored(121, s) = b
  BY StoredAre
<1> HIDE DEF a, g, e, f
<1>4. f \in Seq(Int) /\ Len(f) = 12
  BY <1>1 DEF Joint
<1>5. Joint(b, f, e, 12, 8)
  BY <1>2, <1>4, TwelveAndEight
<1> HIDE DEF b
<1>7. (\A k \in 1 .. 6 : f[k] = a[k]) /\ (\A k \in 7 .. 12 : f[k] = g[k - 6])
  BY <1>1 DEF Joint
<1>8. /\ b \in Seq(Int) /\ Len(b) = 20
      /\ \A k \in 1 .. 12 : b[k] = f[k]
      /\ \A k \in 13 .. 20 : b[k] = e[k - 12]
  BY <1>5 DEF Joint
<1>9. (\A k \in 1 .. 6 : b[k] = a[k]) /\ (\A k \in 7 .. 12 : b[k] = g[k - 6])
  BY <1>7, <1>8, SMTT(40)
<1>12. Laid(f, 120, a, g, e)
  BY <1>4, <1>7 DEF Laid
<1>13. Laid(b, 121, a, g, e)
  BY <1>8, <1>9 DEF Laid
<1>10. CASE fe = 120
  BY <1>3, <1>10, <1>12 DEF a, g, e
<1>11. CASE fe = 121
  BY <1>3, <1>11, <1>13 DEF a, g, e
<1> QED
  BY <1>10, <1>11

-----------------------------------------------------------------------------
(* Samples and their places in the fifo. *)

LeastOf(x, a, b, c) == x \in {a, b, c} /\ x <= a /\ x <= b /\ x <= c

LEMMA LeastOfThree ==
  ASSUME NEW a \in Int, NEW b \in Int, NEW c \in Int
  PROVE  LeastOf(Min({a, b, c}), a, b, c)
<1>1. \E x \in {a, b, c} : \A y \in {a, b, c} : x <= y
  <2>1. CASE a <= b /\ a <= c
    BY <2>1
  <2>2. CASE b <= a /\ b <= c
    BY <2>2
  <2>3. CASE c <= a /\ c <= b
    BY <2>3
  <2> QED
    BY <2>1, <2>2, <2>3
<1> QED
  BY <1>1 DEF Min, LeastOf

Fewer(packets, len) == IF packets <= len THEN packets ELSE len

(* As many samples as are whole and as have room. *)
Whole(packets, spill, len, size) ==
  Samples(packets * size + spill, len, size) = Fewer(packets, len)

Fits(packets, spill, len, size) ==
  /\ size \in {12, 20} /\ packets \in Nat /\ spill \in 0 .. 11 /\ len \in Nat \ {0}
  /\ packets * size + spill <= 1024

LEMMA SamplesAre ==
  ASSUME NEW packets, NEW spill, NEW len, NEW size, Fits(packets, spill, len, size)
  PROVE  Whole(packets, spill, len, size)
<1>0. /\ size \in {12, 20} /\ packets \in Nat /\ spill \in 0 .. 11 /\ len \in Nat \ {0}
      /\ packets * size + spill <= 1024
  BY DEF Fits
<1> DEFINE a == packets * size + spill
           c == len * size
           least == Min({a, 1024, c})
<1>1. a \in Int /\ c \in Int
  BY <1>0
<1>2. LeastOf(least, a, 1024, c)
  BY <1>1, LeastOfThree
<1>3. Samples(packets * size + spill, len, size) = ((least \div size) * size) \div size
  BY DEF Samples, ToRead
<1> HIDE DEF least
<1>4. least = packets * size + spill \/ least = len * size
  BY <1>0, <1>1, <1>2 DEF LeastOf
<1>5. CASE size = 12
  <2>1. least \div 12 = Fewer(packets, len)
    BY <1>0, <1>2, <1>4, <1>5 DEF Fewer, LeastOf
  <2>2. Fewer(packets, len) \in Int
    BY <1>0 DEF Fewer
  <2> HIDE DEF Fewer
  <2>3. (Fewer(packets, len) * 12) \div 12 = Fewer(packets, len)
    BY <2>2
  <2> QED
    BY <1>3, <1>5, <2>1, <2>3 DEF Whole
<1>6. CASE size = 20
  <2>1. least \div 20 = Fewer(packets, len)
    BY <1>0, <1>2, <1>4, <1>6 DEF Fewer, LeastOf
  <2>2. Fewer(packets, len) \in Int
    BY <1>0 DEF Fewer
  <2>3. (Fewer(packets, len) * 20) \div 20 = Fewer(packets, len)
    BY <2>2
  <2> QED
    BY <1>3, <1>6, <2>1, <2>3 DEF Whole
<1> QED
  BY <1>0, <1>5, <1>6

(* The zz-th byte of the k-th sample. *)
Placed(p, size, packets, k, zz) ==
  /\ p \in 0 .. (packets + 1) * size - 1
  /\ (p \div size) + 1 = k /\ p % size = zz

Within(size, packets, k, zz) ==
  size \in {12, 20} /\ packets \in Nat /\ k \in 1 .. packets /\ zz \in 0 .. size - 1

LEMMA PlaceIs ==
  ASSUME NEW size, NEW packets, NEW k, NEW zz, Within(size, packets, k, zz)
  PROVE  Placed(size * (k - 1) + zz, size, packets, k, zz)
<1>0. size \in {12, 20} /\ packets \in Nat /\ k \in 1 .. packets /\ zz \in 0 .. size - 1
  BY DEF Within
<1> DEFINE p == size * (k - 1) + zz
<1>1. CASE size = 12
  <2>1. p \in Int /\ p = 12 * (k - 1) + zz /\ zz \in Int /\ 0 <= zz /\ zz <= 11
    BY <1>0, <1>1
  <2>2. p \div 12 = k - 1 /\ p % 12 = zz
    BY <1>0, <2>1
  <2>3. 0 <= p /\ p <= (packets + 1) * 12 - 1
    BY <1>0, <2>1
  <2>4. Placed(p, 12, packets, k, zz)
    <3> HIDE DEF p
    <3> QED
      BY <1>0, <2>1, <2>2, <2>3 DEF Placed
  <2> QED
    BY <1>1, <2>4
<1>2. CASE size = 20
  <2>1. p \in Int /\ p = 20 * (k - 1) + zz /\ zz \in Int /\ 0 <= zz /\ zz <= 19
    BY <1>0, <1>2
  <2>2. p \div 20 = k - 1 /\ p % 20 = zz
    BY <1>0, <2>1
  <2>3. 0 <= p /\ p <= (packets + 1) * 20 - 1
    BY <1>0, <2>1
  <2>4. Placed(p, 20, packets, k, zz)
    <3> HIDE DEF p
    <3> QED
      BY <1>0, <2>1, <2>2, <2>3 DEF Placed
  <2> QED
    BY <1>2, <2>4
<1> QED
  BY <1>0, <1>1, <1>2

-----------------------------------------------------------------------------
(* What is made of a sample's bytes. *)

(* In buf, from at, are the bytes b of one sample. *)
Lies(buf, at, b, num) == \A zz \in 0 .. num - 1 : buf[at + zz] = b[zz + 1]

LEMMA HighBack ==
  ASSUME NEW v \in [Axis -> Word16], NEW buf, NEW at \in Int, Lies(buf, at, HighBytes(v), 6)
  PROVE  HighFirst(buf, at) = v
<1> DEFINE p == HighBytes(v)
<1>1. \A a \in Axis : Int16(p[2 * a + 1], p[2 * a + 2]) = v[a]
  BY HighBytesAre
<1>2. \A zz \in 0 .. 5 : buf[at + zz] = p[zz + 1]
  BY DEF Lies
<1> HIDE DEF p
<1>3. ASSUME NEW a \in Axis
      PROVE  Int16(buf[at + 2 * a], buf[at + 2 * a + 1]) = v[a]
  <2>1. 2 * a \in 0 .. 5 /\ 2 * a + 1 \in 0 .. 5 /\ a \in Int
    BY DEF Axis
  <2>2. buf[at + 2 * a] = p[2 * a + 1] /\ buf[at + (2 * a + 1)] = p[(2 * a + 1) + 1]
    BY <1>2, <2>1
  <2>3. at + 2 * a + 1 = at + (2 * a + 1) /\ (2 * a + 1) + 1 = 2 * a + 2
    BY <2>1
  <2> QED
    BY <1>1, <2>2, <2>3
<1> QED
  BY <1>3 DEF HighFirst

LEMMA AccelBack ==
  ASSUME NEW s \in Sample, NEW fe \in {120, 121}, NEW buf, NEW at \in Int,
         Lies(buf, at, Stored(fe, s), 12)
  PROVE  HighFirst(buf, at) = s.accel /\ HighFirst(buf, at + 6) = s.gyro
<1> DEFINE b == Stored(fe, s)
           p == HighBytes(s.accel)
           q == HighBytes(s.gyro)
           at2 == at + 6
<1>1. s.accel \in [Axis -> Word16] /\ s.gyro \in [Axis -> Word16] /\ at2 \in Int
  BY DEF Sample
<1>2. \A zz \in 0 .. 11 : buf[at + zz] = b[zz + 1]
  BY DEF Lies
<1>3. Laid(b, fe, p, q, MagBytes(s))
  BY BytesAre
<1> HIDE DEF b, p, q
<1>4. (\A k \in 1 .. 6 : b[k] = p[k]) /\ (\A k \in 7 .. 12 : b[k] = q[k - 6])
  BY <1>3 DEF Laid
<1>5. ASSUME NEW zz \in 0 .. 5
      PROVE  buf[at + zz] = p[zz + 1] /\ buf[at2 + zz] = q[zz + 1]
  <2>1. zz \in 0 .. 11 /\ zz + 1 \in 1 .. 6
    OBVIOUS
  <2>2. buf[at + zz] = p[zz + 1]
    BY <1>2, <1>4, <2>1
  <2>3. at2 + zz = at + (zz + 6) /\ zz + 6 \in 0 .. 11
    OBVIOUS
  <2>4. buf[at2 + zz] = b[(zz + 6) + 1]
    BY <1>2, <2>3
  <2>5. (zz + 6) + 1 \in 7 .. 12 /\ ((zz + 6) + 1) - 6 = zz + 1
    OBVIOUS
  <2> QED
    BY <1>4, <2>2, <2>4, <2>5
<1>6. Lies(buf, at, p, 6) /\ Lies(buf, at2, q, 6)
  BY <1>5 DEF Lies
<1> HIDE DEF at2
<1>7. HighFirst(buf, at) = s.accel
  BY <1>1, <1>6, HighBack DEF p
<1>8. HighFirst(buf, at2) = s.gyro
  BY <1>1, <1>6, HighBack DEF q
<1> QED
  BY <1>7, <1>8 DEF at2

LEMMA MagBack ==
  ASSUME NEW s \in Sample, NEW buf, NEW at \in Int, Lies(buf, at, MagBytes(s), 8)
  PROVE  /\ LowFirst(buf, at + 1) = s.mag
         /\ MagStep(buf[at + 7]) = IF s.fine THEN 15 ELSE 60
<1> DEFINE m == MagBytes(s)
<1>1. s.mag \in [Axis -> Word16]
  BY DEF Sample
<1>2. /\ \A a \in Axis : Int16(m[2 * a + 3], m[2 * a + 2]) = s.mag[a]
      /\ MagStep(m[8]) = IF s.fine THEN 15 ELSE 60
  BY MagBytesAre
<1>3. \A zz \in 0 .. 7 : buf[at + zz] = m[zz + 1]
  BY DEF Lies
<1> HIDE DEF m
<1>4. ASSUME NEW a \in Axis
      PROVE  Int16(buf[at + 1 + 2 * a + 1], buf[at + 1 + 2 * a]) = s.mag[a]
  <2>1. 2 * a + 2 \in 0 .. 7 /\ 2 * a + 1 \in 0 .. 7 /\ a \in Int
    BY DEF Axis
  <2>2. /\ buf[at + (2 * a + 2)] = m[(2 * a + 2) + 1]
        /\ buf[at + (2 * a + 1)] = m[(2 * a + 1) + 1]
    BY <1>3, <2>1
  <2>3. /\ at + 1 + 2 * a + 1 = at + (2 * a + 2) /\ at + 1 + 2 * a = at + (2 * a + 1)
        /\ (2 * a + 2) + 1 = 2 * a + 3 /\ (2 * a + 1) + 1 = 2 * a + 2
    BY <2>1
  <2> QED
    BY <1>2, <2>2, <2>3
<1>5. buf[at + 7] = m[8]
  BY <1>3
<1> QED
  BY <1>1, <1>2, <1>4, <1>5 DEF LowFirst

LEMMA TeslaIs ==
  ASSUME NEW s \in Sample, NEW asa \in [Axis -> 0 .. 255], NEW st2,
         MagStep(st2) = IF s.fine THEN 15 ELSE 60
  PROVE  MicroTesla(s.mag, asa, st2) = Tesla(s, asa)
<1> DEFINE move == IF s.fine THEN 15 ELSE 60
<1>1. move \in Int /\ MagStep(st2) = move
  OBVIOUS
<1>3. Tesla(s, asa) = [a \in Axis |-> (256 * s.mag[a] + s.mag[a] * (asa[a] - 128)) * move]
  BY DEF Tesla
<1> HIDE DEF move
<1>2. ASSUME NEW a \in Axis
      PROVE  (s.mag[a] * (asa[a] + 128)) * move
               = (256 * s.mag[a] + s.mag[a] * (asa[a] - 128)) * move
  <2>3. s.mag \in [Axis -> Word16]
    BY DEF Sample
  <2>4. s.mag[a] \in Word16
    BY <2>3
  <2>5. asa[a] \in 0 .. 255
    OBVIOUS
  <2>1. s.mag[a] \in Int /\ asa[a] \in Int
    BY <2>4, <2>5, WordInt
  <2>2. s.mag[a] * (asa[a] + 128) = 256 * s.mag[a] + s.mag[a] * (asa[a] - 128)
    BY <2>1
  <2> QED
    BY <2>2
<1>4. MicroTesla(s.mag, asa, st2) = [a \in Axis |-> (s.mag[a] * (asa[a] + 128)) * move]
  BY <1>1 DEF MicroTesla, Adjusted
<1>5. [a \in Axis |-> (s.mag[a] * (asa[a] + 128)) * move]
        = [a \in Axis |-> (256 * s.mag[a] + s.mag[a] * (asa[a] - 128)) * move]
  BY <1>2, Zenon
<1> QED
  BY <1>3, <1>4, <1>5

-----------------------------------------------------------------------------
(* The two functions. *)

(* The fifo, read with a layout that the driver knows. *)
LEMMA FifoIs ==
  ASSUME NEW in, Sampled(in), in.fifoEn \in {120, 121}
  PROVE  LET size == IF in.fifoEn = 120 THEN 12 ELSE 20
         IN  /\ Chip(in).count = in.packets * size + in.spill
             /\ Samples(Chip(in).count, in.len, size) = Fewer(in.packets, in.len)
             /\ \A k \in 1 .. in.packets :
                  /\ Lies(Chip(in).fifo, size * (k - 1), Stored(in.fifoEn, in.sent[k]), size)
                  /\ in.sent[k] \in Sample
<1> DEFINE fe == in.fifoEn
           size == IF fe = 120 THEN 12 ELSE 20
           c == Chip(in)
           num == in.packets
<1>1. /\ num \in Nat /\ in.spill \in 0 .. 11 /\ in.len \in Nat \ {0}
      /\ in.now \in Sample /\ in.sent \in [1 .. num + 1 -> Sample]
      /\ num * Len(Stored(fe, in.now)) + in.spill <= 1024
  BY DEF Sampled
<1>2. Laid(Stored(fe, in.now), fe, HighBytes(in.now.accel), HighBytes(in.now.gyro), MagBytes(in.now))
  BY <1>1, BytesAre
<1>3. Len(Stored(fe, in.now)) = size
  BY <1>2 DEF Laid
<1>4. /\ c.count = num * size + in.spill
      /\ c.fifo = [p \in 0 .. (num + 1) * size - 1 |->
                     Stored(fe, in.sent[(p \div size) + 1])[(p % size) + 1]]
  BY <1>3 DEF Chip
<1>5. size \in {12, 20}
  OBVIOUS
<1> HIDE DEF size, c
<1>8. num * size + in.spill <= 1024
  BY <1>1, <1>3
<1>9. Fits(num, in.spill, in.len, size)
  BY <1>1, <1>5, <1>8 DEF Fits
<1>6. Whole(num, in.spill, in.len, size)
  BY <1>9, SamplesAre
<1>7. ASSUME NEW k \in 1 .. num
      PROVE  /\ Lies(c.fifo, size * (k - 1), Stored(fe, in.sent[k]), size)
             /\ in.sent[k] \in Sample
  <2>1. ASSUME NEW zz \in 0 .. size - 1
        PROVE  c.fifo[size * (k - 1) + zz] = Stored(fe, in.sent[k])[zz + 1]
    <3> DEFINE p == size * (k - 1) + zz
    <3>3. Within(size, num, k, zz)
      BY <1>1, <1>5 DEF Within
    <3>1. Placed(p, size, num, k, zz)
      BY <3>3, PlaceIs
    <3> HIDE DEF p
    <3>2. c.fifo[p] = Stored(fe, in.sent[(p \div size) + 1])[(p % size) + 1]
      BY <1>4, <3>1 DEF Placed
    <3> QED
      BY <3>1, <3>2 DEF p, Placed
  <2>2. in.sent[k] \in Sample
    BY <1>1
  <2> QED
    BY <2>1, <2>2 DEF Lies
<1> QED
  BY <1>4, <1>6, <1>7 DEF size, c, Whole

(* The numbers of the magnetometer, in its own bytes. *)
LEMMA FieldIs ==
  ASSUME NEW s \in Sample, NEW asa \in [Axis -> 0 .. 255], NEW buf,
         NEW at \in Int, Lies(buf, at, MagBytes(s), 8)
  PROVE  LET raw == LowFirst(buf, at + 1)
         IN  [raw |-> raw, ut |-> MicroTesla(raw, asa, buf[at + 7])] = FieldOf(s, asa)
<1>1. /\ LowFirst(buf, at + 1) = s.mag
      /\ MagStep(buf[at + 7]) = IF s.fine THEN 15 ELSE 60
  BY MagBack
<1> DEFINE st2 == buf[at + 7]
<1>2. MagStep(st2) = IF s.fine THEN 15 ELSE 60
  BY <1>1
<1> HIDE DEF st2
<1>3. MicroTesla(s.mag, asa, st2) = Tesla(s, asa)
  BY <1>2, TeslaIs
<1> QED
  BY <1>1, <1>3 DEF FieldOf, st2

(* What mpu6050_read and mpu9250_read make of a sample without a field. *)
Told(k, in) == [accel |-> in.sent[k].accel, gyro |-> in.sent[k].gyro, mag |-> NoField]
ToldMag(k, in) == [accel |-> in.sent[k].accel, gyro |-> in.sent[k].gyro,
                   mag |-> FieldOf(in.sent[k], in.asa)]

LEMMA InertialFifo ==
  ASSUME NEW in, Sampled(in), in.fifoEn = 120
  PROVE  Fifo6050(Chip(in).fifo, Chip(in).count, in.len)
           = [k \in 1 .. Fewer(in.packets, in.len) |-> Told(k, in)]
<1> DEFINE f == Chip(in).fifo
<1>1. /\ Samples(Chip(in).count, in.len, 12) = Fewer(in.packets, in.len)
      /\ \A k \in 1 .. in.packets :
           Lies(f, 12 * (k - 1), Stored(120, in.sent[k]), 12) /\ in.sent[k] \in Sample
  BY FifoIs
<1>2. in.packets \in Nat /\ in.len \in Nat
  BY DEF Sampled
<1> HIDE DEF f
<1>3. ASSUME NEW k \in 1 .. Fewer(in.packets, in.len)
      PROVE  Inertial(f, 12 * (k - 1)) = Told(k, in)
  <2>1. k \in 1 .. in.packets /\ 12 * (k - 1) \in Int /\ 120 \in {120, 121}
    BY <1>2 DEF Fewer
  <2>2. Lies(f, 12 * (k - 1), Stored(120, in.sent[k]), 12) /\ in.sent[k] \in Sample
    BY <1>1, <2>1
  <2> DEFINE at == 12 * (k - 1)
             s == in.sent[k]
  <2> HIDE DEF at, s
  <2>3. Lies(f, at, Stored(120, s), 12) /\ s \in Sample /\ at \in Int
    BY <2>1, <2>2 DEF at, s
  <2>4. HighFirst(f, at) = s.accel /\ HighFirst(f, at + 6) = s.gyro
    BY <2>3, AccelBack
  <2> QED
    BY <2>4 DEF Inertial, Told, at, s
<1> QED
  BY <1>1, <1>3 DEF Fifo6050, f

LEMMA MagFifo ==
  ASSUME NEW in, Sampled(in), in.fifoEn = 121
  PROVE  FifoMag9250(Chip(in).fifo, Chip(in).count, in.len, in.asa)
           = [k \in 1 .. Fewer(in.packets, in.len) |-> ToldMag(k, in)]
<1> DEFINE f == Chip(in).fifo
<1>1. /\ Samples(Chip(in).count, in.len, 20) = Fewer(in.packets, in.len)
      /\ \A k \in 1 .. in.packets :
           Lies(f, 20 * (k - 1), Stored(121, in.sent[k]), 20) /\ in.sent[k] \in Sample
  BY FifoIs
<1>2. in.packets \in Nat /\ in.len \in Nat /\ in.asa \in [Axis -> 0 .. 255]
  BY DEF Sampled
<1> HIDE DEF f
<1>3. ASSUME NEW k \in 1 .. Fewer(in.packets, in.len)
      PROVE  LET at == 20 * (k - 1)
                 raw == LowFirst(f, at + 13)
             IN [accel |-> HighFirst(f, at), gyro |-> HighFirst(f, at + 6),
                 mag |-> [raw |-> raw, ut |-> MicroTesla(raw, in.asa, f[at + 19])]]
                  = ToldMag(k, in)
  <2>1. k \in 1 .. in.packets /\ 20 * (k - 1) \in Int
    BY <1>2 DEF Fewer
  <2>2. Lies(f, 20 * (k - 1), Stored(121, in.sent[k]), 20) /\ in.sent[k] \in Sample
    BY <1>1, <2>1
  <2> DEFINE at == 20 * (k - 1)
             s == in.sent[k]
             at2 == at + 12
  <2> HIDE DEF at, s
  <2>3. Lies(f, at, Stored(121, s), 20) /\ s \in Sample /\ at \in Int
    BY <2>1, <2>2 DEF at, s
  <2>4. Lies(f, at, Stored(121, s), 12)
    BY <2>3 DEF Lies
  <2>5. HighFirst(f, at) = s.accel /\ HighFirst(f, at + 6) = s.gyro
    BY <2>3, <2>4, AccelBack
  <2>6. Lies(f, at2, MagBytes(s), 8)
    <3>1. Laid(Stored(121, s), 121, HighBytes(s.accel), HighBytes(s.gyro), MagBytes(s))
      BY <2>3, BytesAre
    <3>2. \A zz \in 13 .. 20 : Stored(121, s)[zz] = MagBytes(s)[zz - 12]
      BY <3>1 DEF Laid
    <3>3. ASSUME NEW zz \in 0 .. 7 PROVE f[at2 + zz] = MagBytes(s)[zz + 1]
      <4>1. at2 + zz = at + (12 + zz) /\ 12 + zz \in 0 .. 19
        BY <2>3
      <4>2. f[at2 + zz] = Stored(121, s)[(12 + zz) + 1]
        BY <2>3, <4>1 DEF Lies
      <4>3. (12 + zz) + 1 \in 13 .. 20 /\ ((12 + zz) + 1) - 12 = zz + 1
        OBVIOUS
      <4> QED
        BY <3>2, <4>2, <4>3
    <3> QED
      BY <3>3 DEF Lies
  <2>7. at2 \in Int /\ at2 + 1 = at + 13 /\ at2 + 7 = at + 19
    BY <2>3
  <2> HIDE DEF at2
  <2>8. [raw |-> LowFirst(f, at2 + 1), ut |-> MicroTesla(LowFirst(f, at2 + 1), in.asa, f[at2 + 7])]
          = FieldOf(s, in.asa)
    BY <1>2, <2>3, <2>6, <2>7, FieldIs
  <2> QED
    BY <2>5, <2>7, <2>8 DEF ToldMag, at, s
<1> QED
  BY <1>1, <1>3 DEF FifoMag9250, f

(* The data registers. *)
LEMMA DirectIs ==
  ASSUME NEW s \in Sample
  PROVE  LET buf == FromZero(Data(s))
         IN HighFirst(buf, 0) = s.accel /\ HighFirst(buf, 8) = s.gyro
<1> DEFINE p == HighBytes(s.accel)
           t == <<9, 9>>
           q == HighBytes(s.gyro)
           u == p \o t
           d == u \o q
           buf == FromZero(d)
<1>1. s.accel \in [Axis -> Word16] /\ s.gyro \in [Axis -> Word16]
  BY DEF Sample
<1>2. p \in Seq(Int) /\ Len(p) = 6 /\ q \in Seq(Int) /\ Len(q) = 6
  BY <1>1, HighBytesAre
<1>3. t \in Seq(Int) /\ Len(t) = 2
  OBVIOUS
<1>4. Data(s) = d
  BY DEF Data
<1> HIDE DEF p, t, q
<1>5. Joint(u, p, t, Len(p), Len(t))
  BY <1>2, <1>3, Joined
<1> HIDE DEF u
<1>6. u \in Seq(Int) /\ Len(u) = 8 /\ \A z \in 1 .. 6 : u[z] = p[z]
  BY <1>2, <1>3, <1>5 DEF Joint
<1>7. Joint(d, u, q, Len(u), Len(q))
  BY <1>2, <1>6, Joined
<1> HIDE DEF d
<1>8. /\ Len(d) = 14
      /\ \A z \in 1 .. 6 : d[z] = p[z]
      /\ \A z \in 9 .. 14 : d[z] = q[z - 8]
  <2>1. Joint(d, u, q, 8, 6)
    BY <1>2, <1>6, <1>7
  <2>2. Len(d) = 14 /\ \A z \in 1 .. 14 : d[z] = IF z <= 8 THEN u[z] ELSE q[z - 8]
    BY <2>1 DEF Joint
  <2> QED
    BY <1>6, <2>2
<1>9. ASSUME NEW zz \in 0 .. 5 PROVE buf[0 + zz] = p[zz + 1] /\ buf[8 + zz] = q[zz + 1]
  <2>1. buf = [k \in 0 .. 13 |-> d[k + 1]]
    BY <1>8 DEF FromZero
  <2>2. buf[0 + zz] = d[zz + 1] /\ buf[8 + zz] = d[(8 + zz) + 1]
    BY <2>1
  <2>3. zz + 1 \in 1 .. 6 /\ (8 + zz) + 1 \in 9 .. 14 /\ ((8 + zz) + 1) - 8 = zz + 1
    OBVIOUS
  <2> QED
    BY <1>8, <2>2, <2>3
<1>10. Lies(buf, 0, p, 6) /\ Lies(buf, 8, q, 6)
  BY <1>9 DEF Lies
<1> HIDE DEF buf
<1>11. HighFirst(buf, 0) = s.accel
  BY <1>1, <1>10, HighBack DEF p
<1>12. HighFirst(buf, 8) = s.gyro
  BY <1>1, <1>10, HighBack DEF q
<1> QED
  BY <1>4, <1>11, <1>12 DEF buf

LEMMA DirectMagIs ==
  ASSUME NEW s \in Sample, NEW asa \in [Axis -> 0 .. 255]
  PROVE  DirectMag(FromZero(MagBytes(s)), asa) = FieldOf(s, asa)
<1> DEFINE m == MagBytes(s)
           buf == FromZero(m)
<1>1. Len(m) = 8
  BY MagBytesAre
<1> HIDE DEF m
<1>2. buf = [k \in 0 .. 7 |-> m[k + 1]]
  BY <1>1 DEF FromZero
<1> HIDE DEF buf
<1>3. Lies(buf, 0, m, 8)
  BY <1>2 DEF Lies
<1>4. [raw |-> LowFirst(buf, 0 + 1), ut |-> MicroTesla(LowFirst(buf, 0 + 1), asa, buf[0 + 7])]
        = FieldOf(s, asa)
  BY <1>3, FieldIs DEF m
<1>5. 0 + 1 = 1 /\ 0 + 7 = 7
  OBVIOUS
<1> QED
  BY <1>4, <1>5 DEF DirectMag, buf, m

(* Whatever the range. *)
LEMMA RangeIs ==
  ASSUME NEW answer, NEW conf \in 0 .. 3,
         answer.accelLsb = AccelLsb(conf), answer.gyroLsb10 = GyroLsb10(conf)
  PROVE  InRange(answer, conf)
<1>1. CASE conf = 0
  BY <1>1 DEF InRange, AccelLsb, GyroLsb10
<1>2. CASE conf = 1
  BY <1>2 DEF InRange, AccelLsb, GyroLsb10
<1>3. CASE conf = 2
  BY <1>3 DEF InRange, AccelLsb, GyroLsb10
<1>4. CASE conf = 3
  BY <1>4 DEF InRange, AccelLsb, GyroLsb10
<1> QED
  BY <1>1, <1>2, <1>3, <1>4

LEMMA TemperatureIs == TempRight
<1>1. ASSUME NEW x \in Int, -32768 <= x, x <= 32767
      PROVE  Int16(FromZero(Bytes16(x))[0], FromZero(Bytes16(x))[1]) = x
  <2> DEFINE b == Bytes16(x)
             f == FromZero(b)
  <2>2. Len(b) = 2 /\ Int16(b[1], b[2]) = x
    BY <1>1, IntBack
  <2> HIDE DEF b
  <2>3. f = [k \in 0 .. 1 |-> b[k + 1]]
    BY <2>2 DEF FromZero
  <2>4. f[0] = b[1] /\ f[1] = b[2]
    BY <2>3
  <2> QED
    BY <2>2, <2>4 DEF b
<1>2. ASSUME NEW t \in {-4000, 0, 2100, 8500}
      PROVE  TempRightAt(t)
  <2> DEFINE x == (34 * (t - 3653)) \div 10
             y == (321 * (t - 2100)) \div 100
  <2>1. x \in Int /\ -32768 <= x /\ x <= 32767 /\ (100 * x) \div 340 + 3653 \in t - 1 .. t
    OBVIOUS
  <2>2. y \in Int /\ -32768 <= y /\ y <= 32767 /\ (100 * y) \div 321 + 2100 \in t - 1 .. t
    OBVIOUS
  <2> HIDE DEF x, y
  <2>3. Temperature6050(FromZero(Bytes16(x))) = (100 * x) \div 340 + 3653
    BY <1>1, <2>1 DEF Temperature6050
  <2>4. Temperature9250(FromZero(Bytes16(y))) = (100 * y) \div 321 + 2100
    BY <1>1, <2>2 DEF Temperature9250
  <2>5. Temperature6050(FromZero(Bytes16(x))) \in t - 1 .. t
    BY <2>1, <2>3
  <2>6. Temperature9250(FromZero(Bytes16(y))) \in t - 1 .. t
    BY <2>2, <2>4
  <2> QED
    BY <2>5, <2>6 DEF TempRightAt, x, y
<1> QED
  BY <1>2 DEF TempRight

LEMMA FifoBit ==
  ASSUME NEW in, Sampled(in)
  PROVE  in.fifoOn \in BOOLEAN /\ (Bit(Chip(in).userCtrl, 64) <=> in.fifoOn)
<1>1. in.fifoOn \in BOOLEAN
  BY DEF Sampled
<1>2. Chip(in).userCtrl = IF in.fifoOn THEN 64 ELSE 0
  BY DEF Chip
<1> QED
  BY <1>1, <1>2 DEF Bit

(* Neither refuses but for the layout of the fifo. *)
LEMMA RefusedIs ==
  ASSUME NEW in, Sampled(in), NEW layouts
  PROVE  Refused(Handle(in), Chip(in), in.len, layouts)
           = IF in.fifoOn /\ in.fifoEn \notin layouts THEN 6 ELSE 0
<1>1. in.len # 0 /\ in.fifoOn \in BOOLEAN
  BY DEF Sampled
<1>2. Handle(in).inited = TRUE /\ Handle(in).dmp = FALSE
  BY DEF Handle
<1>3. Chip(in).fifoEn = in.fifoEn
  BY DEF Chip
<1>4. Bit(Chip(in).userCtrl, 64) <=> in.fifoOn
  BY FifoBit
<1> QED
  BY <1>1, <1>2, <1>3, <1>4 DEF Refused

(* An answer whose samples are those of the fifo tells all of them. *)
LEMMA FifoTold ==
  ASSUME NEW in, Sampled(in), in.fifoOn, NEW answer, NEW mag \in BOOLEAN,
         answer.samples = [k \in 1 .. Fewer(in.packets, in.len) |->
                             IF mag THEN ToldMag(k, in) ELSE Told(k, in)]
  PROVE  TellsAll(answer, in, mag)
<1> DEFINE num == Fewer(in.packets, in.len)
<1>1. num \in Nat /\ num = IF in.packets <= in.len THEN in.packets ELSE in.len
  BY DEF Sampled, Fewer
<1> DEFINE e(k) == IF mag THEN ToldMag(k, in) ELSE Told(k, in)
<1>2. answer.samples = [k \in 1 .. num |-> e(k)]
  OBVIOUS
<1> HIDE DEF num, e
<1>3. Len(answer.samples) = num
  <2>1. num \in Nat
    BY <1>1
  <2>2. Len([k \in 1 .. num |-> e(k)]) = num
    BY <2>1
  <2> QED
    BY <1>2, <2>2
<1>4. ASSUME NEW k \in 1 .. num
      PROVE  Tells(answer.samples[k], in.sent[k],
                   IF mag THEN FieldOf(in.sent[k], in.asa) ELSE NoField)
  BY <1>2 DEF Tells, Told, ToldMag, e
<1> QED
  BY <1>1, <1>3, <1>4 DEF TellsAll

(* And the sample of the registers. *)
LEMMA RegistersTold ==
  ASSUME NEW in, ~in.fifoOn, NEW answer, NEW mag \in BOOLEAN,
         answer.samples = <<[accel |-> in.now.accel, gyro |-> in.now.gyro,
                             mag |-> IF mag THEN FieldOf(in.now, in.asa) ELSE NoField]>>
  PROVE  TellsAll(answer, in, mag)
BY DEF TellsAll, Tells

(* What an answer without an error has. *)
LEMMA AnswerIs ==
  ASSUME NEW in, Sampled(in), NEW samples
  PROVE  LET a == Answer(0, Chip(in), samples)
         IN a.code = 0 /\ a.samples = samples /\ InRange(a, in.conf)
<1> DEFINE a == Answer(0, Chip(in), samples)
<1>1. /\ a.code = 0 /\ a.samples = samples
      /\ a.accelLsb = AccelLsb(in.conf) /\ a.gyroLsb10 = GyroLsb10(in.conf)
  BY DEF Answer, Chip
<1>2. in.conf \in 0 .. 3
  BY DEF Sampled
<1> HIDE DEF a
<1>3. InRange(a, in.conf)
  BY <1>1, <1>2, RangeIs
<1> QED
  BY <1>1, <1>3 DEF a

LEMMA Right6050 ==
  ASSUME NEW in, Sampled(in)
  PROVE  LET a == Read6050(Handle(in), Chip(in), in.len)
         IN IF ~in.fifoOn \/ in.fifoEn \in {120}
              THEN a.code = 0 /\ TellsAll(a, in, FALSE) /\ InRange(a, in.conf)
              ELSE a = [code |-> 6]
<1> DEFINE a == Read6050(Handle(in), Chip(in), in.len)
<1>1. /\ in.fifoOn \in BOOLEAN /\ in.now \in Sample
      /\ Bit(Chip(in).userCtrl, 64) <=> in.fifoOn
  <2>1. in.now \in Sample
    BY DEF Sampled
  <2> QED
    BY <2>1, FifoBit
<1>2. Refused(Handle(in), Chip(in), in.len, {120})
        = IF in.fifoOn /\ in.fifoEn \notin {120} THEN 6 ELSE 0
  BY RefusedIs
<1>3. CASE in.fifoOn /\ in.fifoEn \notin {120}
  <2>1. a = [code |-> 6]
    BY <1>2, <1>3 DEF Read6050, Answer
  <2> QED
    BY <1>3, <2>1
<1>4. CASE in.fifoOn /\ in.fifoEn = 120
  <2> DEFINE f == Fifo6050(Chip(in).fifo, Chip(in).count, in.len)
  <2>1. a = Answer(0, Chip(in), f)
    BY <1>1, <1>2, <1>4 DEF Read6050
  <2>2. f = [k \in 1 .. Fewer(in.packets, in.len) |-> Told(k, in)]
    BY <1>4, InertialFifo
  <2> HIDE DEF f, a
  <2>3. a.code = 0 /\ a.samples = f /\ InRange(a, in.conf)
    BY <2>1, AnswerIs
  <2>4. TellsAll(a, in, FALSE)
    BY <1>4, <2>2, <2>3, FifoTold
  <2> QED
    BY <1>4, <2>3, <2>4 DEF a
<1>5. CASE ~in.fifoOn
  <2> DEFINE f == <<Direct6050(Chip(in).data)>>
  <2>1. a = Answer(0, Chip(in), f)
    BY <1>1, <1>2, <1>5 DEF Read6050
  <2>2. f = <<[accel |-> in.now.accel, gyro |-> in.now.gyro, mag |-> NoField]>>
    <3>1. Chip(in).data = FromZero(Data(in.now))
      BY DEF Chip
    <3> QED
      BY <1>1, <3>1, DirectIs DEF Direct6050
  <2> HIDE DEF f, a
  <2>3. a.code = 0 /\ a.samples = f /\ InRange(a, in.conf)
    BY <2>1, AnswerIs
  <2>4. TellsAll(a, in, FALSE)
    BY <1>5, <2>2, <2>3, RegistersTold
  <2> QED
    BY <1>5, <2>3, <2>4 DEF a
<1> QED
  BY <1>1, <1>3, <1>4, <1>5

LEMMA Right9250 ==
  ASSUME NEW in, Sampled(in)
  PROVE  LET a == Read9250(Handle(in), Chip(in), in.len)
         IN IF ~in.fifoOn \/ in.fifoEn \in {120, 121}
              THEN /\ a.code = 0 /\ InRange(a, in.conf)
                   /\ TellsAll(a, in, IF in.fifoOn THEN in.fifoEn = 121 ELSE in.mag)
              ELSE a = [code |-> 6]
<1> DEFINE a == Read9250(Handle(in), Chip(in), in.len)
<1>1. /\ in.fifoOn \in BOOLEAN /\ in.now \in Sample /\ in.mag \in BOOLEAN
      /\ in.asa \in [Axis -> 0 .. 255]
      /\ Bit(Chip(in).userCtrl, 64) <=> in.fifoOn
      /\ Chip(in).fifoEn = in.fifoEn /\ Handle(in).asa = in.asa /\ Handle(in).mag = in.mag
  <2>1. in.now \in Sample /\ in.mag \in BOOLEAN /\ in.asa \in [Axis -> 0 .. 255]
    BY DEF Sampled
  <2>2. Chip(in).fifoEn = in.fifoEn
    BY DEF Chip
  <2>3. Handle(in).asa = in.asa /\ Handle(in).mag = in.mag
    BY DEF Handle
  <2> QED
    BY <2>1, <2>2, <2>3, FifoBit
<1>2. Refused(Handle(in), Chip(in), in.len, {120, 121})
        = IF in.fifoOn /\ in.fifoEn \notin {120, 121} THEN 6 ELSE 0
  BY RefusedIs
<1>3. CASE in.fifoOn /\ in.fifoEn \notin {120, 121}
  <2>1. a = [code |-> 6]
    BY <1>2, <1>3 DEF Read9250, Answer
  <2> QED
    BY <1>3, <2>1
<1>4. CASE in.fifoOn /\ in.fifoEn = 120
  <2> DEFINE f == Fifo9250(Chip(in).fifo, Chip(in).count, in.len)
  <2>1. a = Answer(0, Chip(in), f)
    BY <1>1, <1>2, <1>4 DEF Read9250
  <2>2. f = [k \in 1 .. Fewer(in.packets, in.len) |-> Told(k, in)]
    BY <1>4, InertialFifo DEF Fifo9250, Fifo6050
  <2> HIDE DEF f, a
  <2>3. a.code = 0 /\ a.samples = f /\ InRange(a, in.conf)
    BY <2>1, AnswerIs
  <2>4. TellsAll(a, in, FALSE)
    BY <1>4, <2>2, <2>3, FifoTold
  <2>5. (in.fifoEn = 121) = FALSE
    BY <1>4
  <2> QED
    BY <1>4, <2>3, <2>4, <2>5 DEF a
<1>5. CASE in.fifoOn /\ in.fifoEn = 121
  <2> DEFINE f == FifoMag9250(Chip(in).fifo, Chip(in).count, in.len, in.asa)
  <2>1. a = Answer(0, Chip(in), f)
    BY <1>1, <1>2, <1>5 DEF Read9250
  <2>2. f = [k \in 1 .. Fewer(in.packets, in.len) |-> ToldMag(k, in)]
    BY <1>5, MagFifo
  <2> HIDE DEF f, a
  <2>3. a.code = 0 /\ a.samples = f /\ InRange(a, in.conf)
    BY <2>1, AnswerIs
  <2>4. TellsAll(a, in, TRUE)
    BY <1>5, <2>2, <2>3, FifoTold
  <2>5. (in.fifoEn = 121) = TRUE
    BY <1>5
  <2> QED
    BY <1>5, <2>3, <2>4, <2>5 DEF a
<1>6. CASE ~in.fifoOn
  <2> DEFINE f == <<Direct9250(Chip(in).data, in.mag, Chip(in).mag, in.asa)>>
  <2>1. a = Answer(0, Chip(in), f)
    BY <1>1, <1>2, <1>6 DEF Read9250
  <2>2. f = <<[accel |-> in.now.accel, gyro |-> in.now.gyro,
               mag |-> IF in.mag THEN FieldOf(in.now, in.asa) ELSE NoField]>>
    <3>1. Chip(in).data = FromZero(Data(in.now)) /\ Chip(in).mag = FromZero(MagBytes(in.now))
      BY DEF Chip
    <3>2. DirectMag(Chip(in).mag, in.asa) = FieldOf(in.now, in.asa)
      BY <1>1, <3>1, DirectMagIs
    <3> QED
      BY <1>1, <3>1, <3>2, DirectIs DEF Direct9250
  <2> HIDE DEF f, a
  <2>3. a.code = 0 /\ a.samples = f /\ InRange(a, in.conf)
    BY <2>1, AnswerIs
  <2>4. TellsAll(a, in, in.mag)
    BY <1>1, <1>6, <2>2, <2>3, RegistersTold
  <2> QED
    BY <1>6, <2>3, <2>4 DEF a
<1> QED
  BY <1>1, <1>3, <1>4, <1>5, <1>6

(* Whatever the chip sampled, and however it is asked. *)
LEMMA SamplesAlways ==
  ASSUME NEW in, Sampled(in) PROVE SamplesRight(in)
<1>1. MagRead(Chip(in).mag, in.asa) = FieldOf(in.now, in.asa)
  <2>1. in.now \in Sample /\ in.asa \in [Axis -> 0 .. 255]
    BY DEF Sampled
  <2> QED
    BY <2>1, DirectMagIs DEF MagRead, Chip
<1> QED
  BY <1>1, Right6050, Right9250, TemperatureIs DEF SamplesRight

-----------------------------------------------------------------------------
(* The chip's orientation. *)

(* The code of a row: which column it has, and 4 if backwards. *)
LEMMA RowScaleIs ==
  ASSUME NEW in \in OrientInputs, NEW a \in Axis
  PROVE  /\ RowScale(Matrix(in)[a]) = in.order[a] + (IF a \in in.back THEN 4 ELSE 0)
         /\ in.order[a] \in Axis
<1> DEFINE c == in.order[a]
           s == IF a \in in.back THEN -1 ELSE 1
           row == Matrix(in)[a]
<1>1. c \in {0, 1, 2}
  BY DEF OrientInputs, Orders, Axis
<1>2. /\ row[0] = IF c # 0 THEN 0 ELSE s
      /\ row[1] = IF c # 1 THEN 0 ELSE s
      /\ row[2] = IF c # 2 THEN 0 ELSE s
  BY DEF Matrix, Axis
<1> HIDE DEF row, c
<1>3. RowScale(row) = c + (IF a \in in.back THEN 4 ELSE 0)
  <2>1. CASE c = 0
    BY <1>2, <2>1 DEF RowScale
  <2>2. CASE c = 1
    BY <1>2, <2>2 DEF RowScale
  <2>3. CASE c = 2
    BY <1>2, <2>3 DEF RowScale
  <2> QED
    BY <1>1, <2>1, <2>2, <2>3
<1> QED
  BY <1>1, <1>3 DEF row, c, Axis

LEMMA CodeIs ==
  ASSUME NEW in \in OrientInputs, NEW a \in Axis
  PROVE  Code(Scalar(Matrix(in)), a) = RowScale(Matrix(in)[a])
<1> DEFINE s(b) == RowScale(Matrix(in)[b])
<1>1. s(0) \in 0 .. 6 /\ s(1) \in 0 .. 6 /\ s(2) \in 0 .. 6
  <2>1. ASSUME NEW b \in Axis PROVE s(b) \in 0 .. 6
    <3>1. in.order[b] \in {0, 1, 2} /\ s(b) = in.order[b] + (IF b \in in.back THEN 4 ELSE 0)
      BY RowScaleIs DEF Axis
    <3> HIDE DEF s
    <3> QED
      BY <3>1
  <2> QED
    BY <2>1 DEF Axis
<1>2. Scalar(Matrix(in)) = s(0) + 8 * s(1) + 64 * s(2)
  BY DEF Scalar
<1> HIDE DEF s
<1>3. CASE a = 0
  BY <1>1, <1>2, <1>3 DEF Code, s
<1>4. CASE a = 1
  BY <1>1, <1>2, <1>4 DEF Code, s
<1>5. CASE a = 2
  BY <1>1, <1>2, <1>5 DEF Code, s
<1> QED
  BY <1>3, <1>4, <1>5 DEF Axis

(* However the chip lies, and whatever the bias. *)
LEMMA OrientedAlways ==
  ASSUME NEW in \in OrientInputs PROVE OrientRight(in)
<1> DEFINE m == Matrix(in)
           cells == OrientCells(Scalar(m))
           Turned(row) == row[0] * in.bias[0] + row[1] * in.bias[1] + row[2] * in.bias[2]
           back(a) == a \in in.back
<1>1. ASSUME NEW a \in Axis
      PROVE  /\ in.order[a] \in {0, 1, 2}
             /\ Code(Scalar(m), a) = in.order[a] + (IF back(a) THEN 4 ELSE 0)
  BY RowScaleIs, CodeIs DEF Axis
<1>2. ASSUME NEW a \in Axis
      PROVE  /\ Code(Scalar(m), a) % 4 = in.order[a]
             /\ Code(Scalar(m), a) >= 4 <=> back(a)
  BY <1>1
<1>3. /\ m \in [Axis -> [Axis -> {-1, 0, 1}]]
      /\ \A a, c \in Axis :
           m[a][c] = IF in.order[a] # c THEN 0 ELSE IF back(a) THEN -1 ELSE 1
  BY DEF Matrix
<1>4. in.bias \in [Axis -> Int]
  BY ReadingsAssumption DEF OrientInputs
<1> HIDE DEF m, back
<1>5. ASSUME NEW a \in Axis
      PROVE  BodyBias(Scalar(m), in.bias)[a] = Turned(m[a])
  <2>1. BodyBias(Scalar(m), in.bias)[a]
          = IF back(a) THEN -in.bias[in.order[a]] ELSE in.bias[in.order[a]]
    BY <1>2 DEF BodyBias
  <2>2. /\ 0 \in Axis /\ 1 \in Axis /\ 2 \in Axis
        /\ in.bias[0] \in Int /\ in.bias[1] \in Int /\ in.bias[2] \in Int
    BY <1>4 DEF Axis
  <2>3. CASE in.order[a] = 0
    <3>1. m[a][0] = (IF back(a) THEN -1 ELSE 1) /\ m[a][1] = 0 /\ m[a][2] = 0
      BY <1>3, <2>2, <2>3
    <3> QED
      BY <2>1, <2>2, <2>3, <3>1
  <2>4. CASE in.order[a] = 1
    <3>1. m[a][1] = (IF back(a) THEN -1 ELSE 1) /\ m[a][0] = 0 /\ m[a][2] = 0
      BY <1>3, <2>2, <2>4
    <3> QED
      BY <2>1, <2>2, <2>4, <3>1
  <2>5. CASE in.order[a] = 2
    <3>1. m[a][2] = (IF back(a) THEN -1 ELSE 1) /\ m[a][0] = 0 /\ m[a][1] = 0
      BY <1>3, <2>2, <2>5
    <3> QED
      BY <2>1, <2>2, <2>5, <3>1
  <2> QED
    BY <1>1, <2>3, <2>4, <2>5
<1>6. BodyBias(Scalar(m), in.bias) = [a \in Axis |-> Turned(m[a])]
  BY <1>5 DEF BodyBias
<1>7. ASSUME NEW a \in Axis, NEW c \in Axis, m[a][c] # 0
      PROVE  /\ cells.axis[a] = [gyro |-> GyroAxis[c], accel |-> AccelAxis[c]]
             /\ (cells.sign[a].gyro % 2 = 1) = (m[a][c] < 0)
             /\ (cells.sign[a].accel % 2 = 1) = (m[a][c] < 0)
  <2>1. in.order[a] = c /\ (m[a][c] < 0 <=> back(a))
    BY <1>3, <1>7
  <2>2. cells.axis[a] = [gyro |-> GyroAxis[c], accel |-> AccelAxis[c]]
    <3>1. Code(Scalar(m), a) % 4 = c
      BY <1>2, <2>1
    <3>2. CASE c = 0
      BY <3>1, <3>2 DEF OrientCells, GyroAxis, AccelAxis, Axis
    <3>3. CASE c = 1
      BY <3>1, <3>3 DEF OrientCells, GyroAxis, AccelAxis, Axis
    <3>4. CASE c = 2
      BY <3>1, <3>4 DEF OrientCells, GyroAxis, AccelAxis, Axis
    <3> QED
      BY <3>2, <3>3, <3>4 DEF Axis
  <2>3. a \in {0, 1, 2}
    BY DEF Axis
  <2>4. CASE back(a)
    <3>1. cells.sign[a] = [gyro |-> 54 + 32 * a + 1, accel |-> 38 + 32 * a + 1]
      BY <1>2, <2>4 DEF OrientCells
    <3>2. cells.sign[a].gyro % 2 = 1 /\ cells.sign[a].accel % 2 = 1
      BY <2>3, <3>1
    <3> QED
      BY <2>1, <2>2, <2>4, <3>2
  <2>5. CASE ~back(a)
    <3>1. cells.sign[a] = [gyro |-> 54 + 32 * a + 0, accel |-> 38 + 32 * a + 0]
      BY <1>2, <2>5 DEF OrientCells
    <3>2. ~(cells.sign[a].gyro % 2 = 1) /\ ~(cells.sign[a].accel % 2 = 1)
      BY <2>3, <3>1
    <3> QED
      BY <2>1, <2>2, <2>5, <3>2
  <2> QED
    BY <2>4, <2>5
<1> QED
  BY <1>6, <1>7 DEF OrientRight, m

-----------------------------------------------------------------------------
(* What one coordinate has collected after t rounds of d each, if it has gone
   num on; once it has begun, more than nothing and no more than the longer
   difference D. *)
Reached(num, err, t, d, D) ==
  /\ num \in Nat /\ err \in Nat /\ err <= D
  /\ err = t * d - num * D
  /\ d = 0 => num = 0
  /\ d > 0 /\ t > 0 => err > 0

LEMMA ReachedStart ==
  ASSUME NEW d \in Nat, NEW D \in Nat, d <= D PROVE Reached(0, 0, 0, d, D)
BY DEF Reached

LEMMA ReachedNext ==
  ASSUME NEW d \in Nat, NEW D \in Nat, d <= D, NEW t \in Nat, NEW num, NEW err,
         Reached(num, err, t, d, D)
  PROVE  IF err + d > D THEN Reached(num + 1, (err + d) - D, t + 1, d, D)
         ELSE Reached(num, err + d, t + 1, d, D)
<1>1. num \in Nat /\ err \in Nat /\ err <= D /\ err = t * d - num * D
  BY DEF Reached
<1>2. (t + 1) * d = t * d + d /\ (num + 1) * D = num * D + D
  BY <1>1
<1>3. t * d \in Nat /\ num * D \in Nat
  BY <1>1
<1>4. CASE err + d > D
  <2>1. (err + d) - D \in Nat /\ (err + d) - D <= D /\ (err + d) - D > 0
    BY <1>1, <1>4
  <2>2. (err + d) - D = (t + 1) * d - (num + 1) * D
    BY <1>1, <1>2, <1>3
  <2>3. d # 0
    BY <1>1, <1>4
  <2> QED
    BY <1>1, <1>4, <2>1, <2>2, <2>3 DEF Reached
<1>5. CASE ~(err + d > D)
  <2>1. err + d \in Nat /\ err + d <= D /\ (d > 0 => err + d > 0)
    BY <1>1, <1>5
  <2>2. err + d = (t + 1) * d - num * D
    BY <1>1, <1>2, <1>3
  <2> QED
    BY <1>1, <1>5, <2>1, <2>2 DEF Reached
<1> QED
  BY <1>4, <1>5

(* It never goes past the end, is there in the last round, and within one of
   where it should be; and the longer one goes on in every round but the first. *)
LEMMA ReachedEnds ==
  ASSUME NEW d \in Nat, NEW D \in Nat, d <= D, NEW num, NEW err,
         NEW t \in 0 .. D + 1, Reached(num, err, t, d, D)
  PROVE  /\ num <= d
         /\ t <= 1 => num = 0
         /\ t = D + 1 => num = d
         /\ d = D => num = IF t = 0 \/ D = 0 THEN 0 ELSE t - 1
<1>1. /\ num \in Nat /\ err \in Nat /\ err <= D /\ err = t * d - num * D
      /\ d = 0 => num = 0
      /\ d > 0 /\ t > 0 => err > 0
  BY DEF Reached
<1>2. CASE d = 0
  BY <1>1, <1>2
<1>3. CASE d > 0 /\ t = 0
  <2>1. num * D <= 0 /\ D > 0
    BY <1>1, <1>3
  <2>2. num = 0
    BY <1>1, <2>1
  <2> QED
    BY <1>3, <2>2
<1>4. CASE d > 0 /\ t > 0
  <2>1. err > 0 /\ D > 0 /\ t <= D + 1
    BY <1>1, <1>4
  <2>2. t * d <= (D + 1) * d /\ (D + 1) * d = D * d + d
    BY <2>1
  <2>3. num * D < D * d + d
    BY <1>1, <2>1, <2>2
  <2>4. num <= d
    <3> SUFFICES ASSUME num >= d + 1 PROVE FALSE
      BY <1>1
    <3>1. num * D >= (d + 1) * D /\ (d + 1) * D = D * d + D
      BY <1>1, <2>1
    <3> QED
      BY <1>1, <2>3, <3>1
  <2>7. ASSUME t <= 1 PROVE num = 0
    <3> SUFFICES ASSUME num >= 1 PROVE FALSE
      BY <1>1
    <3>1. t = 1 /\ t * d = d /\ num * D >= D
      BY <1>1, <1>4, <2>1, <2>7
    <3> QED
      BY <1>1, <2>1, <3>1
  <2>5. ASSUME t = D + 1 PROVE num = d
    <3> SUFFICES ASSUME num <= d - 1 PROVE FALSE
      BY <1>1, <2>4
    <3>1. num * D <= (d - 1) * D /\ (d - 1) * D = D * d - D
      BY <1>1, <2>1
    <3>2. t * d = D * d + d
      BY <2>2, <2>5
    <3> QED
      BY <1>1, <1>4, <3>1, <3>2
  <2>6. ASSUME d = D PROVE num = t - 1
    <3>1. err = (t - num) * D
      BY <1>1, <2>6
    <3>2. t - num > 0
      BY <1>1, <2>1, <3>1
    <3>3. t - num <= 1
      <4> SUFFICES ASSUME t - num >= 2 PROVE FALSE
        BY <1>1
      <4>1. (t - num) * D >= 2 * D
        BY <1>1, <2>1
      <4> QED
        BY <1>1, <2>1, <3>1, <4>1
    <3> QED
      BY <1>1, <3>2, <3>3
  <2> QED
    BY <1>4, <2>1, <2>4, <2>5, <2>6, <2>7
<1> QED
  BY <1>2, <1>3, <1>4

-----------------------------------------------------------------------------
Coordinate == [at : Int, err : Int]

(* Along is what its definition says. *)
LEMMA AlongIs ==
  ASSUME NEW c1 \in Int, NEW c2 \in Int, NEW D \in Nat, NEW last \in Nat
  PROVE  LET f == Along(c1, c2, D, last)
         IN  /\ f \in [0 .. last -> Coordinate]
             /\ f[0] = [at |-> c1, err |-> 0]
             /\ \A t \in 1 .. last : f[t] = Round(f[t - 1], c1, c2, D)
<1> DEFINE On(r) == Round(r, c1, c2, D)
           s0 == [at |-> c1, err |-> 0]
           move == [t \in 1 .. last |-> [r \in Coordinate |-> On(r)]]
           Nth(f, t) == IF t = 0 THEN s0 ELSE On(f[t - 1])
<1>1. ASSUME NEW r \in Coordinate PROVE On(r) \in Coordinate
  <2>1. AbsOf(c2 - c1) \in Int /\ SignOf(c2 - c1) \in Int
    BY DEF AbsOf, SignOf
  <2>2. r.at \in Int /\ r.err \in Int
    BY DEF Coordinate
  <2> QED
    BY <2>1, <2>2 DEF Coordinate, Round
<1>2. s0 \in Coordinate
  BY DEF Coordinate
<1> HIDE DEF On, s0
<1>3. move \in [1 .. last -> [Coordinate -> Coordinate]]
  BY <1>1
<1>4. PICK e : Iterates(e, last, Coordinate, s0, move)
  <2> HIDE DEF move
  <2> QED
    BY <1>2, <1>3, IterationExists
<1>5. e \in [0 .. last -> Coordinate] /\ e[0] = s0
      /\ \A t \in 1 .. last : e[t] = On(e[t - 1])
  <2>1. ASSUME NEW t \in 1 .. last PROVE e[t] = On(e[t - 1])
    <3>1. t - 1 \in 0 .. last /\ e[t - 1] \in Coordinate
      BY <1>4 DEF Iterates
    <3>2. e[t] = move[t][e[t - 1]]
      BY <1>4 DEF Iterates
    <3> QED
      BY <3>1, <3>2
  <2> QED
    BY <1>4, <2>1 DEF Iterates
<1>6. e = [t \in 0 .. last |-> Nth(e, t)]
  <2>1. ASSUME NEW t \in 0 .. last PROVE e[t] = Nth(e, t)
    <3>1. CASE t = 0
      BY <1>5, <3>1
    <3>2. CASE t # 0
      <4>1. t \in 1 .. last
        BY <3>2
      <4> QED
        BY <1>5, <4>1
    <3> QED
      BY <3>1, <3>2
  <2>2. e = [t \in 0 .. last |-> e[t]]
    BY <1>5
  <2> QED
    BY <2>1, <2>2
<1> DEFINE f == Along(c1, c2, D, last)
<1>7. f = [t \in 0 .. last |-> Nth(f, t)]
  BY <1>6 DEF Along, On, s0
<1> HIDE DEF f
<1>8. f[0] = s0 /\ \A t \in 1 .. last : f[t] = On(f[t - 1])
  BY <1>7
<1>9. f \in [0 .. last -> Coordinate]
  <2> DEFINE P == {t \in 0 .. last : f[t] \in Coordinate}
  <2>1. 0 \in P
    BY <1>2, <1>8
  <2>2. ASSUME NEW t \in 1 .. last, t - 1 \in P PROVE t \in P
    BY <1>1, <1>8, <2>2
  <2>3. \A t \in 0 .. last : t \in P
    <3> HIDE DEF P
    <3> QED
      BY <2>1, <2>2, IterationKeeps
  <2>4. f = [t \in 0 .. last |-> f[t]]
    BY <1>7
  <2> QED
    BY <2>3, <2>4
<1> QED
  BY <1>8, <1>9 DEF f, On, s0

(* It goes one on towards c2 whenever it has collected more than D. *)
LEMMA AlongReaches ==
  ASSUME NEW c1 \in Int, NEW c2 \in Int, NEW D \in Nat, AbsOf(c2 - c1) <= D,
         NEW last \in Nat
  PROVE  \A t \in 0 .. last : \E num \in Nat :
           /\ Along(c1, c2, D, last)[t].at = c1 + num * SignOf(c2 - c1)
           /\ Reached(num, Along(c1, c2, D, last)[t].err, t, AbsOf(c2 - c1), D)
<1> DEFINE f == Along(c1, c2, D, last)
           d == AbsOf(c2 - c1)
           g == SignOf(c2 - c1)
           P == {t \in 0 .. last : \E num \in Nat :
                   f[t].at = c1 + num * g /\ Reached(num, f[t].err, t, d, D)}
<1>1. d \in Nat /\ g \in Int /\ d <= D
  BY DEF AbsOf, SignOf
<1>2. f[0] = [at |-> c1, err |-> 0]
  BY AlongIs
<1>3. \A t \in 1 .. last : f[t] = Round(f[t - 1], c1, c2, D)
  BY AlongIs
<1>7. f \in [0 .. last -> Coordinate]
  BY AlongIs
<1> HIDE DEF f, d, g
<1>4. 0 \in P
  <2>1. Reached(0, 0, 0, d, D)
    BY <1>1, ReachedStart
  <2> QED
    BY <1>1, <1>2, <2>1
<1>5. ASSUME NEW t \in 1 .. last, t - 1 \in P PROVE t \in P
  <2>1. PICK num \in Nat : /\ f[t - 1].at = c1 + num * g
                         /\ Reached(num, f[t - 1].err, t - 1, d, D)
    BY <1>5
  <2>2. t - 1 \in Nat /\ (t - 1) + 1 = t
    OBVIOUS
  <2>3. IF f[t - 1].err + d > D THEN Reached(num + 1, (f[t - 1].err + d) - D, t, d, D)
        ELSE Reached(num, f[t - 1].err + d, t, d, D)
    BY <1>1, <2>1, <2>2, ReachedNext
  <2>4. c1 + num * g + g = c1 + (num + 1) * g
    BY <1>1
  <2>5. CASE f[t - 1].err + d > D
    <3>1. f[t - 1].err \in Int /\ f[t - 1].at \in Int
      BY <1>7, <2>2 DEF Coordinate
    <3>2. f[t] = [at |-> f[t - 1].at + g, err |-> (f[t - 1].err + d) - D]
      BY <1>1, <1>3, <2>5, <3>1 DEF Round, d, g
    <3> QED
      BY <2>1, <2>3, <2>4, <2>5, <3>2
  <2>6. CASE ~(f[t - 1].err + d > D)
    <3>1. f[t] = [at |-> f[t - 1].at, err |-> f[t - 1].err + d]
      BY <1>3, <2>6 DEF Round, d, g
    <3> QED
      BY <2>1, <2>3, <2>6, <3>1
  <2> QED
    BY <2>5, <2>6
<1> HIDE DEF P
<1>6. \A t \in 0 .. last : t \in P
  BY <1>4, <1>5, IterationKeeps
<1> QED
  BY <1>6 DEF P, f, d, g

-----------------------------------------------------------------------------
LEMMA Greatest ==
  ASSUME NEW a \in Int, NEW b \in Int
  PROVE  Max({a, b}) \in {a, b} /\ a <= Max({a, b}) /\ b <= Max({a, b})
<1>1. \E x \in {a, b} : \A y \in {a, b} : x >= y
  <2>1. CASE a >= b
    BY <2>1
  <2>2. CASE b >= a
    BY <2>2
  <2> QED
    BY <2>1, <2>2
<1> QED
  BY <1>1 DEF Max

(* A coordinate that has gone num on is num away from where it began. *)
LEMMA Away ==
  ASSUME NEW c1 \in Int, NEW c2 \in Int, NEW num \in Nat, num <= AbsOf(c2 - c1)
  PROVE  LET p == c1 + num * SignOf(c2 - c1)
         IN  /\ p \in Int /\ AbsOf(p - c1) = num /\ Between(c1, p, c2)
             /\ num = AbsOf(c2 - c1) => p = c2
<1>1. CASE c2 - c1 > 0
  <2>1. AbsOf(c2 - c1) = c2 - c1 /\ num * SignOf(c2 - c1) = num
    BY <1>1 DEF AbsOf, SignOf
  <2> QED
    BY <2>1 DEF AbsOf, Between
<1>2. CASE c2 - c1 < 0
  <2>1. AbsOf(c2 - c1) = c1 - c2 /\ num * SignOf(c2 - c1) = -num
    BY <1>2 DEF AbsOf, SignOf
  <2> QED
    BY <2>1 DEF AbsOf, Between
<1>3. CASE c2 = c1
  <2>1. AbsOf(c2 - c1) = 0 /\ SignOf(c2 - c1) = 0
    BY <1>3 DEF AbsOf, SignOf
  <2>2. num = 0 /\ num * SignOf(c2 - c1) = 0
    BY <2>1
  <2> QED
    BY <1>3, <2>1, <2>2 DEF AbsOf, Between
<1> QED
  BY <1>1, <1>2, <1>3

(* The point of round t, in terms of how far its coordinates have gone. *)
LEMMA PointReached ==
  ASSUME NEW x1 \in Int, NEW y1 \in Int, NEW x2 \in Int, NEW y2 \in Int,
         NEW t \in 0 .. Longer(x1, y1, x2, y2) + 1
  PROVE  LET D == Longer(x1, y1, x2, y2)
             w == AbsOf(x2 - x1)
             h == AbsOf(y2 - y1)
             x == Along(x1, x2, D, D + 1)[t]
             y == Along(y1, y2, D, D + 1)[t]
         IN  /\ D \in Nat /\ w \in Nat /\ h \in Nat /\ D \in {w, h} /\ w <= D /\ h <= D
             /\ \E z, zz \in Nat :
                  /\ x.at = x1 + z * SignOf(x2 - x1) /\ Reached(z, x.err, t, w, D)
                  /\ y.at = y1 + zz * SignOf(y2 - y1) /\ Reached(zz, y.err, t, h, D)
<1> DEFINE D == Longer(x1, y1, x2, y2)
           w == AbsOf(x2 - x1)
           h == AbsOf(y2 - y1)
<1>1. w \in Nat /\ h \in Nat
  BY DEF AbsOf
<1>2. D \in {w, h} /\ w <= D /\ h <= D
  <2>1. D = Max({w, h})
    BY DEF Longer
  <2> HIDE DEF D, w, h
  <2>2. Max({w, h}) \in {w, h} /\ w <= Max({w, h}) /\ h <= Max({w, h})
    BY <1>1, Greatest
  <2> QED
    BY <2>1, <2>2
<1>3. D \in Nat /\ D + 1 \in Nat
  BY <1>1, <1>2
<1>4. \E z \in Nat : /\ Along(x1, x2, D, D + 1)[t].at = x1 + z * SignOf(x2 - x1)
                      /\ Reached(z, Along(x1, x2, D, D + 1)[t].err, t, w, D)
  BY <1>2, <1>3, AlongReaches
<1>5. \E zz \in Nat : /\ Along(y1, y2, D, D + 1)[t].at = y1 + zz * SignOf(y2 - y1)
                      /\ Reached(zz, Along(y1, y2, D, D + 1)[t].err, t, h, D)
  BY <1>2, <1>3, AlongReaches
<1> HIDE DEF D, w, h
<1> QED
  BY <1>1, <1>2, <1>3, <1>4, <1>5 DEF D, w, h

(* As far off the ideal line as what the shorter one has collected. *)
LEMMA NearLine ==
  ASSUME NEW w \in Nat, NEW h \in Nat, NEW D \in {w, h}, w <= D, h <= D,
         NEW t \in 0 .. D + 1, NEW z \in Nat, NEW zz \in Nat, NEW ex, NEW ey,
         Reached(z, ex, t, w, D), Reached(zz, ey, t, h, D)
  PROVE  AbsOf(h * z - w * zz) <= D
<1>1. /\ ex \in Nat /\ ex <= D /\ ex = t * w - z * D
      /\ ey \in Nat /\ ey <= D /\ ey = t * h - zz * D
  BY DEF Reached
<1>2. CASE t = 0 \/ D = 0
  <2>1. z = 0 /\ zz = 0
    BY <1>2, ReachedEnds
  <2> QED
    BY <2>1 DEF AbsOf
<1>3. CASE t > 0 /\ D > 0 /\ w = D
  <2>1. z = t - 1
    BY <1>3, ReachedEnds
  <2>2. h * z = t * h - h
    BY <2>1
  <2>3. w * zz = t * h - ey
    BY <1>1, <1>3
  <2>4. h * z - w * zz = ey - h
    BY <1>1, <2>2, <2>3
  <2> QED
    BY <1>1, <2>4 DEF AbsOf
<1>4. CASE t > 0 /\ D > 0 /\ h = D
  <2>1. zz = t - 1
    BY <1>4, ReachedEnds
  <2>2. w * zz = t * w - w
    BY <2>1
  <2>3. h * z = t * w - ex
    BY <1>1, <1>4
  <2>4. h * z - w * zz = w - ex
    BY <1>1, <2>2, <2>3
  <2> QED
    BY <1>1, <2>4 DEF AbsOf
<1> QED
  BY <1>2, <1>3, <1>4

LEMMA CountedUp ==
  ASSUME NEW D \in Nat, NEW T, NEW f,
         f \in [0 .. D -> T], \A p \in T : \E zz \in 0 .. D : p = f[zz],
         \A z, zz \in 0 .. D : f[z] = f[zz] => z = zz
  PROVE  Cardinality(T) = D + 1
<1>1. f \in Bijection(0 .. D, T)
  BY DEF Bijection, Injection, Surjection, IsInjective
<1>2. ExistsBijection(0 .. D, T)
  BY <1>1 DEF ExistsBijection
<1>3. IsFiniteSet(0 .. D) /\ Cardinality(0 .. D) = D + 1
  BY FS_Interval
<1> QED
  BY <1>2, <1>3, FS_Bijection

(* The pixel <<u, v>> that is drawn in round t. *)
LinePlace(u, v, t, x1, y1, x2, y2) ==
  LET D == Longer(x1, y1, x2, y2)
      w == AbsOf(x2 - x1)
      h == AbsOf(y2 - y1)
  IN /\ u \in Int /\ v \in Int /\ Between(x1, u, x2) /\ Between(y1, v, y2)
     /\ AbsOf(h * AbsOf(u - x1) - w * AbsOf(v - y1)) <= D
     /\ t <= 1 => <<u, v>> = <<x1, y1>>
     /\ t = D + 1 => <<u, v>> = <<x2, y2>>
     /\ t >= 1 => IF w >= h THEN AbsOf(u - x1) = t - 1 ELSE AbsOf(v - y1) = t - 1

LEMMA LongerIs ==
  ASSUME NEW x1 \in Int, NEW y1 \in Int, NEW x2 \in Int, NEW y2 \in Int
  PROVE  LET D == Longer(x1, y1, x2, y2)
             w == AbsOf(x2 - x1)
             h == AbsOf(y2 - y1)
         IN  /\ D \in Nat /\ w \in Nat /\ h \in Nat /\ D \in {w, h} /\ w <= D /\ h <= D
             /\ D = IF w >= h THEN w ELSE h
<1> DEFINE D == Longer(x1, y1, x2, y2)
           w == AbsOf(x2 - x1)
           h == AbsOf(y2 - y1)
<1>1. w \in Nat /\ h \in Nat /\ D = Max({w, h})
  BY DEF AbsOf, Longer
<1> HIDE DEF D, w, h
<1>2. Max({w, h}) \in {w, h} /\ w <= Max({w, h}) /\ h <= Max({w, h})
  BY <1>1, Greatest
<1>3. D \in {w, h} /\ w <= D /\ h <= D
  BY <1>1, <1>2
<1>4. D \in Nat /\ D = IF w >= h THEN w ELSE h
  BY <1>1, <1>3
<1> QED
  BY <1>1, <1>3, <1>4 DEF D, w, h

LEMMA PlaceOnLine ==
  ASSUME NEW x1 \in Int, NEW y1 \in Int, NEW x2 \in Int, NEW y2 \in Int,
         NEW t \in 0 .. Longer(x1, y1, x2, y2) + 1
  PROVE  LET D == Longer(x1, y1, x2, y2)
         IN  LinePlace(Along(x1, x2, D, D + 1)[t].at, Along(y1, y2, D, D + 1)[t].at,
                       t, x1, y1, x2, y2)
<1> DEFINE D == Longer(x1, y1, x2, y2)
           w == AbsOf(x2 - x1)
           h == AbsOf(y2 - y1)
           x == Along(x1, x2, D, D + 1)
           y == Along(y1, y2, D, D + 1)
<1>4. D \in Nat /\ w \in Nat /\ h \in Nat /\ D \in {w, h} /\ w <= D /\ h <= D
  BY LongerIs
<1>5. \E z, zz \in Nat :
        /\ x[t].at = x1 + z * SignOf(x2 - x1) /\ Reached(z, x[t].err, t, w, D)
        /\ y[t].at = y1 + zz * SignOf(y2 - y1) /\ Reached(zz, y[t].err, t, h, D)
  BY PointReached
<1>6. t \in 0 .. D + 1
  OBVIOUS
<1> HIDE DEF D, w, h, x, y
<1>11. PICK z \in Nat, zz \in Nat :
        /\ x[t].at = x1 + z * SignOf(x2 - x1) /\ Reached(z, x[t].err, t, w, D)
        /\ y[t].at = y1 + zz * SignOf(y2 - y1) /\ Reached(zz, y[t].err, t, h, D)
  BY <1>5
<1>12. /\ z <= w /\ (t <= 1 => z = 0) /\ (t = D + 1 => z = w)
       /\ w = D => z = IF t = 0 \/ D = 0 THEN 0 ELSE t - 1
  BY <1>4, <1>6, <1>11, ReachedEnds, SMTT(30)
<1>13. /\ zz <= h /\ (t <= 1 => zz = 0) /\ (t = D + 1 => zz = h)
       /\ h = D => zz = IF t = 0 \/ D = 0 THEN 0 ELSE t - 1
  BY <1>4, <1>6, <1>11, ReachedEnds, SMTT(30)
<1>14. /\ x[t].at \in Int /\ AbsOf(x[t].at - x1) = z /\ Between(x1, x[t].at, x2)
       /\ z = w => x[t].at = x2
  BY <1>11, <1>12, Away DEF w
<1>15. /\ y[t].at \in Int /\ AbsOf(y[t].at - y1) = zz /\ Between(y1, y[t].at, y2)
       /\ zz = h => y[t].at = y2
  BY <1>11, <1>13, Away DEF h
<1>16. AbsOf(h * z - w * zz) <= D
  BY <1>4, <1>6, <1>11, NearLine
<1>17. t <= 1 => x[t].at = x1 /\ y[t].at = y1
  <2>1. 0 * SignOf(x2 - x1) = 0 /\ 0 * SignOf(y2 - y1) = 0
    BY DEF SignOf
  <2> QED
    BY <1>11, <1>12, <1>13, <2>1
<1>18. t >= 1 => IF w >= h THEN z = t - 1 ELSE zz = t - 1
  BY <1>4, <1>6, <1>12, <1>13
<1> QED
  BY <1>6, <1>12, <1>13, <1>14, <1>15, <1>16, <1>17, <1>18 DEF LinePlace, D, w, h, x, y

(* FbDrawLine, for any two points: the line goes from one to the other, has a
   single pixel in each column (or row, if it is steeper), and none as much as
   a pixel away from the ideal line. *)
THEOREM LinesAreStraight ==
  \A line \in [x1 : Int, y1 : Int, x2 : Int, y2 : Int] :
    IsLine(LinePoints(line.x1, line.y1, line.x2, line.y2), line)
<1> SUFFICES ASSUME NEW line \in [x1 : Int, y1 : Int, x2 : Int, y2 : Int]
             PROVE  IsLine(LinePoints(line.x1, line.y1, line.x2, line.y2), line)
  OBVIOUS
<1> DEFINE x1 == line.x1
           y1 == line.y1
           x2 == line.x2
           y2 == line.y2
           D == Longer(x1, y1, x2, y2)
           w == AbsOf(x2 - x1)
           h == AbsOf(y2 - y1)
           x == Along(x1, x2, D, D + 1)
           y == Along(y1, y2, D, D + 1)
           pt(t) == <<x[t].at, y[t].at>>
           pixels == {pt(t) : t \in 0 .. D + 1}
<1>1. x1 \in Int /\ y1 \in Int /\ x2 \in Int /\ y2 \in Int
  OBVIOUS
<1>2. LinePoints(x1, y1, x2, y2) = pixels
  BY DEF LinePoints, Rounds
<1>3. Max({w, h}) = D
  BY DEF Longer
<1> HIDE DEF x1, y1, x2, y2
<1>4. /\ D \in Nat /\ w \in Nat /\ h \in Nat /\ D \in {w, h} /\ w <= D /\ h <= D
  BY <1>1, LongerIs
<1>5. ASSUME NEW t \in 0 .. D + 1
      PROVE  LinePlace(x[t].at, y[t].at, t, x1, y1, x2, y2)
  BY <1>1, PlaceOnLine
<1>6. ASSUME NEW t \in 0 .. D + 1
      PROVE  /\ pt(t)[1] \in Int /\ pt(t)[2] \in Int
             /\ Between(x1, pt(t)[1], x2) /\ Between(y1, pt(t)[2], y2)
             /\ AbsOf(h * AbsOf(pt(t)[1] - x1) - w * AbsOf(pt(t)[2] - y1)) <= D
             /\ t <= 1 => pt(t) = <<x1, y1>>
             /\ t = D + 1 => pt(t) = <<x2, y2>>
             /\ t >= 1 => IF w >= h THEN AbsOf(pt(t)[1] - x1) = t - 1
                          ELSE AbsOf(pt(t)[2] - y1) = t - 1
  BY <1>5 DEF LinePlace, D, w, h
<1> HIDE DEF D, w, h, x, y
<1> HIDE DEF pt
<1>7. \A t \in 0 .. D : t + 1 \in 0 .. D + 1 /\ t + 1 >= 1 /\ (t + 1) - 1 = t
  BY <1>4
<1>8. \A p \in pixels : \E zz \in 0 .. D : p = pt(zz + 1)
  <2> SUFFICES ASSUME NEW t \in 0 .. D + 1 PROVE \E zz \in 0 .. D : pt(t) = pt(zz + 1)
    OBVIOUS
  <2>1. CASE t = 0
    <3>1. 0 \in 0 .. D /\ 0 + 1 \in 0 .. D + 1
      BY <1>4
    <3>2. pt(0) = pt(0 + 1)
      BY <1>4, <1>6, <3>1
    <3> QED
      BY <2>1, <3>1, <3>2
  <2>2. CASE t # 0
    <3>1. t - 1 \in 0 .. D /\ (t - 1) + 1 = t
      BY <1>4, <2>2
    <3> QED
      BY <3>1
  <2> QED
    BY <2>1, <2>2
<1>9. Cardinality(pixels) = D + 1
  <2> DEFINE f == [zz \in 0 .. D |-> pt(zz + 1)]
  <2>1. f \in [0 .. D -> pixels]
    BY <1>7
  <2>2. \A p \in pixels : \E zz \in 0 .. D : p = f[zz]
    BY <1>8
  <2>3. \A z, zz \in 0 .. D : f[z] = f[zz] => z = zz
    BY <1>6, <1>7
  <2> HIDE DEF f, pixels
  <2> QED
    BY <1>4, <2>1, <2>2, <2>3, CountedUp
<1>10. Cardinality({p[IF w >= h THEN 1 ELSE 2] : p \in pixels}) = D + 1
  <2> DEFINE c == IF w >= h THEN 1 ELSE 2
             T == {p[c] : p \in pixels}
             f == [zz \in 0 .. D |-> pt(zz + 1)[c]]
  <2>1. f \in [0 .. D -> T]
    BY <1>7
  <2>2. \A q \in T : \E zz \in 0 .. D : q = f[zz]
    BY <1>8
  <2>3. \A z, zz \in 0 .. D : f[z] = f[zz] => z = zz
    BY <1>6, <1>7
  <2>4. Cardinality(T) = D + 1
    <3> HIDE DEF f, T
    <3> QED
      BY <1>4, <2>1, <2>2, <2>3, CountedUp
  <2> QED
    BY <2>4
<1>11. {<<x1, y1>>, <<x2, y2>>} \subseteq pixels
  <2>1. 0 \in 0 .. D + 1 /\ D + 1 \in 0 .. D + 1
    BY <1>4
  <2> QED
    BY <1>6, <2>1
<1>12. \A p \in pixels :
         /\ Between(x1, p[1], x2) /\ Between(y1, p[2], y2)
         /\ AbsOf(h * AbsOf(p[1] - x1) - w * AbsOf(p[2] - y1)) <= D
  BY <1>6
<1> HIDE DEF pixels
<1> QED
  BY <1>2, <1>3, <1>9, <1>10, <1>11, <1>12 DEF IsLine, x1, y1, x2, y2, w, h

-----------------------------------------------------------------------------
(* Where the loop of FbDrawCircle is after t rounds: one further on or down in
   each, inside the circle, and no more than the diagonal of a pixel from it. *)
Walks(a, b, t, r) ==
  /\ a \in Nat /\ b \in Nat /\ b <= r /\ a + (r - b) = t
  /\ a * a + b * b <= r * r
  /\ r * r < (a + 1) * (a + 1) + (b + 1) * (b + 1)

LEMMA Squares ==
  ASSUME NEW u \in Nat, NEW v \in Nat, u * u < v * v
  PROVE  u < v
<1> SUFFICES ASSUME v <= u PROVE FALSE
  OBVIOUS
<1>1. v * v <= v * u /\ v * u <= u * u
  OBVIOUS
<1> QED
  BY <1>1

LEMMA WalksStart ==
  ASSUME NEW r \in Nat
  PROVE  Walks(0, r, 0, r)
BY DEF Walks

LEMMA WalksOn ==
  ASSUME NEW r \in Nat, NEW t \in Nat, t < r, NEW a, NEW b, Walks(a, b, t, r)
  PROVE  IF (a + 1) * (a + 1) + b * b > r * r THEN Walks(a, b - 1, t + 1, r)
         ELSE Walks(a + 1, b, t + 1, r)
<1>1. /\ a \in Nat /\ b \in Nat /\ b <= r /\ a + (r - b) = t
      /\ a * a + b * b <= r * r
      /\ r * r < (a + 1) * (a + 1) + (b + 1) * (b + 1)
  BY DEF Walks
<1>2. CASE (a + 1) * (a + 1) + b * b > r * r
  <2>1. b - 1 \in Nat /\ b - 1 <= r /\ a + (r - (b - 1)) = t + 1
    BY <1>1
  <2>2. (b - 1) * (b - 1) <= b * b /\ ((b - 1) + 1) * ((b - 1) + 1) = b * b
    BY <1>1, <2>1
  <2>3. a * a + (b - 1) * (b - 1) <= r * r
    BY <1>1, <2>1, <2>2
  <2>4. r * r < (a + 1) * (a + 1) + ((b - 1) + 1) * ((b - 1) + 1)
    BY <1>1, <1>2, <2>2
  <2> QED
    BY <1>1, <1>2, <2>1, <2>3, <2>4 DEF Walks
<1>3. CASE ~((a + 1) * (a + 1) + b * b > r * r)
  <2>1. (a + 1) * (a + 1) + b * b <= r * r
    BY <1>1, <1>3
  <2>2. (a + 1) * (a + 1) <= ((a + 1) + 1) * ((a + 1) + 1)
    BY <1>1
  <2>3. r * r < ((a + 1) + 1) * ((a + 1) + 1) + (b + 1) * (b + 1)
    BY <1>1, <2>2
  <2>4. a + 1 \in Nat /\ (a + 1) + (r - b) = t + 1
    BY <1>1
  <2> QED
    BY <1>1, <1>3, <2>1, <2>3, <2>4 DEF Walks
<1> QED
  BY <1>2, <1>3

(* Above the diagonal it is less than two pixels inside. *)
LEMMA WalksRing ==
  ASSUME NEW r \in Nat, NEW t, NEW a, NEW b, Walks(a, b, t, r), 2 * b * b >= r * r
  PROVE  a * a + b * b <= r * r /\ (r < 3 \/ a * a + b * b > (r - 2) * (r - 2))
<1>1. /\ a \in Nat /\ b \in Nat /\ b <= r /\ a * a + b * b <= r * r
      /\ r * r < (a + 1) * (a + 1) + (b + 1) * (b + 1)
  BY DEF Walks
<1>2. CASE r = 3
  <2>1. b = 3
    <3>1. b = 0 \/ b = 1 \/ b = 2 \/ b = 3
      BY <1>1, <1>2
    <3> QED
      BY <1>2, <3>1
  <2>2. a * a >= 0
    BY <1>1
  <2> QED
    BY <1>1, <1>2, <2>1, <2>2
<1>3. CASE r > 3
  <2>1. a + b < 2 * r - 2
    <3>1. (a + b) * (a + b) <= 2 * (a * a + b * b)
      <4>1. (a - b) * (a - b) >= 0
        <5>1. CASE a >= b
          BY <1>1, <5>1
        <5>2. CASE a < b
          <6>1. (a - b) * (a - b) = (b - a) * (b - a) /\ b - a \in Nat
            BY <1>1, <5>2
          <6>2. (b - a) * (b - a) >= 0
            BY <6>1
          <6> QED
            BY <6>1, <6>2
        <5> QED
          BY <1>1, <5>1, <5>2
      <4>2. (a + b) * (a + b) + (a - b) * (a - b) = 2 * (a * a + b * b)
        BY <1>1
      <4> QED
        BY <1>1, <4>1, <4>2
    <3>2. 2 * (r * r) < (2 * r - 2) * (2 * r - 2)
      <4>1. (2 * r - 2) * (2 * r - 2) = (2 * (r * r) + 2 * (r * (r - 4))) + 4
        OBVIOUS
      <4>2. r * (r - 4) >= 0
        BY <1>3
      <4> QED
        BY <4>1, <4>2
    <3>3. (a + b) * (a + b) < (2 * r - 2) * (2 * r - 2)
      BY <1>1, <3>1, <3>2
    <3>4. a + b \in Nat /\ 2 * r - 2 \in Nat
      BY <1>1, <1>3
    <3> QED
      BY <3>3, <3>4, Squares
  <2>2. (a + 1) * (a + 1) + (b + 1) * (b + 1) = (a * a + b * b) + 2 * (a + b) + 2
    BY <1>1
  <2>3. (r - 2) * (r - 2) = (r * r - 4 * r) + 4
    OBVIOUS
  <2> QED
    BY <1>1, <2>1, <2>2, <2>3
<1> QED
  BY <1>1, <1>2, <1>3

(* After r rounds it is on the diagonal or below. *)
LEMMA WalksEnd ==
  ASSUME NEW r \in Nat, NEW a, NEW b, Walks(a, b, r, r),
         NEW row \in Nat, 2 * row * row >= r * r
  PROVE  b <= row
<1>1. /\ a \in Nat /\ b \in Nat /\ b <= r /\ a + (r - b) = r /\ a * a + b * b <= r * r
  BY DEF Walks
<1>2. a = b
  BY <1>1
<1>3. 2 * (b * b) <= r * r
  BY <1>1, <1>2
<1> SUFFICES ASSUME row < b PROVE FALSE
  BY <1>1
<1>4. row * row < b * b
  <2>1. row * row <= row * b /\ row * b < b * b
    BY <1>1
  <2> QED
    BY <1>1, <2>1
<1> QED
  BY <1>1, <1>3, <1>4

(* Arc's rounds are what its definition says. *)
LEMMA RoundsOfArc ==
  ASSUME NEW r \in Nat
  PROVE  \E f : /\ Arc(r) = {p \in {f[t] : t \in 0 .. r} : 2 * p[2] * p[2] >= r * r}
                /\ f[0] = <<0, r>>
                /\ \A t \in 1 .. r : f[t] = Onward(f[t - 1], r)
<1> DEFINE Point == Int \X Int
           On(p) == Onward(p, r)
           s0 == <<0, r>>
           move == [t \in 1 .. r |-> [p \in Point |-> On(p)]]
           Nth(f, t) == IF t = 0 THEN s0 ELSE On(f[t - 1])
<1>1. ASSUME NEW p \in Point PROVE On(p) \in Point
  BY DEF Onward
<1>2. s0 \in Point
  OBVIOUS
<1> HIDE DEF On, s0, Point
<1>3. move \in [1 .. r -> [Point -> Point]]
  BY <1>1
<1>4. PICK e : Iterates(e, r, Point, s0, move)
  <2> HIDE DEF move
  <2> QED
    BY <1>2, <1>3, IterationExists
<1>5. e \in [0 .. r -> Point] /\ e[0] = s0 /\ \A t \in 1 .. r : e[t] = On(e[t - 1])
  <2>1. ASSUME NEW t \in 1 .. r PROVE e[t] = On(e[t - 1])
    <3>1. t - 1 \in 0 .. r /\ e[t - 1] \in Point
      BY <1>4 DEF Iterates
    <3>2. e[t] = move[t][e[t - 1]]
      BY <1>4 DEF Iterates
    <3> QED
      BY <3>1, <3>2
  <2> QED
    BY <1>4, <2>1 DEF Iterates
<1>6. e = [t \in 0 .. r |-> Nth(e, t)]
  <2>1. ASSUME NEW t \in 0 .. r PROVE e[t] = Nth(e, t)
    <3>1. CASE t = 0
      BY <1>5, <3>1
    <3>2. CASE t # 0
      <4>1. t \in 1 .. r
        BY <3>2
      <4> QED
        BY <1>5, <4>1
    <3> QED
      BY <3>1, <3>2
  <2>2. e = [t \in 0 .. r |-> e[t]]
    BY <1>5
  <2> QED
    BY <2>1, <2>2
<1> DEFINE f == CHOOSE f : f = [t \in 0 .. r |-> Nth(f, t)]
<1>7. f = [t \in 0 .. r |-> Nth(f, t)]
  BY <1>6
<1>8. Arc(r) = {p \in {f[t] : t \in 0 .. r} : 2 * p[2] * p[2] >= r * r}
  BY DEF Arc, On, s0
<1> HIDE DEF f
<1>9. f[0] = s0 /\ \A t \in 1 .. r : f[t] = On(f[t - 1])
  BY <1>7
<1> QED
  BY <1>8, <1>9 DEF On, s0

LEMMA OnwardIs ==
  \A a, b, r : Onward(<<a, b>>, r) = IF (a + 1) * (a + 1) + b * b > r * r THEN <<a, b - 1>>
                                   ELSE <<a + 1, b>>
BY DEF Onward

LEMMA RoundWalks ==
  ASSUME NEW r \in Nat, NEW f, f[0] = <<0, r>>,
         \A t \in 1 .. r : f[t] = Onward(f[t - 1], r)
  PROVE  \A t \in 0 .. r : \E a, b : f[t] = <<a, b>> /\ Walks(a, b, t, r)
<1> DEFINE P == {t \in 0 .. r : \E a, b : f[t] = <<a, b>> /\ Walks(a, b, t, r)}
<1>1. 0 \in P
  BY WalksStart
<1>2. ASSUME NEW t \in 1 .. r, t - 1 \in P PROVE t \in P
  <2>1. PICK a, b : f[t - 1] = <<a, b>> /\ Walks(a, b, t - 1, r)
    BY <1>2
  <2>2. t - 1 \in Nat /\ t - 1 < r /\ (t - 1) + 1 = t
    OBVIOUS
  <2>3. IF (a + 1) * (a + 1) + b * b > r * r THEN Walks(a, b - 1, t, r)
        ELSE Walks(a + 1, b, t, r)
    BY <2>1, <2>2, WalksOn
  <2>4. f[t] = IF (a + 1) * (a + 1) + b * b > r * r THEN <<a, b - 1>> ELSE <<a + 1, b>>
    <3>1. f[t] = Onward(<<a, b>>, r)
      BY <2>1
    <3> QED
      BY <3>1, OnwardIs
  <2> QED
    BY <2>3, <2>4
<1>3. \A t \in 0 .. r : t \in P
  <2> HIDE DEF P
  <2> QED
    BY <1>1, <1>2, IterationKeeps
<1> QED
  BY <1>3

(* What the loop has drawn of the arc: points of the ring, and one in each row
   that it has come past. *)
LEMMA ArcIs ==
  ASSUME NEW r \in Nat
  PROVE  /\ \A p \in Arc(r) : \E a, b \in Nat :
              /\ p = <<a, b>> /\ a * a + b * b <= r * r
              /\ r < 3 \/ a * a + b * b > (r - 2) * (r - 2)
         /\ \A row \in 1 .. r : 2 * row * row >= r * r => \E a \in Nat : <<a, row>> \in Arc(r)
<1>1. PICK f : /\ Arc(r) = {p \in {f[t] : t \in 0 .. r} : 2 * p[2] * p[2] >= r * r}
               /\ f[0] = <<0, r>>
               /\ \A t \in 1 .. r : f[t] = Onward(f[t - 1], r)
  BY RoundsOfArc
<1>2. \A t \in 0 .. r : \E a, b : f[t] = <<a, b>> /\ Walks(a, b, t, r)
  BY <1>1, RoundWalks
<1>3. ASSUME NEW p \in Arc(r)
      PROVE  \E a, b \in Nat :
               /\ p = <<a, b>> /\ a * a + b * b <= r * r
               /\ r < 3 \/ a * a + b * b > (r - 2) * (r - 2)
  <2>1. PICK t \in 0 .. r : p = f[t] /\ 2 * p[2] * p[2] >= r * r
    BY <1>1
  <2>2. PICK a, b : f[t] = <<a, b>> /\ Walks(a, b, t, r)
    BY <1>2
  <2>3. 2 * b * b >= r * r
    BY <2>1, <2>2
  <2>4. a \in Nat /\ b \in Nat
    BY <2>2 DEF Walks
  <2> QED
    BY <2>1, <2>2, <2>3, <2>4, WalksRing
<1>4. ASSUME NEW row \in 1 .. r, 2 * row * row >= r * r
      PROVE  \E a \in Nat : <<a, row>> \in Arc(r)
  <2> DEFINE Past(t) == \E k \in 0 .. r, a \in Nat : f[k] = <<a, row>>
             P == {t \in 0 .. r : (\E a, b : f[t] = <<a, b>> /\ Walks(a, b, t, r) /\ b > row)
                                  \/ Past(t)}
  <2>1. 0 \in P
    <3>1. CASE row < r
      BY <1>1, <3>1, WalksStart
    <3>2. CASE row = r
      BY <1>1, <3>2
    <3> QED
      BY <3>1, <3>2
  <2>2. ASSUME NEW t \in 1 .. r, t - 1 \in P PROVE t \in P
    <3>1. CASE Past(t - 1)
      BY <3>1
    <3>2. CASE ~Past(t - 1)
      <4>1. PICK a, b : f[t - 1] = <<a, b>> /\ Walks(a, b, t - 1, r) /\ b > row
        BY <2>2, <3>2
      <4>2. PICK c, d : f[t] = <<c, d>> /\ Walks(c, d, t, r)
        BY <1>2
      <4>3. d = b \/ d = b - 1
        <5>1. <<c, d>> = Onward(<<a, b>>, r)
          BY <1>1, <4>1, <4>2
        <5>2. <<c, d>> = <<a, b - 1>> \/ <<c, d>> = <<a + 1, b>>
          BY <5>1, OnwardIs, Zenon
        <5> QED
          BY <5>2
      <4>4. b \in Nat /\ c \in Nat /\ d \in Nat
        BY <4>1, <4>2 DEF Walks
      <4>5. d > row \/ d = row
        BY <4>1, <4>3, <4>4
      <4> QED
        BY <4>2, <4>4, <4>5
    <3> QED
      BY <3>1, <3>2
  <2>3. r \in P
    <3>1. \A t \in 0 .. r : t \in P
      <4> HIDE DEF P
      <4> QED
        BY <2>1, <2>2, IterationKeeps
    <3> QED
      BY <3>1
  <2>4. Past(r)
    <3> SUFFICES ASSUME NEW a, NEW b, f[r] = <<a, b>>, Walks(a, b, r, r), b > row
                 PROVE FALSE
      BY <2>3
    <3>1. b <= row
      BY <1>4, WalksEnd
    <3>2. b \in Nat
      BY DEF Walks
    <3> QED
      BY <3>1, <3>2
  <2>5. PICK k \in 0 .. r, a \in Nat : f[k] = <<a, row>>
    BY <2>4
  <2>6. <<a, row>> \in {f[t] : t \in 0 .. r} /\ <<a, row>>[2] = row
    BY <2>5
  <2>7. <<a, row>> \in Arc(r)
    BY <1>1, <1>4, <2>6
  <2> QED
    BY <2>7
<1> QED
  BY <1>3, <1>4

-----------------------------------------------------------------------------
(* FbDrawCircle, for any centre and radius above 0: the pixels are in the ring
   of two below the radius, some in each row from the top to the diagonal, and
   the same from all four sides. *)
THEOREM CirclesAreRound ==
  \A circle \in [x : Int, y : Int, r : Nat \ {0}] :
    IsCircle(CirclePoints(circle.x, circle.y, circle.r), circle)
<1> SUFFICES ASSUME NEW circle \in [x : Int, y : Int, r : Nat \ {0}]
             PROVE  IsCircle(CirclePoints(circle.x, circle.y, circle.r), circle)
  OBVIOUS
<1> DEFINE x == circle.x
           y == circle.y
           r == circle.r
           ring == {<<p[1] - x, p[2] - y>> : p \in CirclePoints(x, y, r)}
           Signs == {-1, 1}
<1>1. x \in Int /\ y \in Int /\ r \in Nat
  OBVIOUS
<1> HIDE DEF x, y, r
<1>2. ASSUME NEW d \in ring
      PROVE  \E a, b \in Nat, s, s1 \in Signs :
               <<a, b>> \in Arc(r) /\ (d = <<s * a, s1 * b>> \/ d = <<s * b, s1 * a>>)
  <2>1. PICK q \in CirclePoints(x, y, r) : d = <<q[1] - x, q[2] - y>>
    OBVIOUS
  <2>2. PICK p \in Arc(r), s \in Signs, s1 \in Signs :
          q \in {<<x + s * p[1], y + s1 * p[2]>>, <<x + s * p[2], y + s1 * p[1]>>}
    BY DEF CirclePoints
  <2>3. PICK a \in Nat, b \in Nat : p = <<a, b>>
    BY <1>1, ArcIs
  <2>4. q = <<x + s * a, y + s1 * b>> \/ q = <<x + s * b, y + s1 * a>>
    BY <2>2, <2>3
  <2>5. s * a \in Int /\ s1 * b \in Int /\ s * b \in Int /\ s1 * a \in Int
    OBVIOUS
  <2>6. d = <<s * a, s1 * b>> \/ d = <<s * b, s1 * a>>
    BY <1>1, <2>1, <2>4, <2>5
  <2> QED
    BY <2>2, <2>3, <2>6
<1>5. ASSUME NEW a \in Nat, NEW b \in Nat, NEW s \in Signs, NEW s1 \in Signs,
             <<a, b>> \in Arc(r)
      PROVE  <<s * a, s1 * b>> \in ring /\ <<s * b, s1 * a>> \in ring
  <2>1. /\ <<x + s * a, y + s1 * b>> \in CirclePoints(x, y, r)
        /\ <<x + s * b, y + s1 * a>> \in CirclePoints(x, y, r)
    <3>1. <<a, b>>[1] = a /\ <<a, b>>[2] = b
      OBVIOUS
    <3> DEFINE p == <<a, b>>
    <3>2. p \in Arc(r) /\ p[1] = a /\ p[2] = b
      BY <1>5, <3>1
    <3> HIDE DEF p
    <3> DEFINE Four(q, u, v) == {<<x + u * q[1], y + v * q[2]>>, <<x + u * q[2], y + v * q[1]>>}
    <3>3. CirclePoints(x, y, r) = UNION {Four(q, u, v) : q \in Arc(r), u \in Signs, v \in Signs}
      BY DEF CirclePoints
    <3>4. /\ <<x + s * p[1], y + s1 * p[2]>> \in Four(p, s, s1)
          /\ <<x + s * p[2], y + s1 * p[1]>> \in Four(p, s, s1)
      OBVIOUS
    <3> HIDE DEF Four, Signs
    <3>5. Four(p, s, s1) \subseteq CirclePoints(x, y, r)
      BY <3>2, <3>3
    <3> QED
      BY <3>2, <3>4, <3>5
  <2>2. s * a \in Int /\ s1 * b \in Int /\ s * b \in Int /\ s1 * a \in Int
    OBVIOUS
  <2>3. /\ (x + s * a) - x = s * a /\ (y + s1 * b) - y = s1 * b
        /\ (x + s * b) - x = s * b /\ (y + s1 * a) - y = s1 * a
    BY <1>1, <2>2
  <2>4. \A u, v : <<u, v>> \in CirclePoints(x, y, r) => <<u - x, v - y>> \in ring
    OBVIOUS
  <2> HIDE DEF ring
  <2> QED
    BY <2>1, <2>3, <2>4
<1> HIDE DEF ring
<1>3. ASSUME NEW d \in ring
      PROVE  /\ d[1] * d[1] + d[2] * d[2] <= r * r
             /\ r < 3 \/ d[1] * d[1] + d[2] * d[2] > (r - 2) * (r - 2)
             /\ <<-d[1], d[2]>> \in ring /\ <<d[2], d[1]>> \in ring
  <2>1. PICK a \in Nat, b \in Nat, s \in Signs, s1 \in Signs :
          <<a, b>> \in Arc(r) /\ (d = <<s * a, s1 * b>> \/ d = <<s * b, s1 * a>>)
    <3> HIDE DEF Signs
    <3> QED
      BY <1>2
  <2>2. a * a + b * b <= r * r /\ (r < 3 \/ a * a + b * b > (r - 2) * (r - 2))
    <3>1. \E a1, b1 \in Nat :
              /\ <<a, b>> = <<a1, b1>> /\ a1 * a1 + b1 * b1 <= r * r
              /\ r < 3 \/ a1 * a1 + b1 * b1 > (r - 2) * (r - 2)
      BY <1>1, <2>1, ArcIs
    <3> QED
      BY <3>1
  <2>3. /\ (s * a) * (s * a) = a * a /\ (s1 * b) * (s1 * b) = b * b
        /\ (s * b) * (s * b) = b * b /\ (s1 * a) * (s1 * a) = a * a
        /\ -s \in Signs /\ -(s * a) = (-s) * a /\ -(s * b) = (-s) * b
    OBVIOUS
  <2>4. CASE d = <<s * a, s1 * b>>
    <3>1. d[1] = s * a /\ d[2] = s1 * b
      BY <2>4
    <3>2. <<(-s) * a, s1 * b>> \in ring /\ <<s1 * b, s * a>> \in ring
      BY <1>5, <2>1, <2>3
    <3> QED
      BY <2>2, <2>3, <3>1, <3>2
  <2>5. CASE d = <<s * b, s1 * a>>
    <3>1. d[1] = s * b /\ d[2] = s1 * a
      BY <2>5
    <3>2. <<(-s) * b, s1 * a>> \in ring /\ <<s1 * a, s * b>> \in ring
      BY <1>5, <2>1, <2>3
    <3>3. a * a \in Nat /\ b * b \in Nat /\ b * b + a * a = a * a + b * b
      OBVIOUS
    <3> QED
      BY <2>2, <2>3, <3>1, <3>2, <3>3
  <2> QED
    BY <2>1, <2>4, <2>5
<1>4. ASSUME NEW row \in 1 .. r, 2 * row * row >= r * r
      PROVE  \E d \in ring : d[2] = row
  <2>1. PICK a \in Nat : <<a, row>> \in Arc(r)
    BY <1>1, <1>4, ArcIs
  <2>2. <<1 * a, 1 * row>> \in ring
    <3>1. 1 \in Signs /\ row \in Nat
      BY <1>1
    <3> HIDE DEF Signs
    <3> QED
      BY <1>5, <2>1, <3>1
  <2>3. <<1 * a, 1 * row>>[2] = row
    BY <1>1
  <2> QED
    BY <2>2, <2>3
<1> QED
  BY <1>3, <1>4 DEF IsCircle, ring, x, y, r

-----------------------------------------------------------------------------
(* The pixels of a line are inside its box, and one is in each column of a
   level line and in each row of an upright one. *)
LEMMA LineInBox ==
  ASSUME NEW x1 \in Int, NEW y1 \in Int, NEW x2 \in Int, NEW y2 \in Int,
         NEW p \in LinePoints(x1, y1, x2, y2)
  PROVE  p \in Int \X Int /\ Between(x1, p[1], x2) /\ Between(y1, p[2], y2)
<1> DEFINE D == Longer(x1, y1, x2, y2)
           x == Along(x1, x2, D, D + 1)
           y == Along(y1, y2, D, D + 1)
<1>1. PICK t \in 0 .. D + 1 : p = <<x[t].at, y[t].at>>
  BY DEF LinePoints, Rounds
<1>2. LinePlace(x[t].at, y[t].at, t, x1, y1, x2, y2)
  BY PlaceOnLine
<1>3. /\ x[t].at \in Int /\ y[t].at \in Int
      /\ Between(x1, x[t].at, x2) /\ Between(y1, y[t].at, y2)
  BY <1>2 DEF LinePlace
<1> HIDE DEF x, y
<1> QED
  BY <1>1, <1>3

RoundDraws(t, x1, y1, x2, y2) ==
  \E u, v \in Int : <<u, v>> \in LinePoints(x1, y1, x2, y2)
                     /\ LinePlace(u, v, t, x1, y1, x2, y2)

LEMMA PointOfRound ==
  ASSUME NEW x1 \in Int, NEW y1 \in Int, NEW x2 \in Int, NEW y2 \in Int,
         NEW t \in 0 .. Longer(x1, y1, x2, y2) + 1
  PROVE  RoundDraws(t, x1, y1, x2, y2)
<1> DEFINE D == Longer(x1, y1, x2, y2)
           x == Along(x1, x2, D, D + 1)
           y == Along(y1, y2, D, D + 1)
<1>1. LinePlace(x[t].at, y[t].at, t, x1, y1, x2, y2)
  BY PlaceOnLine
<1>2. x[t].at \in Int /\ y[t].at \in Int
  BY <1>1 DEF LinePlace
<1>3. <<x[t].at, y[t].at>> \in LinePoints(x1, y1, x2, y2)
  BY DEF LinePoints, Rounds
<1> QED
  BY <1>1, <1>2, <1>3 DEF RoundDraws

LEMMA LevelLine ==
  ASSUME NEW x1 \in Int, NEW x2 \in Int, NEW y \in Int
  PROVE  \A u, v : <<u, v>> \in LinePoints(x1, y, x2, y)
                     <=> u \in Int /\ v = y /\ Between(x1, u, x2)
<1>1. ASSUME NEW u, NEW v, <<u, v>> \in LinePoints(x1, y, x2, y)
      PROVE  u \in Int /\ v = y /\ Between(x1, u, x2)
  <2>1. <<u, v>> \in Int \X Int /\ Between(x1, u, x2) /\ Between(y, v, y)
    BY <1>1, LineInBox
  <2> QED
    BY <2>1 DEF Between
<1>2. ASSUME NEW u \in Int, Between(x1, u, x2)
      PROVE  <<u, y>> \in LinePoints(x1, y, x2, y)
  <2> DEFINE t == AbsOf(u - x1) + 1
             D == Longer(x1, y, x2, y)
  <2>1. D = AbsOf(x2 - x1) /\ D \in Nat /\ AbsOf(y - y) = 0
    BY LongerIs DEF AbsOf
  <2>2. t \in 1 .. D + 1 /\ t - 1 = AbsOf(u - x1)
    <3> HIDE DEF D
    <3> QED
      BY <1>2, <2>1 DEF AbsOf, Between
  <2> HIDE DEF t, D
  <2>3. PICK a \in Int, b \in Int : <<a, b>> \in LinePoints(x1, y, x2, y)
                                    /\ LinePlace(a, b, t, x1, y, x2, y)
    <3>1. t \in 0 .. Longer(x1, y, x2, y) + 1
      BY <2>1, <2>2 DEF D
    <3>2. RoundDraws(t, x1, y, x2, y)
      BY <3>1, PointOfRound
    <3> QED
      BY <3>2 DEF RoundDraws
  <2>4. Between(x1, a, x2) /\ Between(y, b, y) /\ AbsOf(a - x1) = t - 1
    BY <2>1, <2>2, <2>3 DEF LinePlace, D
  <2>5. a = u /\ b = y
    BY <1>2, <2>2, <2>4 DEF AbsOf, Between
  <2> QED
    BY <2>3, <2>5
<1> QED
  BY <1>1, <1>2

LEMMA UprightLine ==
  ASSUME NEW y1 \in Int, NEW y2 \in Int, NEW x \in Int
  PROVE  \A u, v : <<u, v>> \in LinePoints(x, y1, x, y2)
                     <=> v \in Int /\ u = x /\ Between(y1, v, y2)
<1>1. ASSUME NEW u, NEW v, <<u, v>> \in LinePoints(x, y1, x, y2)
      PROVE  v \in Int /\ u = x /\ Between(y1, v, y2)
  <2>1. <<u, v>> \in Int \X Int /\ Between(x, u, x) /\ Between(y1, v, y2)
    BY <1>1, LineInBox
  <2> QED
    BY <2>1 DEF Between
<1>2. ASSUME NEW v \in Int, Between(y1, v, y2)
      PROVE  <<x, v>> \in LinePoints(x, y1, x, y2)
  <2> DEFINE t == AbsOf(v - y1) + 1
             D == Longer(x, y1, x, y2)
  <2>1. D = AbsOf(y2 - y1) /\ D \in Nat /\ AbsOf(x - x) = 0
    BY LongerIs DEF AbsOf
  <2>2. t \in 1 .. D + 1 /\ t - 1 = AbsOf(v - y1)
    <3> HIDE DEF D
    <3> QED
      BY <1>2, <2>1 DEF AbsOf, Between
  <2>3. PICK a \in Int, b \in Int : <<a, b>> \in LinePoints(x, y1, x, y2)
                                    /\ LinePlace(a, b, t, x, y1, x, y2)
    <3> HIDE DEF t
    <3>1. t \in 0 .. Longer(x, y1, x, y2) + 1
      BY <2>1, <2>2
    <3>2. RoundDraws(t, x, y1, x, y2)
      BY <3>1, PointOfRound
    <3> QED
      BY <3>2 DEF RoundDraws
  <2>4. Between(x, a, x) /\ Between(y1, b, y2) /\ AbsOf(b - y1) = t - 1
    <3>1. CASE D = 0
      <4>1. t = D + 1 /\ t <= 1
        BY <2>1, <2>2, <3>1
      <4>2. <<a, b>> = <<x, y2>> /\ <<a, b>> = <<x, y1>>
        BY <2>3, <4>1 DEF LinePlace
      <4>3. AbsOf(b - y1) = 0 /\ t - 1 = 0
        BY <4>1, <4>2, <2>1, <2>2, <3>1 DEF AbsOf
      <4> QED
        BY <2>3, <4>3 DEF LinePlace
    <3>2. CASE D # 0
      <4>1. ~(AbsOf(x - x) >= AbsOf(y2 - y1))
        BY <2>1, <3>2
      <4> QED
        BY <2>2, <2>3, <4>1 DEF LinePlace
    <3> QED
      BY <3>1, <3>2
  <2>5. b = v /\ a = x
    <3> HIDE DEF t
    <3> QED
      BY <1>2, <2>2, <2>4 DEF AbsOf, Between
  <2> QED
    BY <2>3, <2>5
<1> QED
  BY <1>1, <1>2

LEMMA FrameIs ==
  ASSUME NEW x1 \in Int, NEW y1 \in Int, NEW x2 \in Int, NEW y2 \in Int
  PROVE  LinePoints(x1, y1, x2, y1) \union LinePoints(x1, y1, x1, y2)
           \union LinePoints(x1, y2, x2, y2) \union LinePoints(x2, y1, x2, y2)
         = {p \in Int \X Int : /\ Between(x1, p[1], x2) /\ Between(y1, p[2], y2)
                               /\ p[1] \in {x1, x2} \/ p[2] \in {y1, y2}}
<1> DEFINE S == LinePoints(x1, y1, x2, y1) \union LinePoints(x1, y1, x1, y2)
                  \union LinePoints(x1, y2, x2, y2) \union LinePoints(x2, y1, x2, y2)
           T == {p \in Int \X Int : /\ Between(x1, p[1], x2) /\ Between(y1, p[2], y2)
                                    /\ p[1] \in {x1, x2} \/ p[2] \in {y1, y2}}
<1>1. ASSUME NEW p \in S PROVE p \in Int \X Int
  BY LineInBox
<1>2. /\ \A u, v : <<u, v>> \in LinePoints(x1, y1, x2, y1)
                     <=> u \in Int /\ v = y1 /\ Between(x1, u, x2)
      /\ \A u, v : <<u, v>> \in LinePoints(x1, y2, x2, y2)
                     <=> u \in Int /\ v = y2 /\ Between(x1, u, x2)
      /\ \A u, v : <<u, v>> \in LinePoints(x1, y1, x1, y2)
                     <=> v \in Int /\ u = x1 /\ Between(y1, v, y2)
      /\ \A u, v : <<u, v>> \in LinePoints(x2, y1, x2, y2)
                     <=> v \in Int /\ u = x2 /\ Between(y1, v, y2)
  BY LevelLine, UprightLine
<1>3. /\ Between(y1, y1, y2) /\ Between(y1, y2, y2) /\ Between(x1, x1, x2)
      /\ Between(x1, x2, x2)
  BY DEF Between
<1>4. ASSUME NEW u \in Int, NEW v \in Int PROVE <<u, v>> \in S <=> <<u, v>> \in T
  <2>1. <<u, v>> \in S <=> \/ v = y1 /\ Between(x1, u, x2)
                           \/ u = x1 /\ Between(y1, v, y2)
                           \/ v = y2 /\ Between(x1, u, x2)
                           \/ u = x2 /\ Between(y1, v, y2)
    BY <1>2
  <2>2. <<u, v>> \in T <=> /\ Between(x1, u, x2) /\ Between(y1, v, y2)
                           /\ u \in {x1, x2} \/ v \in {y1, y2}
    OBVIOUS
  <2> HIDE DEF S, T
  <2> QED
    BY <1>3, <2>1, <2>2
<1>5. T \subseteq Int \X Int
  OBVIOUS
<1>6. \A p \in Int \X Int : p = <<p[1], p[2]>> /\ p[1] \in Int /\ p[2] \in Int
  OBVIOUS
<1>7. S = T
  <2> HIDE DEF S, T
  <2> QED
    BY <1>1, <1>4, <1>5, <1>6
<1> QED
  BY <1>7

-----------------------------------------------------------------------------
(* Places on the screen: of a pixel of k bytes, and of its z-th byte. *)
PlaceAt(k, x, y) == y * (Width * k) + x * k

LEMMA Divides ==
  ASSUME NEW m \in Nat \ {0}, NEW q \in Int, NEW z \in Int, 0 <= z, z < m
  PROVE  (q * m + z) \div m = q /\ (q * m + z) % m = z
<1> DEFINE s == q * m + z
<1>1. s \in Int /\ s = m * (s \div m) + (s % m) /\ 0 <= s % m /\ s % m < m
      /\ s \div m \in Int /\ s % m \in Int
  OBVIOUS
<1> DEFINE e == q - (s \div m)
<1>2. e \in Int /\ m * e = (s % m) - z
  BY <1>1
<1>3. e = 0
  <2>1. -m < m * e /\ m * e < m
    BY <1>1, <1>2
  <2>2. CASE e >= 1
    <3>1. m * e >= m
      BY <1>2, <2>2
    <3> QED
      BY <2>1, <3>1
  <2>3. CASE e <= -1
    <3>1. m * e <= -m
      BY <1>2, <2>3
    <3> QED
      BY <2>1, <3>1
  <2> QED
    BY <1>2, <2>2, <2>3
<1> QED
  BY <1>1, <1>2, <1>3

LEMMA PlaceDecodes ==
  ASSUME NEW k \in Nat \ {0}, NEW x \in Columns, NEW y \in Rows
  PROVE  /\ (PlaceAt(k, x, y) % (Width * k)) \div k = x
         /\ PlaceAt(k, x, y) \div (Width * k) = y
         /\ PlaceAt(k, x, y) \in Int /\ 0 <= PlaceAt(k, x, y)
         /\ PlaceAt(k, x, y) + k <= Width * Height * k
<1>1. Width \in Nat /\ Height \in Nat /\ x \in Int /\ 0 <= x /\ x <= Width - 1
      /\ y \in Int /\ 0 <= y /\ y <= Height - 1
  BY ScreenAssumption DEF Columns, Rows
<1> DEFINE m == Width * k
           z == x * k
<1>2. z \in Int /\ 0 <= z /\ z + k <= m /\ m \in Nat \ {0}
  <2>1. z >= 0 /\ (x + 1) * k <= Width * k /\ (x + 1) * k = z + k
    BY <1>1
  <2>2. Width * k \in Nat
    BY <1>1
  <2> QED
    BY <1>1, <2>1, <2>2
<1>3. z \div k = x
  BY <1>1, Divides
<1>4. (y * m + z) \div m = y /\ (y * m + z) % m = z
  <2> HIDE DEF m, z
  <2>1. z < m
    BY <1>2
  <2> QED
    BY <1>1, <1>2, <2>1, Divides
<1>5. y * m >= 0 /\ (y + 1) * m <= Height * m /\ (y + 1) * m = y * m + m
  <2> HIDE DEF m
  <2> QED
    BY <1>1, <1>2
<1>6. Height * m = Width * Height * k
  BY <1>1
<1> HIDE DEF z
<1> QED
  BY <1>1, <1>2, <1>3, <1>4, <1>5, <1>6 DEF PlaceAt, z

-----------------------------------------------------------------------------
(* Writes of pixels S with k bytes each, and what is seen of writes. *)
Painted(S, k, v) == {Write(PlaceAt(k, p[1], p[2]), k, v) : p \in S}
Seen(W, k) ==
  {<<(w.at % (Width * k)) \div k, w.at \div (Width * k)>> : w \in {w \in W : w.value # 0}}
Spots(W) == UNION {w.at .. w.at + w.len - 1 : w \in W}

Depth(bpp) == IF bpp = 16 THEN 2 ELSE 4
Paint(bpp) == IF bpp = 16 THEN 65535 ELSE White

LEMMA ScreenIs ==
  ASSUME NEW bpp \in {16, 32}
  PROVE  LET s == Screen(bpp)
             k == Depth(bpp)
         IN  /\ s.xres = Width /\ s.yres = Height /\ s.bpp = bpp
             /\ s.xoffset = 0 /\ s.yoffset = 0
             /\ s.line = Width * k /\ s.smem = Width * Height * k + Spare
             /\ LineWidth(s) = Width * k /\ PixelWidth(s) = k
             /\ Mapped(s) = Width * Height * k
             /\ bpp \div 8 = k /\ \A m \in Nat : (m * bpp) \div 8 = m * k
<1> DEFINE k == Depth(bpp)
<1>1. \A m \in Nat : (m * bpp) \div 8 = m * k
  <2> SUFFICES ASSUME NEW m \in Nat PROVE (m * bpp) \div 8 = m * k
    OBVIOUS
  <2>1. CASE bpp = 16
    BY <2>1 DEF Depth
  <2>2. CASE bpp = 32
    BY <2>2 DEF Depth
  <2> QED
    BY <2>1, <2>2
<1>2. Width \in Nat /\ Height \in Nat /\ Width * Height \in Nat
  <2>1. Width \in Nat /\ Height \in Nat
    BY ScreenAssumption
  <2> QED
    BY <2>1
<1>3. bpp \div 8 = k
  BY DEF Depth
<1> DEFINE s == Screen(bpp)
<1>4. /\ s.xres = Width /\ s.yres = Height /\ s.bpp = bpp
      /\ s.xoffset = 0 /\ s.yoffset = 0
      /\ s.line = (Width * bpp) \div 8
      /\ s.smem = (Width * Height * bpp) \div 8 + Spare
  BY DEF Screen
<1> HIDE DEF s, k
<1>5. (Width * bpp) \div 8 = Width * k /\ ((Width * Height) * bpp) \div 8 = (Width * Height) * k
  BY <1>1, <1>2
<1> QED
  BY <1>1, <1>3, <1>4, <1>5 DEF LineWidth, PixelWidth, Mapped, s, k

LEMMA PixelIs ==
  ASSUME NEW bpp \in {16, 32}, NEW x, NEW y
  PROVE  FbDrawPixel(Screen(bpp), x, y, White)
           = {Write(PlaceAt(Depth(bpp), x, y), Depth(bpp), Paint(bpp))}
<1> DEFINE s == Screen(bpp)
           at == PlaceAt(Depth(bpp), x, y)
<1>1. s.bpp = bpp /\ LineWidth(s) = Width * Depth(bpp) /\ PixelWidth(s) = Depth(bpp)
  BY ScreenIs
<1>2. at = y * LineWidth(s) + x * PixelWidth(s)
  BY <1>1 DEF PlaceAt
<1>3. Rgb565(White) = 65535
  BY DEF Rgb565, White
<1> HIDE DEF s, at
<1>4. CASE bpp = 16
  <2>1. FbDrawPixel(s, x, y, White) = {Write(at, 2, Rgb565(White))}
    BY <1>1, <1>2, <1>4 DEF FbDrawPixel
  <2> QED
    BY <1>3, <1>4, <2>1 DEF s, at, Depth, Paint
<1>5. CASE bpp = 32
  <2>1. FbDrawPixel(s, x, y, White) = {Write(at, 4, White)}
    BY <1>1, <1>2, <1>5 DEF FbDrawPixel
  <2> QED
    BY <1>5, <2>1 DEF s, at, Depth, Paint
<1> QED
  BY <1>4, <1>5

LEMMA DrawIs ==
  ASSUME NEW bpp \in {16, 32}, NEW S
  PROVE  Draw(Screen(bpp), S, White) = Painted(S, Depth(bpp), Paint(bpp))
<1> DEFINE OneOf(p) == Write(PlaceAt(Depth(bpp), p[1], p[2]), Depth(bpp), Paint(bpp))
<1>1. \A p \in S : FbDrawPixel(Screen(bpp), p[1], p[2], White) = {OneOf(p)}
  BY PixelIs
<1>2. Painted(S, Depth(bpp), Paint(bpp)) = {OneOf(p) : p \in S}
  BY DEF Painted
<1>3. Draw(Screen(bpp), S, White) = UNION {FbDrawPixel(Screen(bpp), p[1], p[2], White) : p \in S}
  BY DEF Draw
<1> HIDE DEF OneOf
<1> QED
  BY <1>1, <1>2, <1>3

LEMMA DepthIs ==
  ASSUME NEW bpp \in {16, 32}
  PROVE  Depth(bpp) \in Nat \ {0} /\ Paint(bpp) # 0
BY DEF Depth, Paint, White

LEMMA PaintedIsSeen ==
  ASSUME NEW k \in Nat \ {0}, NEW v, v # 0, NEW S \in SUBSET (Columns \X Rows)
  PROVE  Seen(Painted(S, k, v), k) = S
<1> DEFINE OneOf(p) == Write(PlaceAt(k, p[1], p[2]), k, v)
           Where(w) == <<(w.at % (Width * k)) \div k, w.at \div (Width * k)>>
<1>1. \A p \in S : OneOf(p).value # 0
  BY DEF Write
<1>2. ASSUME NEW p \in S PROVE Where(OneOf(p)) = p
  <2>1. p[1] \in Columns /\ p[2] \in Rows /\ p = <<p[1], p[2]>>
    OBVIOUS
  <2>2. OneOf(p).at = PlaceAt(k, p[1], p[2])
    BY DEF Write
  <2> QED
    BY <2>1, <2>2, PlaceDecodes
<1>3. Painted(S, k, v) = {OneOf(p) : p \in S}
  BY DEF Painted
<1>4. Seen({OneOf(p) : p \in S}, k) = {Where(w) : w \in {w \in {OneOf(p) : p \in S} : w.value # 0}}
  BY DEF Seen
<1> HIDE DEF OneOf, Where
<1>5. {w \in {OneOf(p) : p \in S} : w.value # 0} = {OneOf(p) : p \in S}
  BY <1>1
<1>6. {Where(w) : w \in {OneOf(p) : p \in S}} = S
  BY <1>2
<1> QED
  BY <1>3, <1>4, <1>5, <1>6

LEMMA PaintedSpots ==
  ASSUME NEW k \in Nat \ {0}, NEW v, NEW S \in SUBSET (Columns \X Rows)
  PROVE  /\ \A b : b \in Spots(Painted(S, k, v))
                     <=> \E p \in S, z \in 0 .. k - 1 : b = PlaceAt(k, p[1], p[2]) + z
         /\ Spots(Painted(S, k, v)) \subseteq 0 .. (Width * Height * k) - 1
<1> DEFINE At(p) == PlaceAt(k, p[1], p[2])
           OneOf(p) == Write(At(p), k, v)
<1>1. \A p \in S : OneOf(p).at = At(p) /\ OneOf(p).len = k
  BY DEF Write
<1>2. ASSUME NEW p \in S
      PROVE  At(p) \in Int /\ 0 <= At(p) /\ At(p) + k <= Width * Height * k
  <2>1. p[1] \in Columns /\ p[2] \in Rows
    OBVIOUS
  <2> QED
    BY <2>1, PlaceDecodes
<1>3. Spots(Painted(S, k, v)) = UNION {w.at .. w.at + w.len - 1 : w \in {OneOf(p) : p \in S}}
  BY DEF Painted, Spots
<1> HIDE DEF At, OneOf
<1>4. \A b : b \in Spots(Painted(S, k, v)) <=> \E p \in S : b \in At(p) .. At(p) + k - 1
  BY <1>1, <1>3
<1>5. ASSUME NEW p \in S, NEW b
      PROVE  b \in At(p) .. At(p) + k - 1 <=> \E z \in 0 .. k - 1 : b = At(p) + z
  <2>1. ASSUME b \in At(p) .. At(p) + k - 1 PROVE \E z \in 0 .. k - 1 : b = At(p) + z
    <3>1. b - At(p) \in 0 .. k - 1 /\ b = At(p) + (b - At(p))
      BY <1>2, <2>1
    <3> QED
      BY <3>1
  <2>2. ASSUME NEW z \in 0 .. k - 1, b = At(p) + z PROVE b \in At(p) .. At(p) + k - 1
    BY <1>2, <2>2
  <2> QED
    BY <2>1, <2>2
<1>6. Spots(Painted(S, k, v)) \subseteq 0 .. (Width * Height * k) - 1
  <2>1. Width * Height * k \in Int
    BY ScreenAssumption
  <2> QED
    BY <1>2, <1>4, <2>1
<1> QED
  BY <1>4, <1>5, <1>6 DEF At

-----------------------------------------------------------------------------
(* What a drawing shows and touches, from its writes. *)
LEMMA DrawingIs ==
  ASSUME NEW in, in.bpp \in {16, 32}
  PROVE  /\ Pixels(in) = Seen(Writes(in), Depth(in.bpp))
         /\ Touched(in) = Spots(Writes(in))
<1> DEFINE s == Screen(in.bpp)
           k == Depth(in.bpp)
<1>1. s.bpp \div 8 = k /\ s.line = Width * k
  BY ScreenIs
<1>2. Pixels(in) = {<<(w.at % s.line) \div (s.bpp \div 8), w.at \div s.line>> :
                      w \in {w \in Writes(in) : w.value # 0}}
  BY DEF Pixels
<1>3. Touched(in) = Spots(Writes(in))
  BY DEF Touched, Spots
<1> HIDE DEF s, k
<1>4. Pixels(in) = {<<(w.at % (Width * k)) \div k, w.at \div (Width * k)>> :
                      w \in {w \in Writes(in) : w.value # 0}}
  BY <1>1, <1>2
<1> QED
  BY <1>3, <1>4 DEF Seen, k

(* A drawing that shows the pixels S, and writes their bytes. *)
Shows(in, S) ==
  /\ Pixels(in) = S
  /\ Touched(in) \subseteq 0 .. Mapped(Screen(in.bpp)) - 1
  /\ \A b : b \in Touched(in)
       <=> \E p \in S, z \in 0 .. Depth(in.bpp) - 1 :
             b = PlaceAt(Depth(in.bpp), p[1], p[2]) + z

LEMMA DrawingOf ==
  ASSUME NEW in, in.bpp \in {16, 32}, NEW S \in SUBSET (Columns \X Rows),
         Writes(in) = Draw(Screen(in.bpp), S, White)
  PROVE  Shows(in, S)
<1> DEFINE k == Depth(in.bpp)
           v == Paint(in.bpp)
<1>1. k \in Nat \ {0} /\ v # 0
  BY DepthIs
<1>2. Writes(in) = Painted(S, k, v)
  BY DrawIs
<1>3. Pixels(in) = Seen(Writes(in), k) /\ Touched(in) = Spots(Writes(in))
  BY DrawingIs
<1>4. Mapped(Screen(in.bpp)) = Width * Height * k
  BY ScreenIs
<1> HIDE DEF k, v
<1>5. Pixels(in) = S
  BY <1>1, <1>2, <1>3, PaintedIsSeen
<1>6. /\ \A b : b \in Spots(Painted(S, k, v))
                     <=> \E p \in S, z \in 0 .. k - 1 : b = PlaceAt(k, p[1], p[2]) + z
      /\ Spots(Painted(S, k, v)) \subseteq 0 .. (Width * Height * k) - 1
  BY <1>1, PaintedSpots
<1> QED
  BY <1>2, <1>3, <1>4, <1>5, <1>6 DEF k, Shows

LEMMA OnScreen ==
  ASSUME NEW x1 \in Columns, NEW x2 \in Columns, NEW u \in Int, Between(x1, u, x2)
  PROVE  u \in Columns
BY ScreenAssumption DEF Columns, Between

LEMMA OnScreenToo ==
  ASSUME NEW y1 \in Rows, NEW y2 \in Rows, NEW v \in Int, Between(y1, v, y2)
  PROVE  v \in Rows
BY ScreenAssumption DEF Rows, Between

LEMMA CoordinatesWhole ==
  Columns \subseteq Int /\ Rows \subseteq Int
BY ScreenAssumption DEF Columns, Rows

LEMMA LineOnScreen ==
  ASSUME NEW x1 \in Columns, NEW y1 \in Rows, NEW x2 \in Columns, NEW y2 \in Rows
  PROVE  LinePoints(x1, y1, x2, y2) \subseteq Columns \X Rows
<1> SUFFICES ASSUME NEW p \in LinePoints(x1, y1, x2, y2) PROVE p \in Columns \X Rows
  OBVIOUS
<1>1. p \in Int \X Int /\ Between(x1, p[1], x2) /\ Between(y1, p[2], y2)
  BY CoordinatesWhole, LineInBox
<1>2. p = <<p[1], p[2]>> /\ p[1] \in Int /\ p[2] \in Int
  BY <1>1
<1>3. p[1] \in Columns /\ p[2] \in Rows
  BY <1>1, <1>2, OnScreen, OnScreenToo
<1> QED
  BY <1>2, <1>3

LEMMA LineDrawn ==
  ASSUME NEW in, in.bpp \in {16, 32}, in.kind = "line",
         {in.x1, in.x2} \subseteq Columns, {in.y1, in.y2} \subseteq Rows
  PROVE  DrawnRight(in)
<1> DEFINE S == LinePoints(in.x1, in.y1, in.x2, in.y2)
<1>1. S \in SUBSET (Columns \X Rows)
  BY LineOnScreen
<1>2. Writes(in) = Draw(Screen(in.bpp), S, White)
  BY DEF Writes, FbDrawLine
<1>3. Pixels(in) = S /\ Touched(in) \subseteq 0 .. Mapped(Screen(in.bpp)) - 1
  <2> HIDE DEF S
  <2>1. Shows(in, S)
    BY <1>1, <1>2, DrawingOf
  <2> QED
    BY <2>1 DEF Shows
<1>4. IsLine(S, in)
  <2> DEFINE line == [x1 |-> in.x1, y1 |-> in.y1, x2 |-> in.x2, y2 |-> in.y2]
  <2>1. line \in [x1 : Int, y1 : Int, x2 : Int, y2 : Int]
    BY CoordinatesWhole
  <2>2. IsLine(LinePoints(line.x1, line.y1, line.x2, line.y2), line)
    <3> HIDE DEF line
    <3> QED
      BY <2>1, LinesAreStraight
  <2>3. line.x1 = in.x1 /\ line.y1 = in.y1 /\ line.x2 = in.x2 /\ line.y2 = in.y2
    OBVIOUS
  <2> HIDE DEF line
  <2> QED
    BY <2>2, <2>3 DEF IsLine
<1> QED
  BY <1>3, <1>4 DEF DrawnRight

LEMMA DrawsJoin ==
  ASSUME NEW s, NEW S, NEW T, NEW color
  PROVE  Draw(s, S, color) \union Draw(s, T, color) = Draw(s, S \union T, color)
BY DEF Draw

LEMMA RectangleDrawn ==
  ASSUME NEW in, in.bpp \in {16, 32}, in.kind = "rectangle",
         {in.x1, in.x2} \subseteq Columns, {in.y1, in.y2} \subseteq Rows
  PROVE  DrawnRight(in)
<1> DEFINE x1 == in.x1
           y1 == in.y1
           x2 == in.x2
           y2 == in.y2
           S == LinePoints(x1, y1, x2, y1) \union LinePoints(x1, y1, x1, y2)
                  \union LinePoints(x1, y2, x2, y2) \union LinePoints(x2, y1, x2, y2)
           T == {p \in Int \X Int : /\ Between(x1, p[1], x2) /\ Between(y1, p[2], y2)
                                    /\ p[1] \in {x1, x2} \/ p[2] \in {y1, y2}}
<1>1. x1 \in Columns /\ x2 \in Columns /\ y1 \in Rows /\ y2 \in Rows
      /\ x1 \in Int /\ x2 \in Int /\ y1 \in Int /\ y2 \in Int
  BY CoordinatesWhole
<1>2. S \in SUBSET (Columns \X Rows)
  <2> HIDE DEF x1, y1, x2, y2
  <2> QED
    BY <1>1, LineOnScreen
<1>3. Writes(in) = Draw(Screen(in.bpp), S, White)
  <2>1. Writes(in) = FbDrawRectangle(Screen(in.bpp), x1, y1, x2, y2, White)
    BY DEF Writes
  <2> DEFINE DrawnOn(A) == Draw(Screen(in.bpp), A, White)
             L1 == LinePoints(x1, y1, x2, y1)
             L2 == LinePoints(x1, y1, x1, y2)
             L3 == LinePoints(x1, y2, x2, y2)
             L4 == LinePoints(x2, y1, x2, y2)
  <2>2. Writes(in) = DrawnOn(L1) \union DrawnOn(L2) \union DrawnOn(L3) \union DrawnOn(L4)
    <3> HIDE DEF x1, y1, x2, y2
    <3> QED
      BY <2>1 DEF FbDrawRectangle, FbDrawLine
  <2>3. \A A, B : DrawnOn(A) \union DrawnOn(B) = DrawnOn(A \union B)
    BY DrawsJoin
  <2>4. S = L1 \union L2 \union L3 \union L4
    OBVIOUS
  <2> HIDE DEF L1, L2, L3, L4, S, x1, y1, x2, y2, DrawnOn
  <2>5. Writes(in) = DrawnOn(S)
    <3>1. DrawnOn(L1) \union DrawnOn(L2) = DrawnOn(L1 \union L2)
      BY <2>3
    <3>2. DrawnOn(L1 \union L2) \union DrawnOn(L3) = DrawnOn(L1 \union L2 \union L3)
      BY <2>3
    <3>3. DrawnOn(L1 \union L2 \union L3) \union DrawnOn(L4)
            = DrawnOn(L1 \union L2 \union L3 \union L4)
      BY <2>3
    <3> QED
      BY <2>2, <2>4, <3>1, <3>2, <3>3
  <2> QED
    BY <2>5 DEF DrawnOn
<1>4. Pixels(in) = S /\ Touched(in) \subseteq 0 .. Mapped(Screen(in.bpp)) - 1
  <2> HIDE DEF S
  <2>1. Shows(in, S)
    BY <1>2, <1>3, DrawingOf
  <2> QED
    BY <2>1 DEF Shows
<1>5. S = T
  <2> HIDE DEF x1, y1, x2, y2
  <2> QED
    BY <1>1, FrameIs
<1>6. T = {p \in Columns \X Rows : OnFrame(p, in)}
  <2>1. T \subseteq Columns \X Rows
    BY <1>2, <1>5
  <2>2. \A p : p \in T <=> p \in Int \X Int /\ OnFrame(p, in)
    BY DEF OnFrame
  <2> HIDE DEF T
  <2> QED
    BY <2>1, <2>2, CoordinatesWhole
<1> HIDE DEF S, T
<1> QED
  BY <1>4, <1>5, <1>6 DEF DrawnRight

-----------------------------------------------------------------------------
LEMMA NoFarther ==
  ASSUME NEW r \in Nat, NEW d \in Int, NEW e \in Int, d * d + e * e <= r * r
  PROVE  -r <= d /\ d <= r /\ -r <= e /\ e <= r
<1>1. ASSUME NEW a \in Int, a * a <= r * r PROVE -r <= a /\ a <= r
  <2>1. CASE a > r
    <3>1. a \in Nat /\ r * r < a * a
      <4>1. a * r < a * a /\ r * r <= a * r
        BY <2>1
      <4> QED
        BY <2>1, <4>1
    <3> QED
      BY <1>1, <3>1
  <2>2. CASE a < -r
    <3> DEFINE c == -a
    <3>1. c \in Nat /\ c > r /\ c * c = a * a
      BY <2>2
    <3> HIDE DEF c
    <3>2. c * r < c * c /\ r * r <= c * r
      BY <3>1
    <3> QED
      BY <1>1, <3>1, <3>2
  <2> QED
    BY <2>1, <2>2
<1>2. d * d >= 0 /\ e * e >= 0 /\ d * d \in Int /\ e * e \in Int
  <2>1. ASSUME NEW a \in Int PROVE a * a >= 0 /\ a * a \in Int
    <3>1. CASE a >= 0
      BY <3>1
    <3>2. CASE a < 0
      <4>1. a * a = (-a) * (-a) /\ -a \in Nat
        BY <3>2
      <4>2. (-a) * (-a) >= 0
        BY <4>1
      <4> QED
        BY <4>1, <4>2
    <3> QED
      BY <3>1, <3>2
  <2> QED
    BY <2>1
<1>3. d * d <= r * r /\ e * e <= r * r
  BY <1>2
<1> QED
  BY <1>1, <1>3

LEMMA CirclePixelsWhole ==
  ASSUME NEW x \in Int, NEW y \in Int, NEW r \in Nat, NEW q \in CirclePoints(x, y, r)
  PROVE  q \in Int \X Int
<1>1. PICK p \in Arc(r), s \in {-1, 1}, s1 \in {-1, 1} :
          q \in {<<x + s * p[1], y + s1 * p[2]>>, <<x + s * p[2], y + s1 * p[1]>>}
  BY DEF CirclePoints
<1>2. PICK a \in Nat, b \in Nat : p = <<a, b>>
  BY ArcIs
<1>3. q = <<x + s * a, y + s1 * b>> \/ q = <<x + s * b, y + s1 * a>>
  BY <1>1, <1>2
<1> QED
  BY <1>3

LEMMA CircleDrawn ==
  ASSUME NEW in, in.bpp \in {16, 32}, in.kind = "circle",
         in.x \in Int, in.y \in Int, in.r \in Nat \ {0},
         {in.x - in.r, in.x + in.r} \subseteq Columns,
         {in.y - in.r, in.y + in.r} \subseteq Rows
  PROVE  DrawnRight(in)
<1> DEFINE x == in.x
           y == in.y
           r == in.r
           S == CirclePoints(x, y, r)
<1>1. x \in Int /\ y \in Int /\ r \in Nat \ {0}
  OBVIOUS
<1>2. IsCircle(S, in)
  <2> DEFINE circle == [x |-> x, y |-> y, r |-> r]
  <2>1. circle \in [x : Int, y : Int, r : Nat \ {0}]
    BY <1>1
  <2>2. IsCircle(CirclePoints(circle.x, circle.y, circle.r), circle)
    <3> HIDE DEF circle
    <3> QED
      BY <2>1, CirclesAreRound
  <2>3. circle.x = in.x /\ circle.y = in.y /\ circle.r = in.r
    OBVIOUS
  <2> HIDE DEF circle
  <2> QED
    BY <2>2, <2>3 DEF IsCircle
<1>3. ASSUME NEW q \in S PROVE q \in Columns \X Rows
  <2>1. q \in Int \X Int
    BY <1>1, CirclePixelsWhole
  <2>2. q = <<q[1], q[2]>> /\ q[1] \in Int /\ q[2] \in Int
    BY <2>1
  <2> DEFINE d == q[1] - x
             e == q[2] - y
  <2>3. d * d + e * e <= r * r
    <3> DEFINE ring == {<<p[1] - in.x, p[2] - in.y>> : p \in S}
               at == <<q[1] - x, q[2] - y>>
    <3>1. \A c \in ring : c[1] * c[1] + c[2] * c[2] <= r * r
      BY <1>2 DEF IsCircle
    <3>2. at \in ring /\ at[1] = d /\ at[2] = e
      OBVIOUS
    <3> HIDE DEF ring, d, e, at
    <3> QED
      BY <3>1, <3>2
  <2>4. d \in Int /\ e \in Int
    BY <1>1, <2>2
  <2>5. -r <= d /\ d <= r /\ -r <= e /\ e <= r
    <3> HIDE DEF d, e, r
    <3> QED
      BY <1>1, <2>3, <2>4, NoFarther
  <2>6. q[1] \in Columns
    <3>1. Between(x - r, q[1], x + r) /\ x - r \in Columns /\ x + r \in Columns
      BY <1>1, <2>2, <2>5 DEF Between
    <3> QED
      BY <2>2, <3>1, OnScreen
  <2>7. q[2] \in Rows
    <3>1. Between(y - r, q[2], y + r) /\ y - r \in Rows /\ y + r \in Rows
      BY <1>1, <2>2, <2>5 DEF Between
    <3> QED
      BY <2>2, <3>1, OnScreenToo
  <2> QED
    BY <2>2, <2>6, <2>7
<1>4. Writes(in) = Draw(Screen(in.bpp), S, White)
  BY DEF Writes, FbDrawCircle
<1> HIDE DEF S
<1>5. Pixels(in) = S /\ Touched(in) \subseteq 0 .. Mapped(Screen(in.bpp)) - 1
  <2>1. Shows(in, S)
    BY <1>3, <1>4, DrawingOf
  <2> QED
    BY <2>1 DEF Shows
<1> QED
  BY <1>2, <1>5 DEF DrawnRight

-----------------------------------------------------------------------------
(* Each byte of the screen is one of some pixel's. *)
LEMMA PixelOfByte ==
  ASSUME NEW k \in Nat \ {0}, NEW b \in 0 .. (Width * Height * k) - 1
  PROVE  \E p \in Columns \X Rows, z \in 0 .. k - 1 : b = PlaceAt(k, p[1], p[2]) + z
<1> DEFINE m == Width * k
           y == b \div m
           a == b % m
           x == a \div k
           z == a % k
<1>1. Width \in Nat \ {0} /\ Height \in Nat \ {0} /\ m \in Nat \ {0}
      /\ Width * Height * k = Height * m /\ Width * Height * k \in Int
  BY ScreenAssumption
<1>2. b \in Nat /\ b < Height * m
  BY <1>1
<1>3. y \in Int /\ a \in Int /\ b = m * y + a /\ 0 <= a /\ a < m /\ m * y = y * m
  <2> HIDE DEF m
  <2> QED
    BY <1>1, <1>2
<1>4. x \in Int /\ z \in Int /\ a = k * x + z /\ 0 <= z /\ z < k /\ k * x = x * k
  <2> HIDE DEF a
  <2> QED
    BY <1>3
<1> HIDE DEF m, y, a, x, z
<1>5. y \in Rows
  <2>1. y >= 0
    <3> SUFFICES ASSUME y <= -1 PROVE FALSE
      BY <1>3
    <3>1. m * y <= -m
      BY <1>1, <1>3
    <3> QED
      BY <1>1, <1>2, <1>3, <3>1
  <2>2. y < Height
    <3> SUFFICES ASSUME y >= Height PROVE FALSE
      BY <1>1, <1>3
    <3>1. y * m >= Height * m
      BY <1>1, <1>3
    <3> QED
      BY <1>1, <1>2, <1>3, <3>1
  <2> QED
    BY <1>1, <1>3, <2>1, <2>2 DEF Rows
<1>6. x \in Columns
  <2>1. x >= 0
    <3> SUFFICES ASSUME x <= -1 PROVE FALSE
      BY <1>4
    <3>1. k * x <= -k
      BY <1>4
    <3> QED
      BY <1>3, <1>4, <3>1
  <2>2. x < Width
    <3> SUFFICES ASSUME x >= Width PROVE FALSE
      BY <1>1, <1>4
    <3>1. x * k >= Width * k
      BY <1>1, <1>4
    <3>2. Width * k = m
      BY DEF m
    <3> QED
      BY <1>1, <1>3, <1>4, <3>1, <3>2
  <2> QED
    BY <1>1, <1>4, <2>1, <2>2 DEF Columns
<1>7. z \in 0 .. k - 1 /\ b = PlaceAt(k, x, y) + z
  <2>1. PlaceAt(k, x, y) = y * m + x * k
    BY DEF PlaceAt, m
  <2>2. z \in 0 .. k - 1
    BY <1>4
  <2>3. b = (y * m + x * k) + z
    <3> DEFINE ym == y * m
               xk == x * k
    <3>1. ym \in Int /\ xk \in Int /\ b = ym + a /\ a = xk + z
      BY <1>1, <1>3, <1>4
    <3> HIDE DEF ym, xk
    <3>2. b = (ym + xk) + z
      BY <1>4, <3>1
    <3> QED
      BY <3>2 DEF ym, xk
  <2> QED
    BY <2>1, <2>2, <2>3
<1>8. <<x, y>> \in Columns \X Rows /\ <<x, y>>[1] = x /\ <<x, y>>[2] = y
  BY <1>5, <1>6
<1> QED
  BY <1>7, <1>8

LEMMA ScreenFilled ==
  ASSUME NEW in, in.bpp \in {16, 32}, in.kind = "fill"
  PROVE  DrawnRight(in)
<1> DEFINE S == Columns \X Rows
           k == Depth(in.bpp)
<1>1. Writes(in) = Draw(Screen(in.bpp), S, White)
  <2>1. Screen(in.bpp).xres = Width /\ Screen(in.bpp).yres = Height
    BY ScreenIs
  <2> QED
    BY <2>1 DEF Writes, FillScreenSolid, Columns, Rows
<1>2. /\ Touched(in) \subseteq 0 .. Mapped(Screen(in.bpp)) - 1
      /\ \A b : b \in Touched(in)
            <=> \E p \in S, z \in 0 .. k - 1 : b = PlaceAt(k, p[1], p[2]) + z
  <2>1. S \in SUBSET (Columns \X Rows)
    OBVIOUS
  <2> HIDE DEF S
  <2>2. Shows(in, S)
    BY <1>1, <2>1, DrawingOf
  <2> QED
    BY <2>2 DEF Shows
<1>3. k \in Nat \ {0} /\ Mapped(Screen(in.bpp)) = Width * Height * k
  BY DepthIs, ScreenIs
<1>4. 0 .. Mapped(Screen(in.bpp)) - 1 \subseteq Touched(in)
  <2> HIDE DEF k
  <2> QED
    BY <1>2, <1>3, PixelOfByte
<1>5. Touched(in) = 0 .. Mapped(Screen(in.bpp)) - 1
  BY <1>2, <1>4
<1> QED
  BY <1>5 DEF DrawnRight

-----------------------------------------------------------------------------
(* Text: a glyph's pixels at x, y, and those of some glyphs side by side. *)
GlyphAt(x, y) == {<<x + g[1], y + g[2]>> : g \in Glyph}
TextOf(x, y, m) == UNION {GlyphAt(x + 8 * (c - 1), y) : c \in 1 .. m}
CharsAt(s, x, y, m) ==
  UNION {FbPutChar(s, x + 8 * (c - 1), y, Glyph, White) : c \in 1 .. m}

LEMMA GlyphCells ==
  \A g \in Glyph : g[1] \in 0 .. 7 /\ g[2] \in 0 .. 7
BY DEF Glyph

LEMMA GlyphOnScreen ==
  ASSUME NEW x \in Nat, NEW y \in Nat, x + 8 <= Width, y + 8 <= Height
  PROVE  GlyphAt(x, y) \in SUBSET (Columns \X Rows)
<1> SUFFICES ASSUME NEW g \in Glyph PROVE <<x + g[1], y + g[2]>> \in Columns \X Rows
  BY DEF GlyphAt
<1>1. g[1] \in 0 .. 7 /\ g[2] \in 0 .. 7
  BY GlyphCells
<1>2. x + g[1] \in Columns /\ y + g[2] \in Rows
  BY <1>1, ScreenAssumption DEF Columns, Rows
<1> QED
  BY <1>2

LEMMA TextAtIs ==
  ASSUME NEW bpp \in {16, 32}, NEW u \in Int, NEW v \in Int
  PROVE  TextAt(Screen(bpp), u, v) = PlaceAt(Depth(bpp), u, v)
<1> DEFINE s == Screen(bpp)
           k == Depth(bpp)
<1>1. s.xoffset = 0 /\ s.yoffset = 0 /\ s.line = Width * k /\ s.bpp \div 8 = k
  BY ScreenIs
<1>2. k \in Int /\ Width \in Int
  BY DepthIs, ScreenAssumption
<1> HIDE DEF s, k
<1>3. TextAt(s, u, v) = u * k + v * (Width * k)
  BY <1>1 DEF TextAt
<1>4. u * k \in Int /\ v * (Width * k) \in Int
  BY <1>2
<1> QED
  BY <1>3, <1>4 DEF PlaceAt, s, k

(* FbPutChar leaves out what is not in the device's memory; on the screen that
   is nothing. *)
LEMMA CharIs ==
  ASSUME NEW bpp \in {16, 32}, NEW x \in Nat, NEW y \in Nat, x + 8 <= Width,
         y + 8 <= Height
  PROVE  FbPutChar(Screen(bpp), x, y, Glyph, White)
           = Painted(GlyphAt(x, y), Depth(bpp), Paint(bpp))
<1> DEFINE s == Screen(bpp)
           k == Depth(bpp)
           v == Paint(bpp)
           At(p) == PlaceAt(k, p[1], p[2])
           places == {TextAt(s, x + g[1], y + g[2]) : g \in Glyph}
           S == GlyphAt(x, y)
<1>1. /\ s.bpp = bpp /\ s.xoffset = 0 /\ s.yoffset = 0 /\ s.line = Width * k
      /\ s.smem = Width * Height * k + Spare /\ s.bpp \div 8 = k
  BY ScreenIs
<1>2. k \in Nat \ {0}
  BY DepthIs
<1>3. /\ (IF s.bpp \in {8, 16} THEN 2 ELSE 4) = k
      /\ (IF k = 2 THEN White % 65536 ELSE White) = v
  <2> HIDE DEF s
  <2>1. CASE bpp = 16
    BY <1>1, <2>1 DEF Depth, Paint, White
  <2>2. CASE bpp = 32
    BY <1>1, <2>2 DEF Depth, Paint
  <2> QED
    BY <2>1, <2>2
<1>4. FbPutChar(s, x, y, Glyph, White)
        = {Write(p, k, v) : p \in {p \in places : p >= 0 /\ p < s.smem}}
  <2>1. FbPutChar(s, x, y, Glyph, White)
          = {Write(p, IF s.bpp \in {8, 16} THEN 2 ELSE 4,
                   IF (IF s.bpp \in {8, 16} THEN 2 ELSE 4) = 2 THEN White % 65536
                   ELSE White) : p \in {p \in places : p >= 0 /\ p < s.smem}}
    BY DEF FbPutChar
  <2> HIDE DEF s, k, v, places
  <2> QED
    BY <1>3, <2>1
<1>5. ASSUME NEW p \in S PROVE At(p) >= 0 /\ At(p) < s.smem
  <2>1. p[1] \in Columns /\ p[2] \in Rows
    BY GlyphOnScreen
  <2>2. At(p) \in Int /\ 0 <= At(p) /\ At(p) + k <= Width * Height * k
    <3> HIDE DEF k
    <3> QED
      BY <1>2, <2>1, PlaceDecodes
  <2>3. Width * Height * k \in Int
    <3> HIDE DEF k
    <3> QED
      BY <1>2, ScreenAssumption
  <2> HIDE DEF At, s, k
  <2> QED
    BY <1>1, <1>2, <2>2, <2>3, ScreenAssumption
<1>6. places = {At(p) : p \in S}
  <2>1. ASSUME NEW g \in Glyph
        PROVE  TextAt(s, x + g[1], y + g[2]) = At(<<x + g[1], y + g[2]>>)
    <3>1. x + g[1] \in Int /\ y + g[2] \in Int
      BY GlyphCells
    <3> QED
      BY <3>1, TextAtIs
  <2>2. S = {<<x + g[1], y + g[2]>> : g \in Glyph}
    BY DEF GlyphAt
  <2> HIDE DEF s, At, S
  <2> QED
    BY <2>1, <2>2
<1>7. {p \in places : p >= 0 /\ p < s.smem} = {At(p) : p \in S}
  <2> HIDE DEF places, At, S, s
  <2> QED
    BY <1>5, <1>6
<1>8. Painted(S, k, v) = {Write(At(p), k, v) : p \in S}
  BY DEF Painted
<1>9. {Write(p, k, v) : p \in {At(p) : p \in S}} = {Write(At(p), k, v) : p \in S}
  <2> HIDE DEF At, S, k, v
  <2> QED
    OBVIOUS
<1> HIDE DEF At, S, k, v, places, s
<1>10. FbPutChar(s, x, y, Glyph, White) = Painted(S, k, v)
  BY <1>4, <1>7, <1>8, <1>9
<1> QED
  BY <1>10 DEF s, S, k, v

LEMMA CellOnScreen ==
  ASSUME NEW x \in Nat, NEW num \in Nat, NEW c \in 1 .. num, x + 8 * num <= Width
  PROVE  x + 8 * (c - 1) \in Nat /\ (x + 8 * (c - 1)) + 8 <= Width
BY ScreenAssumption

LEMMA TextOnScreen ==
  ASSUME NEW x \in Nat, NEW y \in Nat, NEW m \in Nat,
         x + 8 * m <= Width, y + 8 <= Height
  PROVE  TextOf(x, y, m) \in SUBSET (Columns \X Rows)
<1> SUFFICES ASSUME NEW c \in 1 .. m
             PROVE  GlyphAt(x + 8 * (c - 1), y) \in SUBSET (Columns \X Rows)
  BY DEF TextOf
<1> DEFINE u == x + 8 * (c - 1)
<1>1. u \in Nat /\ u + 8 <= Width
  BY CellOnScreen
<1> HIDE DEF u
<1>2. GlyphAt(u, y) \in SUBSET (Columns \X Rows)
  BY <1>1, GlyphOnScreen
<1> QED
  BY <1>2 DEF u

LEMMA TextIs ==
  ASSUME NEW bpp \in {16, 32}, NEW x \in Nat, NEW y \in Nat, NEW m \in Nat,
         x + 8 * m <= Width, y + 8 <= Height
  PROVE  CharsAt(Screen(bpp), x, y, m) = Painted(TextOf(x, y, m), Depth(bpp), Paint(bpp))
<1> DEFINE Of(c) == FbPutChar(Screen(bpp), x + 8 * (c - 1), y, Glyph, White)
           Cell(c) == GlyphAt(x + 8 * (c - 1), y)
           At(p) == Write(PlaceAt(Depth(bpp), p[1], p[2]), Depth(bpp), Paint(bpp))
<1>1. ASSUME NEW c \in 1 .. m PROVE Of(c) = Painted(Cell(c), Depth(bpp), Paint(bpp))
  <2> DEFINE u == x + 8 * (c - 1)
  <2>2. u \in Nat /\ u + 8 <= Width
    BY CellOnScreen
  <2> HIDE DEF u
  <2>3. FbPutChar(Screen(bpp), u, y, Glyph, White)
          = Painted(GlyphAt(u, y), Depth(bpp), Paint(bpp))
    BY <2>2, CharIs
  <2> QED
    BY <2>3 DEF u
<1>2. \A T : Painted(T, Depth(bpp), Paint(bpp)) = {At(p) : p \in T}
  BY DEF Painted
<1>3. TextOf(x, y, m) = UNION {Cell(c) : c \in 1 .. m}
  BY DEF TextOf
<1> HIDE DEF Of, Cell, At
<1>4. UNION {Of(c) : c \in 1 .. m} = {At(p) : p \in UNION {Cell(c) : c \in 1 .. m}}
  <2>1. \A c \in 1 .. m : Of(c) = {At(p) : p \in Cell(c)}
    BY <1>1, <1>2
  <2> QED
    BY <2>1
<1>5. UNION {Of(c) : c \in 1 .. m} = Painted(TextOf(x, y, m), Depth(bpp), Paint(bpp))
  BY <1>2, <1>3, <1>4
<1> QED
  BY <1>5 DEF Of, CharsAt

(* The cells of num characters, as pixels, what FbClearArea writes, and the bytes
   of some pixels. *)
Blanks(k, x, y, num) == {Write(PlaceAt(k, x, y + t), 8 * num * k, 0) : t \in 0 .. 7}
BytesOf(S, k) == {PlaceAt(k, p[1], p[2]) + z : p \in S, z \in 0 .. k - 1}
CellsOf(x, y, num) == {<<x + g[1], y + g[2]>> : g \in (0 .. 8 * num - 1) \X (0 .. 7)}

LEMMA CellsOnScreen ==
  ASSUME NEW x \in Nat, NEW y \in Nat, NEW num \in Nat, x + 8 * num <= Width, y + 8 <= Height
  PROVE  CellsOf(x, y, num) \in SUBSET (Columns \X Rows)
<1> SUFFICES ASSUME NEW g \in (0 .. 8 * num - 1) \X (0 .. 7)
             PROVE  <<x + g[1], y + g[2]>> \in Columns \X Rows
  BY DEF CellsOf
<1>1. g[1] \in 0 .. 8 * num - 1 /\ g[2] \in 0 .. 7
  OBVIOUS
<1>2. x + g[1] \in Columns /\ y + g[2] \in Rows
  BY <1>1, ScreenAssumption DEF Columns, Rows
<1> QED
  BY <1>2

LEMMA TextInCells ==
  ASSUME NEW x \in Nat, NEW y \in Nat, NEW num \in Nat, NEW m \in Nat, m <= num
  PROVE  TextOf(x, y, m) \subseteq CellsOf(x, y, num)
<1> SUFFICES ASSUME NEW c \in 1 .. m, NEW g \in Glyph
             PROVE  <<(x + 8 * (c - 1)) + g[1], y + g[2]>> \in CellsOf(x, y, num)
  BY DEF TextOf, GlyphAt
<1>1. g[1] \in 0 .. 7 /\ g[2] \in 0 .. 7
  BY GlyphCells
<1> DEFINE a == 8 * (c - 1) + g[1]
<1>2. a \in 0 .. 8 * num - 1 /\ (x + 8 * (c - 1)) + g[1] = x + a
  BY <1>1
<1> HIDE DEF a
<1>3. <<a, g[2]>> \in (0 .. 8 * num - 1) \X (0 .. 7) /\ <<a, g[2]>>[1] = a /\ <<a, g[2]>>[2] = g[2]
  BY <1>1, <1>2
<1>4. <<x + a, y + g[2]>> \in CellsOf(x, y, num)
  BY <1>3 DEF CellsOf
<1> QED
  BY <1>2, <1>4

LEMMA ClearIs ==
  ASSUME NEW bpp \in {16, 32}, NEW x \in Nat, NEW y \in Nat, NEW num \in Nat
  PROVE  FbClearArea(Screen(bpp), x, y, 8 * num, 8) = Blanks(Depth(bpp), x, y, num)
<1> DEFINE s == Screen(bpp)
           k == Depth(bpp)
<1>1. /\ s.xoffset = 0 /\ s.yoffset = 0 /\ s.line = Width * k /\ s.bpp = bpp
      /\ s.bpp \div 8 = k /\ \A m \in Nat : (m * bpp) \div 8 = m * k
  BY ScreenIs
<1>2. k \in Nat /\ 8 * num \in Nat
  BY DepthIs
<1> HIDE DEF s, k
<1>3. (8 * num * s.bpp) \div 8 = 8 * num * k
  BY <1>1, <1>2
<1>4. ASSUME NEW t \in 0 .. 7 PROVE TextAt(s, x, y + t) = PlaceAt(k, x, y + t)
  BY TextAtIs DEF s, k
<1>5. 0 .. 8 - 1 = 0 .. 7
  OBVIOUS
<1>6. FbClearArea(s, x, y, 8 * num, 8)
        = {Write(TextAt(s, x, y + t), (8 * num * s.bpp) \div 8, 0) : t \in 0 .. 7}
  BY <1>5 DEF FbClearArea
<1>7. FbClearArea(s, x, y, 8 * num, 8) = {Write(PlaceAt(k, x, y + t), 8 * num * k, 0) : t \in 0 .. 7}
  BY <1>3, <1>4, <1>6
<1> QED
  BY <1>7 DEF s, k, Blanks

(* The bytes of the cells, line by line or pixel by pixel. *)
LEMMA ClearSpots ==
  ASSUME NEW k \in Nat \ {0}, NEW x \in Nat, NEW y \in Nat, NEW num \in Nat, NEW b
  PROVE  b \in Spots(Blanks(k, x, y, num)) <=> b \in BytesOf(CellsOf(x, y, num), k)
<1> DEFINE From(t) == PlaceAt(k, x, y + t)
           m == 8 * num * k
<1>1. Width \in Nat /\ m \in Nat /\ \A t \in 0 .. 7 : From(t) \in Int
  BY ScreenAssumption DEF PlaceAt
<1>2. b \in Spots({Write(From(t), m, 0) : t \in 0 .. 7})
        <=> \E t \in 0 .. 7 : b \in From(t) .. From(t) + m - 1
  <2> DEFINE Of(t) == Write(From(t), m, 0)
  <2>1. \A t \in 0 .. 7 : Of(t).at = From(t) /\ Of(t).len = m
    BY DEF Write
  <2>2. Spots({Of(t) : t \in 0 .. 7})
          = UNION {w.at .. w.at + w.len - 1 : w \in {Of(t) : t \in 0 .. 7}}
    BY DEF Spots
  <2> HIDE DEF Of, From, m
  <2>3. b \in Spots({Of(t) : t \in 0 .. 7})
          <=> \E t \in 0 .. 7 : b \in From(t) .. From(t) + m - 1
    BY <2>1, <2>2
  <2> QED
    BY <2>3 DEF Of
<1>3. ASSUME NEW t \in 0 .. 7, NEW a \in Int PROVE PlaceAt(k, x + a, y + t) = From(t) + a * k
  <2>1. (x + a) * k = x * k + a * k
    OBVIOUS
  <2> DEFINE yw == (y + t) * (Width * k)
             xk == x * k
             ak == a * k
  <2>2. yw \in Int /\ xk \in Int /\ ak \in Int
    BY <1>1
  <2>3. PlaceAt(k, x + a, y + t) = yw + (xk + ak) /\ From(t) = yw + xk
    BY <2>1 DEF PlaceAt
  <2> HIDE DEF yw, xk, ak, From
  <2>4. yw + (xk + ak) = (yw + xk) + ak
    BY <2>2
  <2> QED
    BY <2>3, <2>4 DEF ak
<1> HIDE DEF From
<1>4. ASSUME NEW t \in 0 .. 7, b \in From(t) .. From(t) + m - 1
      PROVE  \E p \in CellsOf(x, y, num), z \in 0 .. k - 1 : b = PlaceAt(k, p[1], p[2]) + z
  <2> DEFINE d == b - From(t)
             a == d \div k
             z == d % k
  <2>1. d \in Int /\ 0 <= d /\ d < m /\ b = From(t) + d
    BY <1>1, <1>4
  <2>2. a \in Int /\ z \in Int /\ d = k * a + z /\ 0 <= z /\ z < k /\ k * a = a * k
    <3> HIDE DEF d
    <3> QED
      BY <2>1
  <2> HIDE DEF d, a, z
  <2>3. a >= 0
    <3> SUFFICES ASSUME a <= -1 PROVE FALSE
      BY <2>2
    <3>1. k * a <= -k
      BY <2>2
    <3> QED
      BY <2>1, <2>2, <3>1
  <2>4. a < 8 * num
    <3> SUFFICES ASSUME a >= 8 * num PROVE FALSE
      BY <2>2
    <3>1. a * k >= 8 * num * k
      BY <2>2
    <3> QED
      BY <2>1, <2>2, <3>1
  <2>5. <<a, t>> \in (0 .. 8 * num - 1) \X (0 .. 7) /\ <<a, t>>[1] = a /\ <<a, t>>[2] = t
    BY <2>2, <2>3, <2>4
  <2> DEFINE p == <<x + a, y + t>>
  <2>6. p \in CellsOf(x, y, num) /\ p[1] = x + a /\ p[2] = y + t
    BY <2>5 DEF CellsOf
  <2>7. b = (From(t) + a * k) + z /\ z \in 0 .. k - 1
    <3> DEFINE ak == a * k
    <3>1. ak \in Int /\ d = ak + z
      BY <2>2
    <3> HIDE DEF ak
    <3>2. From(t) \in Int
      BY <1>1
    <3>3. b = (From(t) + ak) + z
      BY <2>1, <2>2, <3>1, <3>2, SMTT(40)
    <3> QED
      BY <2>2, <3>3 DEF ak
  <2>8. PlaceAt(k, p[1], p[2]) = From(t) + a * k
    BY <1>3, <2>2, <2>6
  <2> HIDE DEF p
  <2> QED
    BY <2>6, <2>7, <2>8
<1>5. ASSUME NEW p \in CellsOf(x, y, num), NEW z \in 0 .. k - 1, b = PlaceAt(k, p[1], p[2]) + z
      PROVE  \E t \in 0 .. 7 : b \in From(t) .. From(t) + m - 1
  <2>1. PICK g \in (0 .. 8 * num - 1) \X (0 .. 7) : p = <<x + g[1], y + g[2]>>
    BY DEF CellsOf
  <2> DEFINE a == g[1]
             t == g[2]
  <2>2. a \in 0 .. 8 * num - 1 /\ t \in 0 .. 7 /\ p[1] = x + a /\ p[2] = y + t
    BY <2>1
  <2> HIDE DEF a, t
  <2>3. b = (From(t) + a * k) + z
    <3>1. a \in Int
      BY <2>2
    <3>2. PlaceAt(k, x + a, y + t) = From(t) + a * k
      BY <1>3, <2>2, <3>1
    <3> QED
      BY <1>5, <2>2, <3>2
  <2>4. a * k >= 0 /\ (a + 1) * k <= 8 * num * k /\ (a + 1) * k = a * k + k /\ a * k \in Int
    BY <2>2
  <2> DEFINE ak == a * k
  <2>5. 0 <= ak + z /\ ak + z < m /\ ak \in Int
    BY <2>4
  <2> HIDE DEF ak, m
  <2>6. b = (From(t) + ak) + z /\ From(t) \in Int
    BY <1>1, <2>2, <2>3 DEF ak
  <2>7. b \in From(t) .. From(t) + m - 1
    BY <1>1, <2>5, <2>6
  <2> QED
    BY <2>2, <2>7
<1>6. b \in Spots({Write(From(t), m, 0) : t \in 0 .. 7})
        <=> \E p \in CellsOf(x, y, num), z \in 0 .. k - 1 : b = PlaceAt(k, p[1], p[2]) + z
  BY <1>2, <1>4, <1>5
<1>7. Blanks(k, x, y, num) = {Write(From(t), m, 0) : t \in 0 .. 7}
  BY DEF Blanks, From
<1>8. b \in BytesOf(CellsOf(x, y, num), k)
        <=> \E p \in CellsOf(x, y, num), z \in 0 .. k - 1 : b = PlaceAt(k, p[1], p[2]) + z
  BY DEF BytesOf
<1> HIDE DEF m
<1> QED
  BY <1>6, <1>7, <1>8

LEMMA ZerosSpots ==
  ASSUME NEW k \in Nat \ {0}, NEW x \in Nat, NEW y \in Nat, NEW num \in Nat
  PROVE  Spots(Blanks(k, x, y, num)) = BytesOf(CellsOf(x, y, num), k)
BY ClearSpots

LEMMA PaintedBytes ==
  ASSUME NEW k \in Nat \ {0}, NEW v, NEW S \in SUBSET (Columns \X Rows)
  PROVE  /\ Spots(Painted(S, k, v)) = BytesOf(S, k)
         /\ BytesOf(S, k) \subseteq 0 .. (Width * Height * k) - 1
<1>1. \A b : b \in Spots(Painted(S, k, v))
              <=> \E p \in S, z \in 0 .. k - 1 : b = PlaceAt(k, p[1], p[2]) + z
  BY PaintedSpots
<1>2. \A b : b \in BytesOf(S, k)
              <=> \E p \in S, z \in 0 .. k - 1 : b = PlaceAt(k, p[1], p[2]) + z
  BY DEF BytesOf
<1>3. \A b : b \in Spots(Painted(S, k, v)) <=> b \in BytesOf(S, k)
  BY <1>1, <1>2, Zenon
<1>4. Spots(Painted(S, k, v)) = BytesOf(S, k)
  BY <1>3
<1>5. Spots(Painted(S, k, v)) \subseteq 0 .. (Width * Height * k) - 1
  BY PaintedSpots
<1> QED
  BY <1>4, <1>5

BoxOf(b, x, y, num) ==
  {(y + g[2]) * (Width * b) + (x + g[1]) * b + k :
     g \in (0 .. 8 * num - 1) \X (0 .. 7), k \in 0 .. b - 1}

LEMMA BoxIs ==
  ASSUME NEW k, NEW x, NEW y, NEW num
  PROVE  BoxOf(k, x, y, num) = BytesOf(CellsOf(x, y, num), k)
<1> DEFINE G == (0 .. 8 * num - 1) \X (0 .. 7)
           Z == 0 .. k - 1
           Moved(g) == <<x + g[1], y + g[2]>>
           At(p) == PlaceAt(k, p[1], p[2])
<1>1. \A g : At(Moved(g)) = (y + g[2]) * (Width * k) + (x + g[1]) * k
  BY DEF PlaceAt
<1>2. BoxOf(k, x, y, num) = {((y + g[2]) * (Width * k) + (x + g[1]) * k) + z : g \in G, z \in Z}
  BY DEF BoxOf
<1>3. BytesOf(CellsOf(x, y, num), k) = {At(p) + z : p \in {Moved(g) : g \in G}, z \in Z}
  BY DEF BytesOf, CellsOf
<1> HIDE DEF G, Z, Moved, At
<1>4. BoxOf(k, x, y, num) = {At(Moved(g)) + z : g \in G, z \in Z}
  BY <1>1, <1>2
<1>5. {At(p) + z : p \in {Moved(g) : g \in G}, z \in Z} = {At(Moved(g)) + z : g \in G, z \in Z}
  OBVIOUS
<1> QED
  BY <1>3, <1>4, <1>5

PointsOf(x, y, m) == {<<x + 8 * (k - 1) + g[1], y + g[2]>> : k \in 1 .. m, g \in Glyph}

LEMMA TextPoints ==
  ASSUME NEW x, NEW y, NEW m
  PROVE  TextOf(x, y, m) = PointsOf(x, y, m)
<1> DEFINE M == 1 .. m
           Point(c, g) == <<x + 8 * (c - 1) + g[1], y + g[2]>>
<1>1. TextOf(x, y, m) = UNION {{Point(c, g) : g \in Glyph} : c \in M}
  BY DEF TextOf, GlyphAt
<1>2. PointsOf(x, y, m) = {Point(c, g) : c \in M, g \in Glyph}
  BY DEF PointsOf
<1> HIDE DEF M, Point
<1> QED
  BY <1>1, <1>2

TextCount(in) == Min({in.n, in.max})
Cleared(in) == IF in.clear THEN Blanks(Depth(in.bpp), in.x, in.y, in.n) ELSE {}
TextSeen(in) == TextOf(in.x, in.y, TextCount(in))

LEMMA CountIs ==
  ASSUME NEW in, in.n \in Nat, in.max \in Nat
  PROVE  TextCount(in) \in Nat /\ TextCount(in) <= in.n
<1>1. \A u, v \in Nat : Min({u, v}) = IF u <= v THEN u ELSE v
  BY DEF Min
<1> QED
  BY <1>1 DEF TextCount

LEMMA TextWrites ==
  ASSUME NEW in, in.bpp \in {16, 32}, in.kind \in {"string", "value"},
         in.x \in Nat, in.y \in Nat, in.n \in Nat, in.max \in Nat,
         in.x + 8 * in.n <= Width, in.y + 8 <= Height
  PROVE  Writes(in) = Cleared(in) \union Painted(TextSeen(in), Depth(in.bpp), Paint(in.bpp))
<1> DEFINE bpp == in.bpp
           s == Screen(bpp)
           k == Depth(bpp)
           x == in.x
           y == in.y
           num == in.n
           m == TextCount(in)
           glyphs == [c \in 1 .. num |-> Glyph]
<1>1. m \in Nat /\ m <= num /\ m = Min({num, in.max})
  BY CountIs DEF TextCount
<1>2. Len(glyphs) = num
  <2>1. glyphs \in Seq({Glyph}) /\ DOMAIN glyphs = 1 .. num
    OBVIOUS
  <2> HIDE DEF glyphs
  <2> QED
    BY <2>1
<1>3. Writes(in) = FbPutString(s, x, y, glyphs, in.max, White, in.clear, num)
  BY DEF Writes, FbPutValue
<1>4. Writes(in) = (IF in.clear THEN FbClearArea(s, x, y, 8 * num, 8) ELSE {})
        \union UNION {FbPutChar(s, x + 8 * (c - 1), y, glyphs[c], White) : c \in 1 .. m}
  <2> HIDE DEF s, x, y, num, m, glyphs
  <2> QED
    BY <1>1, <1>2, <1>3 DEF FbPutString
<1>5. \A c \in 1 .. m : glyphs[c] = Glyph
  <2> HIDE DEF m
  <2> QED
    BY <1>1
<1>6. UNION {FbPutChar(s, x + 8 * (c - 1), y, glyphs[c], White) : c \in 1 .. m}
        = CharsAt(s, x, y, m)
  <2> HIDE DEF s, x, y, m, glyphs
  <2> QED
    BY <1>5 DEF CharsAt
<1>11. bpp \in {16, 32}
  OBVIOUS
<1> HIDE DEF x, y, num, m, bpp
<1>7. x \in Nat /\ y \in Nat /\ num \in Nat /\ x + 8 * num <= Width /\ y + 8 <= Height
  BY DEF x, y, num
<1>8. CharsAt(s, x, y, m) = Painted(TextOf(x, y, m), k, Paint(bpp))
  <2>1. x + 8 * m <= Width
    BY <1>1, <1>7, ScreenAssumption
  <2> QED
    BY <1>1, <1>7, <1>11, <2>1, TextIs
<1>9. FbClearArea(s, x, y, 8 * num, 8) = Blanks(k, x, y, num)
  BY <1>7, <1>11, ClearIs, SMTT(40)
<1> HIDE DEF s, k, glyphs
<1>10. Writes(in) = (IF in.clear THEN Blanks(k, x, y, num) ELSE {})
         \union Painted(TextOf(x, y, m), k, Paint(bpp))
  BY <1>4, <1>6, <1>8, <1>9
<1> QED
  BY <1>10 DEF bpp, k, x, y, num, m, Cleared, TextSeen

LEMMA SpotsJoin ==
  ASSUME NEW V, NEW W
  PROVE  Spots(V \union W) = Spots(V) \union Spots(W)
BY DEF Spots

LEMMA ClearedUnseen ==
  ASSUME NEW in, NEW W, NEW k
  PROVE  Seen(Cleared(in) \union W, k) = Seen(W, k)
<1> DEFINE V == Cleared(in)
<1>1. \A w \in V : w.value = 0
  <2>1. \A w \in Blanks(Depth(in.bpp), in.x, in.y, in.n) : w.value = 0
    BY DEF Write, Blanks
  <2> QED
    BY <2>1 DEF Cleared
<1> HIDE DEF V
<1>2. {w \in V \union W : w.value # 0} = {w \in W : w.value # 0}
  BY <1>1
<1> QED
  BY <1>2 DEF Seen, V

LEMMA TextDrawn ==
  ASSUME NEW in, in.bpp \in {16, 32}, in.kind \in {"string", "value"},
         in.clear \in BOOLEAN,
         in.x \in Nat, in.y \in Nat, in.n \in Nat, in.max \in Nat,
         in.x + 8 * in.n <= Width, in.y + 8 <= Height
  PROVE  DrawnRight(in)
<1> DEFINE k == Depth(in.bpp)
           v == Paint(in.bpp)
           x == in.x
           y == in.y
           num == in.n
           m == TextCount(in)
           T == TextSeen(in)
           C == CellsOf(x, y, num)
           V == Cleared(in)
           P == Painted(T, k, v)
           last == Width * Height * k - 1
<1>1. Writes(in) = V \union P
  BY TextWrites
<1>2. /\ x \in Nat /\ y \in Nat /\ num \in Nat /\ x + 8 * num <= Width /\ y + 8 <= Height
      /\ k \in Nat \ {0} /\ v # 0
  BY DepthIs
<1>3. Pixels(in) = Seen(Writes(in), k) /\ Touched(in) = Spots(Writes(in))
  BY DrawingIs
<1>4. Mapped(Screen(in.bpp)) = Width * Height * k /\ in.bpp \div 8 = k
  BY ScreenIs
<1>5. m \in Nat /\ m <= num /\ T = TextOf(x, y, m)
  BY CountIs DEF TextSeen
<1>6. T = PointsOf(x, y, m)
  BY <1>5, TextPoints
<1>7. Seen(V \union P, k) = Seen(P, k)
  BY ClearedUnseen
<1> HIDE DEF k, v, x, y, num, m, T, V, P
<1>8. T \in SUBSET (Columns \X Rows) /\ C \in SUBSET (Columns \X Rows) /\ T \subseteq C
  <2>1. x + 8 * m <= Width
    BY <1>2, <1>5, ScreenAssumption
  <2> QED
    BY <1>2, <1>5, <2>1, TextOnScreen, CellsOnScreen, TextInCells
<1> HIDE DEF C
<1>9. Pixels(in) = T
  <2>1. Seen(P, k) = T
    BY <1>2, <1>8, PaintedIsSeen DEF P
  <2> QED
    BY <1>1, <1>3, <1>7, <2>1
<1>10. Spots(P) = BytesOf(T, k) /\ BytesOf(T, k) \subseteq 0 .. last
  BY <1>2, <1>8, PaintedBytes DEF P
<1>11. BytesOf(C, k) \subseteq 0 .. last
  BY <1>2, <1>8, PaintedBytes
<1>12. BoxOf(k, x, y, num) = BytesOf(C, k)
  BY BoxIs DEF C
<1>13. Touched(in) = Spots(V) \union BytesOf(T, k)
  BY <1>1, <1>3, <1>10, SpotsJoin
<1>14. in.clear => Touched(in) = BytesOf(C, k)
  <2> SUFFICES ASSUME in.clear PROVE Touched(in) = BytesOf(C, k)
    OBVIOUS
  <2>1. V = Blanks(k, x, y, num)
    BY DEF V, Cleared, k, x, y, num
  <2>2. Spots(V) = BytesOf(C, k)
    BY <1>2, <2>1, ZerosSpots DEF C
  <2>3. BytesOf(T, k) \subseteq BytesOf(C, k)
    BY <1>8 DEF BytesOf
  <2> QED
    BY <1>13, <2>2, <2>3
<1> HIDE DEF last
<1>15. Touched(in) \subseteq 0 .. last
  <2>1. CASE in.clear
    BY <1>11, <1>14, <2>1
  <2>2. CASE ~in.clear
    <3>1. Spots(V) = {}
      BY <2>2 DEF Spots, V, Cleared
    <3> QED
      BY <1>10, <1>13, <3>1
  <2> QED
    BY <2>1, <2>2
<1>16. Pixels(in) = Letters(in)
  <2>1. Pixels(in) = PointsOf(in.x, in.y, Min({in.n, in.max}))
    BY <1>6, <1>9 DEF x, y, m, TextCount
  <2> QED
    BY <2>1 DEF PointsOf, Letters
<1>17. in.clear => Touched(in) = Cells(in)
  <2>1. in.clear => Touched(in) = BoxOf(in.bpp \div 8, in.x, in.y, in.n)
    BY <1>4, <1>12, <1>14 DEF x, y, num
  <2> QED
    BY <2>1 DEF BoxOf, Cells
<1>18. Touched(in) \subseteq 0 .. Mapped(Screen(in.bpp)) - 1
  BY <1>4, <1>15 DEF last
<1> QED
  BY <1>16, <1>17, <1>18 DEF DrawnRight

(* Each thing that is drawn, wherever it has room. *)
LEMMA DrawnAlways ==
  ASSUME NEW in \in DrawInputs
  PROVE  DrawnRight(in)
<1>1. Drawable(in)
  BY ScreenAssumption
<1> QED
  BY <1>1, LineDrawn, RectangleDrawn, CircleDrawn, TextDrawn, ScreenFilled DEF Drawable

-----------------------------------------------------------------------------
(* Bytes that are put one after another: if e says what the device is after each,
   it says what it is in the end; the same for bytes that it gives, and for
   transfers. *)
LEMMA PutAllIs ==
  ASSUME NEW d, NEW bytes, NEW m \in Nat, Len(bytes) = m, NEW e, e[0] = d,
         \A k \in 1 .. m : Put(e[k - 1], bytes[k]) = e[k]
  PROVE  PutAll(d, bytes) = e[m]
<1> DEFINE Nth(g, k) == IF k = 0 THEN d ELSE Put(g[k - 1], bytes[k])
           h == [k \in 0 .. m |-> e[k]]
           f == CHOOSE f : f = [k \in 0 .. m |-> Nth(f, k)]
<1>1. h = [k \in 0 .. m |-> Nth(h, k)]
  <2>1. ASSUME NEW k \in 0 .. m PROVE e[k] = Nth(h, k)
    <3>1. CASE k = 0
      BY <3>1
    <3>2. CASE k # 0
      <4>1. k \in 1 .. m /\ k - 1 \in 0 .. m
        BY <3>2
      <4> QED
        BY <3>2, <4>1
    <3> QED
      BY <3>1, <3>2
  <2> HIDE DEF Nth
  <2> QED
    BY <2>1
<1>2. f = [k \in 0 .. m |-> Nth(f, k)]
  <2> HIDE DEF h, Nth
  <2> QED
    BY <1>1
<1>3. PutAll(d, bytes) = f[m]
  BY DEF PutAll
<1> HIDE DEF f, h
<1>4. \A k \in 0 .. m : k \in {k1 \in 0 .. m : f[k1] = e[k1]}
  <2> DEFINE P == {k \in 0 .. m : f[k] = e[k]}
  <2>1. 0 \in P
    BY <1>2
  <2>2. ASSUME NEW k \in 1 .. m, k - 1 \in P PROVE k \in P
    <3>1. f[k] = Put(f[k - 1], bytes[k])
      BY <1>2
    <3> QED
      BY <2>2, <3>1
  <2> HIDE DEF P
  <2>3. \A k \in 0 .. m : k \in P
    BY <2>1, <2>2, IterationKeeps
  <2> QED
    BY <2>3 DEF P
<1> QED
  BY <1>3, <1>4

LEMMA GiveAllIs ==
  ASSUME NEW d, NEW m \in Nat, NEW e, e[0] = d,
         \A k \in 1 .. m : Give(e[k - 1]) = e[k]
  PROVE  GiveAll(d, m) = e[m]
<1> DEFINE Nth(g, k) == IF k = 0 THEN d ELSE Give(g[k - 1])
           h == [k \in 0 .. m |-> e[k]]
           f == CHOOSE f : f = [k \in 0 .. m |-> Nth(f, k)]
<1>1. h = [k \in 0 .. m |-> Nth(h, k)]
  <2>1. ASSUME NEW k \in 0 .. m PROVE e[k] = Nth(h, k)
    <3>1. CASE k = 0
      BY <3>1
    <3>2. CASE k # 0
      <4>1. k \in 1 .. m /\ k - 1 \in 0 .. m
        BY <3>2
      <4> QED
        BY <3>2, <4>1
    <3> QED
      BY <3>1, <3>2
  <2> HIDE DEF Nth
  <2> QED
    BY <2>1
<1>2. f = [k \in 0 .. m |-> Nth(f, k)]
  <2> HIDE DEF h, Nth
  <2> QED
    BY <1>1
<1>3. GiveAll(d, m) = f[m]
  BY DEF GiveAll
<1> HIDE DEF f, h
<1>4. \A k \in 0 .. m : k \in {k1 \in 0 .. m : f[k1] = e[k1]}
  <2> DEFINE P == {k \in 0 .. m : f[k] = e[k]}
  <2>1. 0 \in P
    BY <1>2
  <2>2. ASSUME NEW k \in 1 .. m, k - 1 \in P PROVE k \in P
    <3>1. f[k] = Give(f[k - 1])
      BY <1>2
    <3> QED
      BY <2>2, <3>1
  <2> HIDE DEF P
  <2>3. \A k \in 0 .. m : k \in P
    BY <2>1, <2>2, IterationKeeps
  <2> QED
    BY <2>3 DEF P
<1> QED
  BY <1>3, <1>4

LEMMA TalkIs ==
  ASSUME NEW d, NEW wire, NEW m \in Nat, Len(wire) = m, NEW e, e[0] = d,
         \A k \in 1 .. m : Meets(e[k - 1], wire[k]) = e[k]
  PROVE  Talk(d, wire) = e[m]
<1> DEFINE Nth(g, k) == IF k = 0 THEN d ELSE Meets(g[k - 1], wire[k])
           h == [k \in 0 .. m |-> e[k]]
           f == CHOOSE f : f = [k \in 0 .. m |-> Nth(f, k)]
<1>1. h = [k \in 0 .. m |-> Nth(h, k)]
  <2>1. ASSUME NEW k \in 0 .. m PROVE e[k] = Nth(h, k)
    <3>1. CASE k = 0
      BY <3>1
    <3>2. CASE k # 0
      <4>1. k \in 1 .. m /\ k - 1 \in 0 .. m
        BY <3>2
      <4> QED
        BY <3>2, <4>1
    <3> QED
      BY <3>1, <3>2
  <2> HIDE DEF Nth
  <2> QED
    BY <2>1
<1>2. f = [k \in 0 .. m |-> Nth(f, k)]
  <2> HIDE DEF h, Nth
  <2> QED
    BY <1>1
<1>3. Talk(d, wire) = f[m]
  BY DEF Talk
<1> HIDE DEF f, h
<1>4. \A k \in 0 .. m : k \in {k1 \in 0 .. m : f[k1] = e[k1]}
  <2> DEFINE P == {k \in 0 .. m : f[k] = e[k]}
  <2>1. 0 \in P
    BY <1>2
  <2>2. ASSUME NEW k \in 1 .. m, k - 1 \in P PROVE k \in P
    <3>1. f[k] = Meets(f[k - 1], wire[k])
      BY <1>2
    <3> QED
      BY <2>2, <3>1
  <2> HIDE DEF P
  <2>3. \A k \in 0 .. m : k \in P
    BY <2>1, <2>2, IterationKeeps
  <2> QED
    BY <2>3 DEF P
<1> QED
  BY <1>3, <1>4

(* A register with another byte in it, and one more byte that was said. *)
TakenAt(regs, r, byte) == [regs EXCEPT ![r] = byte]
Further(bytes, byte) == Append(bytes, byte)

LEMMA AppendConcat ==
  ASSUME NEW s \in Seq(Nat), NEW t \in Seq(Nat), NEW x \in Nat
  PROVE  Further(s \o t, x) = s \o Further(t, x)
<1> DEFINE a == Append(s \o t, x)
           b == s \o Append(t, x)
<1>1. s \o t \in Seq(Nat) /\ Append(t, x) \in Seq(Nat) /\ Len(s) \in Nat /\ Len(t) \in Nat
  OBVIOUS
<1>2. a \in Seq(Nat) /\ Len(a) = (Len(s) + Len(t)) + 1
  BY <1>1
<1>3. b \in Seq(Nat) /\ Len(b) = (Len(s) + Len(t)) + 1
  BY <1>1
<1>4. ASSUME NEW k \in 1 .. (Len(s) + Len(t)) + 1 PROVE a[k] = b[k]
  <2>1. CASE k <= Len(s)
    <3>1. k \in 1 .. Len(s) /\ k \in 1 .. Len(s \o t)
      BY <1>1, <2>1
    <3>2. (s \o t)[k] = s[k] /\ b[k] = s[k] /\ a[k] = (s \o t)[k]
      BY <1>1, <3>1
    <3> QED
      BY <3>2
  <2>2. CASE k > Len(s) /\ k <= Len(s) + Len(t)
    <3>1. k - Len(s) \in 1 .. Len(t) /\ k \in 1 .. Len(s \o t)
      BY <1>1, <2>2
    <3>2. (s \o t)[k] = t[k - Len(s)] /\ a[k] = (s \o t)[k]
      BY <1>1, <2>2, <3>1
    <3>3. b[k] = Append(t, x)[k - Len(s)] /\ Append(t, x)[k - Len(s)] = t[k - Len(s)]
      BY <1>1, <2>2, <3>1
    <3> QED
      BY <3>2, <3>3
  <2>3. CASE k = (Len(s) + Len(t)) + 1
    <3>1. a[k] = x
      BY <1>1, <2>3
    <3>2. k - Len(s) = Len(t) + 1
      BY <1>1, <2>3
    <3>3. b[k] = Append(t, x)[k - Len(s)] /\ Append(t, x)[k - Len(s)] = x
      BY <1>1, <2>3, <3>2
    <3> QED
      BY <3>1, <3>3
  <2> QED
    BY <1>1, <2>1, <2>2, <2>3
<1> HIDE DEF a, b
<1>5. a = b
  BY <1>1, <1>2, <1>3, <1>4, SeqEqual
<1> QED
  BY <1>5 DEF a, b, Further

-----------------------------------------------------------------------------
(* The devices there can be, and what one becomes. *)
Devices ==
  [addr : Nat, width : Nat, chip : BOOLEAN, at : Nat, regs : [Word -> Nat],
   dmp : Seq(Nat \X Nat), fifo : Seq(Nat), said : Seq(Nat)]

Become(d, at, regs, dmp, fifo, said) ==
  [addr |-> d.addr, width |-> d.width, chip |-> d.chip, at |-> at, regs |-> regs,
   dmp |-> dmp, fifo |-> fifo, said |-> said]

LEMMA Becomes ==
  ASSUME NEW d, NEW at, NEW regs, NEW dmp, NEW fifo, NEW said,
         NEW e, e = Become(d, at, regs, dmp, fifo, said)
  PROVE  /\ e.addr = d.addr /\ e.width = d.width /\ e.chip = d.chip
         /\ e.at = at /\ e.regs = regs /\ e.dmp = dmp /\ e.fifo = fifo /\ e.said = said
         /\ \A at1, regs1, dmp1, fifo1, said1 :
              Become(e, at1, regs1, dmp1, fifo1, said1)
                = Become(d, at1, regs1, dmp1, fifo1, said1)
BY DEF Become

LEMMA StaysDevice ==
  ASSUME NEW d \in Devices, NEW at \in Nat, NEW regs \in [Word -> Nat],
         NEW dmp \in Seq(Nat \X Nat), NEW fifo \in Seq(Nat), NEW said \in Seq(Nat)
  PROVE  Become(d, at, regs, dmp, fifo, said) \in Devices
BY DEF Become, Devices

LEMMA DeviceHas ==
  ASSUME NEW d \in Devices
  PROVE  /\ d.addr \in Nat /\ d.width \in Nat /\ d.chip \in BOOLEAN /\ d.at \in Nat
         /\ d.regs \in [Word -> Nat] /\ d.dmp \in Seq(Nat \X Nat)
         /\ d.fifo \in Seq(Nat) /\ d.said \in Seq(Nat)
         /\ d = Become(d, d.at, d.regs, d.dmp, d.fifo, d.said)
BY DEF Become, Devices

LEMMA InWord ==
  \A r : r \in Word <=> r \in Nat /\ r < 512
BY DEF Word

(* m registers from one on take these bytes; and what they hold. *)
Over(regs, at, bytes, m) ==
  [r \in Word |-> IF at <= r /\ r < at + m THEN bytes[(r - at) + 1] ELSE regs[r]]
Taken(regs, at, m) == [k \in 1 .. m |-> regs[(at + k) - 1]]

(* No register among them does anything but hold a byte. *)
PlainToPut(d, m) ==
  d.chip => \A r \in {107, 111, 116} : ~(d.at <= r /\ r < d.at + m)
PlainToGive(d, m) ==
  d.chip => \A r \in {114, 115, 116} : ~(d.at <= r /\ r < d.at + m)

LEMMA PutOne ==
  ASSUME NEW d \in Devices, NEW byte, d.chip => d.at \notin {107, 111, 116}
  PROVE  Put(d, byte) = Become(d, d.at + 1, TakenAt(d.regs, d.at, byte),
                               d.dmp, d.fifo, d.said)
<1>1. Put(d, byte) = [d EXCEPT !.regs[d.at] = byte, !.at = @ + 1]
  BY DeviceHas DEF Put
<1> QED
  BY <1>1 DEF Become, Devices, TakenAt

LEMMA GiveOne ==
  ASSUME NEW d \in Devices, d.chip => d.at \notin {114, 115, 116}
  PROVE  Give(d) = Become(d, d.at + 1, d.regs, d.dmp, d.fifo,
                          Further(d.said, d.regs[d.at]))
<1>1. Give(d) = [d EXCEPT !.said = Append(@, d.regs[d.at]), !.at = @ + 1]
  BY DeviceHas DEF Give
<1> QED
  BY <1>1 DEF Become, Devices, Further

LEMMA OverIs ==
  ASSUME NEW regs \in [Word -> Nat], NEW at \in Nat, NEW bytes \in Seq(Nat),
         NEW m \in 0 .. Len(bytes)
  PROVE  /\ Over(regs, at, bytes, m) \in [Word -> Nat]
         /\ m = 0 => Over(regs, at, bytes, m) = regs
         /\ m > 0 /\ at + m <= 512 =>
              [Over(regs, at, bytes, m - 1) EXCEPT ![at + (m - 1)] = bytes[m]]
                = Over(regs, at, bytes, m)
<1>1. Len(bytes) \in Nat /\ \A k \in 1 .. Len(bytes) : bytes[k] \in Nat
  OBVIOUS
<1>2. ASSUME NEW r \in Word, at <= r, r < at + m PROVE bytes[(r - at) + 1] \in Nat
  <2>1. (r - at) + 1 \in 1 .. Len(bytes)
    BY <1>1, <1>2, InWord
  <2> QED
    BY <1>1, <2>1
<1>3. Over(regs, at, bytes, m) \in [Word -> Nat]
  BY <1>2 DEF Over
<1>4. ASSUME m = 0 PROVE Over(regs, at, bytes, m) = regs
  BY <1>4, InWord DEF Over
<1>5. ASSUME m > 0, at + m <= 512
      PROVE [Over(regs, at, bytes, m - 1) EXCEPT ![at + (m - 1)] = bytes[m]]
              = Over(regs, at, bytes, m)
  <2> DEFINE was == Over(regs, at, bytes, m - 1)
             is == Over(regs, at, bytes, m)
  <2>1. was = [r \in Word |-> was[r]] /\ is = [r \in Word |-> is[r]]
    BY DEF Over
  <2>2. ASSUME NEW r \in Word PROVE is[r] = IF r = at + (m - 1) THEN bytes[m] ELSE was[r]
    <3>1. r \in Nat
      BY InWord
    <3>2. CASE r = at + (m - 1)
      <4>1. at <= r /\ r < at + m /\ (r - at) + 1 = m
        <5>1. m \in Nat /\ at \in Nat /\ r = at + (m - 1) /\ m > 0
          BY <1>1, <1>5, <3>2
        <5> QED
          BY <5>1
      <4> QED
        BY <3>2, <4>1 DEF Over
    <3>3. CASE r # at + (m - 1)
      <4>1. (at <= r /\ r < at + m) <=> (at <= r /\ r < at + (m - 1))
        BY <1>1, <3>1, <3>3
      <4> QED
        BY <3>3, <4>1 DEF Over
    <3> QED
      BY <3>2, <3>3
  <2> HIDE DEF was, is
  <2>3. [was EXCEPT ![at + (m - 1)] = bytes[m]] = is
    BY <2>1, <2>2
  <2> QED
    BY <2>3 DEF was, is
<1> QED
  BY <1>3, <1>4, <1>5

LEMMA OverNone ==
  ASSUME NEW regs \in [Word -> Nat], NEW at \in Nat, NEW bytes \in Seq(Nat)
  PROVE  Over(regs, at, bytes, 0) = regs
<1>1. 0 \in 0 .. Len(bytes)
  OBVIOUS
<1> QED
  BY <1>1, OverIs

LEMMA OverOne ==
  ASSUME NEW regs \in [Word -> Nat], NEW at \in Nat, NEW bytes \in Seq(Nat),
         NEW m \in 1 .. Len(bytes), at + m <= 512
  PROVE  TakenAt(Over(regs, at, bytes, m - 1), at + (m - 1), bytes[m])
           = Over(regs, at, bytes, m)
<1>1. m \in 0 .. Len(bytes) /\ m > 0
  OBVIOUS
<1> QED
  BY <1>1, OverIs DEF TakenAt

LEMMA PutRun ==
  ASSUME NEW d \in Devices, NEW bytes \in Seq(Nat), d.at + Len(bytes) <= 512,
         PlainToPut(d, Len(bytes))
  PROVE  PutAll(d, bytes)
           = Become(d, d.at + Len(bytes), Over(d.regs, d.at, bytes, Len(bytes)),
                    d.dmp, d.fifo, d.said)
<1> DEFINE m == Len(bytes)
           R(k) == Over(d.regs, d.at, bytes, k)
           At(k) == Become(d, d.at + k, R(k), d.dmp, d.fifo, d.said)
           e == [k \in 0 .. m |-> At(k)]
<1>1. m \in Nat
  OBVIOUS
<1>2. /\ d.at \in Nat /\ d.regs \in [Word -> Nat] /\ d.chip \in BOOLEAN
      /\ d.dmp \in Seq(Nat \X Nat) /\ d.fifo \in Seq(Nat) /\ d.said \in Seq(Nat)
  BY DeviceHas
<1>3. ASSUME NEW k \in 0 .. m PROVE R(k) \in [Word -> Nat]
  BY <1>2, OverIs
<1>4. ASSUME NEW k \in 0 .. m
      PROVE  /\ At(k) \in Devices /\ At(k).at = d.at + k /\ At(k).chip = d.chip
             /\ At(k).regs = R(k) /\ At(k).dmp = d.dmp /\ At(k).fifo = d.fifo
             /\ At(k).said = d.said
             /\ \A at1, regs1, dmp1, fifo1, said1 :
                  Become(At(k), at1, regs1, dmp1, fifo1, said1)
                    = Become(d, at1, regs1, dmp1, fifo1, said1)
  <2>1. d.at + k \in Nat /\ R(k) \in [Word -> Nat]
    BY <1>1, <1>2, <1>3
  <2> HIDE DEF R
  <2>2. At(k) \in Devices
    BY <1>2, <2>1, StaysDevice
  <2> QED
    BY <2>2, Becomes
<1>5. At(0) = d
  <2>1. R(0) = d.regs /\ d.at + 0 = d.at
    <3>1. 0 \in 0 .. Len(bytes)
      BY <1>1
    <3>2. Over(d.regs, d.at, bytes, 0) = d.regs
      BY <1>2, OverNone
    <3> QED
      BY <1>2, <3>2
  <2> HIDE DEF R
  <2> QED
    BY <2>1, DeviceHas
<1>6. ASSUME NEW k \in 1 .. m PROVE Put(At(k - 1), bytes[k]) = At(k)
  <2>1. k - 1 \in 0 .. m /\ k \in 0 .. m
    BY <1>1
  <2>2. d.at <= d.at + (k - 1) /\ d.at + (k - 1) < d.at + m
    BY <1>1, <1>2
  <2>3. d.chip => d.at + (k - 1) \notin {107, 111, 116}
    BY <2>2 DEF PlainToPut
  <2>5. TakenAt(R(k - 1), d.at + (k - 1), bytes[k]) = R(k)
    <3>1. k > 0 /\ d.at + k <= 512 /\ k \in 1 .. Len(bytes)
      BY <1>1, <1>2
    <3>2. TakenAt(Over(d.regs, d.at, bytes, k - 1), d.at + (k - 1), bytes[k])
            = Over(d.regs, d.at, bytes, k)
      BY <1>2, <3>1, OverOne
    <3> QED
      BY <3>2
  <2>6. (d.at + (k - 1)) + 1 = d.at + k
    BY <1>2
  <2> HIDE DEF At, R
  <2>4. Put(At(k - 1), bytes[k])
          = Become(d, (d.at + (k - 1)) + 1, TakenAt(R(k - 1), d.at + (k - 1), bytes[k]),
                   d.dmp, d.fifo, d.said)
    <3>1. PICK v : v = At(k - 1)
      OBVIOUS
    <3>2. /\ v \in Devices /\ v.at = d.at + (k - 1) /\ v.chip = d.chip
          /\ v.regs = R(k - 1) /\ v.dmp = d.dmp /\ v.fifo = d.fifo /\ v.said = d.said
      BY <1>4, <2>1, <3>1
    <3>3. Put(v, bytes[k])
            = Become(v, v.at + 1, TakenAt(v.regs, v.at, bytes[k]), v.dmp, v.fifo, v.said)
      BY <2>3, <3>2, PutOne
    <3>4. Put(v, bytes[k])
            = Become(v, (d.at + (k - 1)) + 1, TakenAt(R(k - 1), d.at + (k - 1), bytes[k]),
                     d.dmp, d.fifo, d.said)
      BY <3>2, <3>3
    <3>5. \A at1, regs1, dmp1, fifo1, said1 :
            Become(v, at1, regs1, dmp1, fifo1, said1)
              = Become(d, at1, regs1, dmp1, fifo1, said1)
      BY <1>4, <2>1, <3>1
    <3> QED
      BY <3>1, <3>4, <3>5
  <2> QED
    BY <2>4, <2>5, <2>6 DEF At
<1>7. e[0] = d /\ \A k \in 1 .. m : Put(e[k - 1], bytes[k]) = e[k]
  <2>1. \A k \in 0 .. m : e[k] = At(k)
    OBVIOUS
  <2>2. \A k \in 1 .. m : k - 1 \in 0 .. m /\ k \in 0 .. m
    OBVIOUS
  <2>3. 0 \in 0 .. m
    BY <1>1
  <2> HIDE DEF At, e
  <2> QED
    BY <1>5, <1>6, <2>1, <2>2, <2>3
<1>8. PutAll(d, bytes) = e[m]
  <2> HIDE DEF e
  <2> QED
    BY <1>1, <1>7, PutAllIs
<1>9. e[m] = At(m)
  BY <1>1
<1> QED
  BY <1>8, <1>9

LEMMA TakenIs ==
  ASSUME NEW regs \in [Word -> Nat], NEW at \in Nat, NEW m \in Nat, at + m <= 512
  PROVE  /\ Taken(regs, at, m) \in Seq(Nat) /\ Len(Taken(regs, at, m)) = m
         /\ m = 0 => Taken(regs, at, m) = <<>>
         /\ m > 0 => regs[at + (m - 1)] \in Nat
         /\ m > 0 => Taken(regs, at, m)
                       = Further(Taken(regs, at, m - 1), regs[at + (m - 1)])
<1>1. \A c \in 1 .. m : regs[(at + c) - 1] \in Nat
  BY InWord
<1>2. ASSUME NEW num \in Nat, num <= m
      PROVE Taken(regs, at, num) \in Seq(Nat) /\ Len(Taken(regs, at, num)) = num
  <2>1. Taken(regs, at, num) \in [1 .. num -> Nat]
    BY <1>1, <1>2 DEF Taken
  <2>2. DOMAIN Taken(regs, at, num) = 1 .. num
    BY DEF Taken
  <2>3. Taken(regs, at, num) \in Seq(Nat)
    BY <2>1
  <2> QED
    BY <2>2, <2>3
<1>3. ASSUME m = 0 PROVE Taken(regs, at, m) = <<>>
  BY <1>2, <1>3
<1>4. ASSUME m > 0 PROVE regs[at + (m - 1)] \in Nat
  BY <1>4, InWord
<1>5. ASSUME m > 0
      PROVE Taken(regs, at, m) = Append(Taken(regs, at, m - 1), regs[at + (m - 1)])
  <2> DEFINE t == Taken(regs, at, m)
             u == Taken(regs, at, m - 1)
             x == regs[at + (m - 1)]
  <2>1. m - 1 \in Nat /\ m - 1 <= m
    BY <1>5
  <2>2. t \in Seq(Nat) /\ Len(t) = m /\ u \in Seq(Nat) /\ Len(u) = m - 1 /\ x \in Nat
    BY <1>2, <1>4, <1>5, <2>1
  <2>3. \A c \in 1 .. m : t[c] = regs[(at + c) - 1]
    BY DEF Taken
  <2>4. \A c \in 1 .. m - 1 : u[c] = regs[(at + c) - 1]
    BY DEF Taken
  <2>5. x = regs[(at + m) - 1]
    BY <2>1
  <2> HIDE DEF t, u, x
  <2>6. \A c \in 1 .. m : t[c] = IF c < m THEN u[c] ELSE x
    BY <2>3, <2>4, <2>5
  <2>7. t = Append(u, x)
    BY <2>1, <2>2, <2>6
  <2> QED
    BY <2>7 DEF t, u, x
<1> QED
  BY <1>2, <1>3, <1>4, <1>5 DEF Further

(* What has been said with what m registers from one on hold. *)
SaidMore(said, regs, at, m) == said \o Taken(regs, at, m)

LEMMA SaidMoreType ==
  ASSUME NEW said \in Seq(Nat), NEW regs \in [Word -> Nat], NEW at \in Nat,
         NEW m \in Nat, at + m <= 512
  PROVE  SaidMore(said, regs, at, m) \in Seq(Nat)
<1>1. Taken(regs, at, m) \in Seq(Nat)
  BY TakenIs
<1> QED
  BY <1>1 DEF SaidMore

LEMMA SaidMoreNone ==
  ASSUME NEW said \in Seq(Nat), NEW regs \in [Word -> Nat], NEW at \in Nat, at <= 512
  PROVE  SaidMore(said, regs, at, 0) = said
<1>1. Taken(regs, at, 0) = <<>>
  <2>1. 0 \in Nat /\ at + 0 <= 512
    OBVIOUS
  <2> QED
    BY <2>1, TakenIs
<1>2. said \o <<>> = said
  OBVIOUS
<1> QED
  BY <1>1, <1>2 DEF SaidMore

LEMMA SaidMoreOne ==
  ASSUME NEW said \in Seq(Nat), NEW regs \in [Word -> Nat], NEW at \in Nat,
         NEW m \in Nat, m > 0, at + m <= 512
  PROVE  Further(SaidMore(said, regs, at, m - 1), regs[at + (m - 1)])
           = SaidMore(said, regs, at, m)
<1> DEFINE t == Taken(regs, at, m - 1)
           x == regs[at + (m - 1)]
<1>1. m - 1 \in Nat /\ at + (m - 1) <= 512
  OBVIOUS
<1>2. t \in Seq(Nat)
  BY <1>1, TakenIs
<1>3. x \in Nat /\ Taken(regs, at, m) = Further(t, x)
  BY TakenIs
<1>4. SaidMore(said, regs, at, m - 1) = said \o t
      /\ SaidMore(said, regs, at, m) = said \o Taken(regs, at, m)
  BY DEF SaidMore
<1> HIDE DEF t
<1>5. Further(said \o t, x) = said \o Further(t, x)
  <2> HIDE DEF x
  <2> QED
    BY <1>2, <1>3, AppendConcat
<1> QED
  BY <1>3, <1>4, <1>5

LEMMA GiveRun ==
  ASSUME NEW d \in Devices, NEW m \in Nat, d.at + m <= 512, PlainToGive(d, m)
  PROVE  GiveAll(d, m) = Become(d, d.at + m, d.regs, d.dmp, d.fifo,
                                SaidMore(d.said, d.regs, d.at, m))
<1> DEFINE T(k) == SaidMore(d.said, d.regs, d.at, k)
           At(k) == Become(d, d.at + k, d.regs, d.dmp, d.fifo, T(k))
           e == [k \in 0 .. m |-> At(k)]
<1>2. /\ d.at \in Nat /\ d.regs \in [Word -> Nat] /\ d.chip \in BOOLEAN
      /\ d.dmp \in Seq(Nat \X Nat) /\ d.fifo \in Seq(Nat) /\ d.said \in Seq(Nat)
  BY DeviceHas
<1>3. ASSUME NEW k \in 0 .. m PROVE T(k) \in Seq(Nat)
  <2>1. k \in Nat /\ d.at + k <= 512
    BY <1>2
  <2> QED
    BY <1>2, <2>1, SaidMoreType
<1>4. ASSUME NEW k \in 0 .. m
      PROVE  /\ At(k) \in Devices /\ At(k).at = d.at + k /\ At(k).chip = d.chip
             /\ At(k).regs = d.regs /\ At(k).dmp = d.dmp /\ At(k).fifo = d.fifo
             /\ At(k).said = T(k)
             /\ \A at1, regs1, dmp1, fifo1, said1 :
                  Become(At(k), at1, regs1, dmp1, fifo1, said1)
                    = Become(d, at1, regs1, dmp1, fifo1, said1)
  <2>1. d.at + k \in Nat /\ T(k) \in Seq(Nat)
    BY <1>2, <1>3
  <2> HIDE DEF T
  <2>2. At(k) \in Devices
    BY <1>2, <2>1, StaysDevice
  <2> QED
    BY <2>2, Becomes
<1>5. At(0) = d
  <2>1. 0 \in Nat /\ d.at + 0 <= 512 /\ d.at + 0 = d.at
    BY <1>2
  <2>2. T(0) = d.said
    BY <1>2, <2>1, SaidMoreNone
  <2> HIDE DEF T
  <2> QED
    BY <2>1, <2>2, DeviceHas
<1>6. ASSUME NEW k \in 1 .. m PROVE Give(At(k - 1)) = At(k)
  <2>1. k - 1 \in 0 .. m /\ k \in 0 .. m
    OBVIOUS
  <2>2. d.at <= d.at + (k - 1) /\ d.at + (k - 1) < d.at + m
    BY <1>2
  <2>3. d.chip => d.at + (k - 1) \notin {114, 115, 116}
    BY <2>2 DEF PlainToGive
  <2>5. Further(T(k - 1), d.regs[d.at + (k - 1)]) = T(k)
    <3>1. k \in Nat /\ k > 0 /\ d.at + k <= 512
      BY <1>2
    <3> QED
      BY <1>2, <3>1, SaidMoreOne
  <2>6. (d.at + (k - 1)) + 1 = d.at + k
    BY <1>2
  <2> HIDE DEF At, T
  <2>4. Give(At(k - 1))
          = Become(d, (d.at + (k - 1)) + 1, d.regs, d.dmp, d.fifo,
                   Further(T(k - 1), d.regs[d.at + (k - 1)]))
    BY <1>4, <2>1, <2>3, GiveOne
  <2> QED
    BY <2>4, <2>5, <2>6 DEF At
<1>7. e[0] = d /\ \A k \in 1 .. m : Give(e[k - 1]) = e[k]
  <2>1. \A k \in 0 .. m : e[k] = At(k)
    OBVIOUS
  <2>2. \A k \in 1 .. m : k - 1 \in 0 .. m /\ k \in 0 .. m
    OBVIOUS
  <2>3. 0 \in 0 .. m
    OBVIOUS
  <2> HIDE DEF At, e
  <2> QED
    BY <1>5, <1>6, <2>1, <2>2, <2>3
<1>8. GiveAll(d, m) = e[m]
  <2> HIDE DEF e
  <2> QED
    BY <1>7, GiveAllIs
<1>9. e[m] = At(m)
  OBVIOUS
<1> QED
  BY <1>8, <1>9

-----------------------------------------------------------------------------
(* One transfer, or two. *)
LEMMA TalkNone ==
  ASSUME NEW d
  PROVE  Talk(d, <<>>) = d
<1> DEFINE none == <<>>
           last == 0
           e == [k \in 0 .. 0 |-> d]
<1>1. e[last] = d /\ e[0] = d
  OBVIOUS
<1>2. \A k \in 1 .. last : Meets(e[k - 1], none[k]) = e[k]
  OBVIOUS
<1>3. last \in Nat /\ Len(none) = last
  OBVIOUS
<1> HIDE DEF e, none, last
<1>4. Talk(d, none) = e[last]
  BY <1>1, <1>2, <1>3, TalkIs
<1> QED
  BY <1>1, <1>4 DEF none

LEMMA TalkOne ==
  ASSUME NEW d, NEW x
  PROVE  Talk(d, <<x>>) = Meets(d, x)
<1> DEFINE e == [k \in 0 .. 1 |-> IF k = 0 THEN d ELSE Meets(d, x)]
           w == <<x>>
<1>1. e[0] = d /\ e[1] = Meets(d, x)
  OBVIOUS
<1>2. Len(w) = 1 /\ 1 \in Nat /\ w[1] = x
  OBVIOUS
<1> HIDE DEF e, w
<1>3. \A k \in 1 .. 1 : Meets(e[k - 1], w[k]) = e[k]
  <2>1. \A k \in 1 .. 1 : k = 1 /\ k - 1 = 0
    OBVIOUS
  <2> QED
    BY <1>1, <1>2, <2>1
<1> DEFINE m == 1
<1>4. m \in Nat /\ Len(w) = m /\ \A k \in 1 .. m : Meets(e[k - 1], w[k]) = e[k]
  BY <1>2, <1>3
<1>5. e[m] = e[1]
  OBVIOUS
<1> HIDE DEF m
<1>6. Talk(d, w) = e[m]
  BY <1>1, <1>4, TalkIs
<1> QED
  BY <1>1, <1>5, <1>6 DEF w

LEMMA TalkTwo ==
  ASSUME NEW d, NEW x, NEW y
  PROVE  Talk(d, <<x, y>>) = Meets(Meets(d, x), y)
<1> DEFINE e == [k \in 0 .. 2 |-> IF k = 0 THEN d ELSE IF k = 1 THEN Meets(d, x)
                                  ELSE Meets(Meets(d, x), y)]
           w == <<x, y>>
<1>1. e[0] = d /\ e[1] = Meets(d, x) /\ e[2] = Meets(Meets(d, x), y)
  OBVIOUS
<1>2. Len(w) = 2 /\ 2 \in Nat /\ w[1] = x /\ w[2] = y
  OBVIOUS
<1> HIDE DEF e, w
<1>3. \A k \in 1 .. 2 : Meets(e[k - 1], w[k]) = e[k]
  <2>1. \A k \in 1 .. 2 : \/ k = 1 /\ k - 1 = 0
                          \/ k = 2 /\ k - 1 = 1
    OBVIOUS
  <2> QED
    BY <1>1, <1>2, <2>1
<1> DEFINE m == 2
<1>4. m \in Nat /\ Len(w) = m /\ \A k \in 1 .. m : Meets(e[k - 1], w[k]) = e[k]
  BY <1>2, <1>3
<1>5. e[m] = e[2]
  OBVIOUS
<1> HIDE DEF m
<1>6. Talk(d, w) = e[m]
  BY <1>1, <1>4, TalkIs
<1> QED
  BY <1>1, <1>5, <1>6 DEF w

-----------------------------------------------------------------------------
(* A message or an exchange. *)
LEMMA NotForIt ==
  ASSUME NEW d, NEW addr, NEW bytes, NEW len, addr \div 2 # d.addr
  PROVE  Meets(d, Send(addr, bytes)) = d /\ Meets(d, Receive(addr, len)) = d
BY DEF Meets, Message, Send, Receive

LEMMA EndOf ==
  ASSUME NEW s, NEW m \in Nat, NEW p \in Nat, \A k \in 1 .. p : s[m + k] \in Nat
  PROVE  LET t == SubSeq(s, m + 1, m + p)
         IN  t \in Seq(Nat) /\ Len(t) = p /\ \A k \in 1 .. p : t[k] = s[m + k]
<1> DEFINE a == m + 1
           b == m + p
<1>1. a \in Int /\ b \in Int /\ (b - a) + 1 = p /\ (a <= b <=> p > 0)
  OBVIOUS
<1>2. ASSUME NEW k \in a .. b PROVE s[k] \in Nat
  <2>1. k - m \in 1 .. p /\ m + (k - m) = k
    OBVIOUS
  <2> QED
    BY <2>1
<1>3. \A k \in 1 .. p : (a + k) - 1 = m + k
  OBVIOUS
<1> DEFINE t == SubSeq(s, a, b)
<1> HIDE DEF a, b
<1>4. /\ t \in Seq(Nat) /\ Len(t) = IF a <= b THEN (b - a) + 1 ELSE 0
      /\ \A k \in 1 .. (b - a) + 1 : t[k] = s[(a + k) - 1]
  BY <1>1, <1>2
<1> HIDE DEF t
<1>5. Len(t) = p /\ \A k \in 1 .. p : t[k] = s[m + k]
  <2>1. Len(t) = IF p > 0 THEN p ELSE 0
    BY <1>1, <1>4
  <2>2. \A k \in 1 .. p : t[k] = s[(a + k) - 1]
    BY <1>1, <1>4
  <2>3. \A k \in 1 .. p : t[k] = s[m + k]
    BY <1>3, <2>2
  <2> QED
    BY <2>1, <2>3
<1> QED
  BY <1>4, <1>5 DEF t, a, b

LEMMA BytesAfter ==
  ASSUME NEW head \in Seq(Nat), NEW tail \in Seq(Nat)
  PROVE  /\ head \o tail \in Seq(Nat) /\ Len(head \o tail) = Len(head) + Len(tail)
         /\ SubSeq(head \o tail, Len(head) + 1, Len(head \o tail)) = tail
         /\ \A k \in 1 .. Len(head) : (head \o tail)[k] = head[k]
<1> DEFINE s == head \o tail
           t == SubSeq(s, Len(head) + 1, Len(s))
<1>1. s \in Seq(Nat) /\ Len(s) = Len(head) + Len(tail) /\ Len(head) \in Nat /\ Len(tail) \in Nat
  OBVIOUS
<1>2. \A k \in 1 .. Len(head) : s[k] = head[k]
  OBVIOUS
<1>3. \A k \in 1 .. Len(tail) : s[Len(head) + k] = tail[k]
  BY <1>1
<1> HIDE DEF s
<1>4. t \in Seq(Nat) /\ Len(t) = Len(tail) /\ \A k \in 1 .. Len(tail) : t[k] = s[Len(head) + k]
  <2>1. \A k \in 1 .. Len(tail) : s[Len(head) + k] \in Nat
    BY <1>3
  <2>2. t = SubSeq(s, Len(head) + 1, Len(head) + Len(tail))
    BY <1>1
  <2> HIDE DEF t
  <2> QED
    BY <1>1, <2>1, <2>2, EndOf, ZenonT(60)
<1>5. t = tail
  <2> HIDE DEF t
  <2>1. \A k \in 1 .. Len(t) : t[k] = tail[k]
    BY <1>3, <1>4
  <2> QED
    BY <1>4, <2>1, SeqEqual
<1> QED
  BY <1>1, <1>2, <1>5 DEF s

LEMMA ToRegister ==
  ASSUME NEW d \in Devices, NEW reg \in Word
  PROVE  LET to == [d EXCEPT !.at = reg]
         IN  /\ to = Become(d, reg, d.regs, d.dmp, d.fifo, d.said) /\ to \in Devices
             /\ to.at = reg /\ to.regs = d.regs /\ to.chip = d.chip
             /\ to.said = d.said /\ to.dmp = d.dmp /\ to.fifo = d.fifo
<1>1. reg \in Nat
  BY InWord
<1>2. [d EXCEPT !.at = reg] = Become(d, reg, d.regs, d.dmp, d.fifo, d.said)
  <2>1. [Become(d, d.at, d.regs, d.dmp, d.fifo, d.said) EXCEPT !.at = reg]
          = Become(d, reg, d.regs, d.dmp, d.fifo, d.said)
    BY DEF Become
  <2>2. d = Become(d, d.at, d.regs, d.dmp, d.fifo, d.said)
    BY DeviceHas
  <2> QED
    BY <2>1, <2>2
<1> DEFINE to == [d EXCEPT !.at = reg]
<1> HIDE DEF to
<1>3. to = Become(d, reg, d.regs, d.dmp, d.fifo, d.said)
  BY <1>2 DEF to
<1>4. to \in Devices
  BY <1>1, <1>3, DeviceHas, StaysDevice
<1>5. /\ to.at = reg /\ to.regs = d.regs /\ to.chip = d.chip
      /\ to.said = d.said /\ to.dmp = d.dmp /\ to.fifo = d.fifo
  BY <1>3, Becomes
<1> QED
  BY <1>3, <1>4, <1>5 DEF to

LEMMA SentThere ==
  ASSUME NEW d \in Devices, d.width = 1, NEW addr, addr \div 2 = d.addr,
         NEW reg \in Word, NEW buf \in Seq(Nat)
  PROVE  Meets(d, Send(addr, <<reg>> \o buf)) = PutAll([d EXCEPT !.at = reg], buf)
<1> DEFINE s == <<reg>> \o buf
<1>1. reg \in Nat
  BY InWord
<1>2. <<reg>> \in Seq(Nat) /\ Len(<<reg>>) = 1 /\ <<reg>>[1] = reg /\ 1 \in 1 .. 1
  BY <1>1
<1>3. SubSeq(s, 1 + 1, Len(s)) = buf /\ s[1] = reg
  BY <1>2, BytesAfter
<1> HIDE DEF s
<1>4. Meets(d, Send(addr, s)) = PutAll([d EXCEPT !.at = s[1]], SubSeq(s, 1 + 1, Len(s)))
  BY DEF Meets, Message, Send
<1> QED
  BY <1>3, <1>4 DEF s

LEMMA SentThere16 ==
  ASSUME NEW d \in Devices, d.width = 2, NEW addr, addr \div 2 = d.addr,
         NEW reg \in Word, NEW buf \in Seq(Nat)
  PROVE  Meets(d, Send(addr, <<High(reg), Low(reg)>> \o buf))
           = PutAll([d EXCEPT !.at = reg], buf)
<1> DEFINE h == <<High(reg), Low(reg)>>
           s == h \o buf
<1>1. reg \in Nat /\ reg < 512
  BY InWord
<1>2. High(reg) \in Nat /\ Low(reg) \in Nat /\ 256 * High(reg) + Low(reg) = reg
  BY <1>1 DEF High, Low
<1>3. h \in Seq(Nat) /\ Len(h) = 2 /\ h[1] = High(reg) /\ h[2] = Low(reg)
  BY <1>2
<1> HIDE DEF h
<1>4. SubSeq(s, 2 + 1, Len(s)) = buf /\ s[1] = High(reg) /\ s[2] = Low(reg)
  <2>1. 1 \in 1 .. 2 /\ 2 \in 1 .. 2
    OBVIOUS
  <2> QED
    BY <1>3, <2>1, BytesAfter
<1> HIDE DEF s
<1>5. Meets(d, Send(addr, s))
        = PutAll([d EXCEPT !.at = 256 * s[1] + s[2]], SubSeq(s, 2 + 1, Len(s)))
  BY DEF Meets, Message, Send
<1> QED
  BY <1>2, <1>4, <1>5 DEF s, h

LEMMA AskedAt ==
  ASSUME NEW d, NEW addr, addr \div 2 = d.addr, NEW len
  PROVE  Meets(d, Receive(addr, len)) = GiveAll(d, len)
BY DEF Meets, Message, Receive

(* What the device takes, and gives, from a register on, whatever it said. *)
TakesAt(d, reg, buf, at1, regs1, dmp1, fifo1) ==
  \A said \in Seq(Nat) :
    PutAll(Become(d, reg, d.regs, d.dmp, d.fifo, said), buf)
      = Become(d, at1, regs1, dmp1, fifo1, said)
GivesAt(d, reg, len, bytes, at1, regs1, dmp1, fifo1) ==
  \A said \in Seq(Nat) :
    GiveAll(Become(d, reg, d.regs, d.dmp, d.fifo, said), len)
      = Become(d, at1, regs1, dmp1, fifo1, said \o bytes)

LEMMA HeldThere ==
  ASSUME NEW d \in Devices, NEW reg \in Word, NEW buf \in Seq(Nat),
         reg + Len(buf) <= 512,
         d.chip => \A r \in {107, 111, 116} : ~(reg <= r /\ r < reg + Len(buf))
  PROVE  TakesAt(d, reg, buf, reg + Len(buf), Over(d.regs, reg, buf, Len(buf)),
                 d.dmp, d.fifo)
<1> SUFFICES ASSUME NEW said \in Seq(Nat)
             PROVE PutAll(Become(d, reg, d.regs, d.dmp, d.fifo, said), buf)
                     = Become(d, reg + Len(buf), Over(d.regs, reg, buf, Len(buf)),
                              d.dmp, d.fifo, said)
  BY DEF TakesAt
<1> DEFINE to == Become(d, reg, d.regs, d.dmp, d.fifo, said)
<1>1. to \in Devices
  BY InWord, DeviceHas, StaysDevice
<1>2. /\ to.at = reg /\ to.regs = d.regs /\ to.chip = d.chip
      /\ to.said = said /\ to.dmp = d.dmp /\ to.fifo = d.fifo
  BY Becomes
<1> HIDE DEF to
<1>3. PlainToPut(to, Len(buf)) /\ to.at + Len(buf) <= 512
  BY <1>2 DEF PlainToPut
<1>4. PutAll(to, buf) = Become(to, to.at + Len(buf), Over(to.regs, to.at, buf, Len(buf)),
                               to.dmp, to.fifo, to.said)
  BY <1>1, <1>3, PutRun
<1>5. PutAll(to, buf) = Become(to, reg + Len(buf), Over(d.regs, reg, buf, Len(buf)),
                               d.dmp, d.fifo, said)
  BY <1>2, <1>4
<1>6. PutAll(to, buf) = Become(d, reg + Len(buf), Over(d.regs, reg, buf, Len(buf)),
                               d.dmp, d.fifo, said)
  BY <1>5, Becomes DEF to
<1> QED
  BY <1>6 DEF to

LEMMA FoundThere ==
  ASSUME NEW d \in Devices, NEW reg \in Word, NEW len \in Nat, reg + len <= 512,
         d.chip => \A r \in {114, 115, 116} : ~(reg <= r /\ r < reg + len)
  PROVE  GivesAt(d, reg, len, Taken(d.regs, reg, len), reg + len, d.regs, d.dmp, d.fifo)
<1> SUFFICES ASSUME NEW said \in Seq(Nat)
             PROVE GiveAll(Become(d, reg, d.regs, d.dmp, d.fifo, said), len)
                     = Become(d, reg + len, d.regs, d.dmp, d.fifo,
                              SaidMore(said, d.regs, reg, len))
  BY DEF GivesAt, SaidMore
<1> DEFINE to == Become(d, reg, d.regs, d.dmp, d.fifo, said)
<1>1. to \in Devices
  BY InWord, DeviceHas, StaysDevice
<1>2. /\ to.at = reg /\ to.regs = d.regs /\ to.chip = d.chip
      /\ to.said = said /\ to.dmp = d.dmp /\ to.fifo = d.fifo
  BY Becomes
<1> HIDE DEF to
<1>3. PlainToGive(to, len) /\ to.at + len <= 512
  BY <1>2 DEF PlainToGive
<1>4. GiveAll(to, len) = Become(to, to.at + len, to.regs, to.dmp, to.fifo,
                                SaidMore(to.said, to.regs, to.at, len))
  BY <1>1, <1>3, GiveRun
<1>5. GiveAll(to, len) = Become(to, reg + len, d.regs, d.dmp, d.fifo,
                                SaidMore(said, d.regs, reg, len))
  BY <1>2, <1>4
<1>6. GiveAll(to, len) = Become(d, reg + len, d.regs, d.dmp, d.fifo,
                                SaidMore(said, d.regs, reg, len))
  BY <1>5, Becomes DEF to
<1> QED
  BY <1>6 DEF to

LEMMA NothingTaken ==
  ASSUME NEW d
  PROVE  PutAll(d, <<>>) = d
<1> DEFINE none == <<>>
           last == 0
           e == [k \in 0 .. 0 |-> d]
<1>1. e[last] = d /\ e[0] = d
  OBVIOUS
<1>2. \A k \in 1 .. last : Put(e[k - 1], none[k]) = e[k]
  OBVIOUS
<1>3. last \in Nat /\ Len(none) = last
  OBVIOUS
<1> HIDE DEF e, none, last
<1>4. PutAll(d, none) = e[last]
  BY <1>1, <1>2, <1>3, PutAllIs
<1> QED
  BY <1>1, <1>4 DEF none

-----------------------------------------------------------------------------
(* The transfers, over I2C and over SPI. *)
LEMMA IicWriteDoes ==
  ASSUME NEW d \in Devices, d.width = 1, NEW addr, addr \div 2 = d.addr,
         NEW reg \in Word, NEW buf \in Seq(Nat), NEW at1, NEW regs1, NEW dmp1, NEW fifo1,
         TakesAt(d, reg, buf, at1, regs1, dmp1, fifo1)
  PROVE  Meets(d, Send(addr, <<reg>> \o buf)) = Become(d, at1, regs1, dmp1, fifo1, d.said)
<1> DEFINE to == [d EXCEPT !.at = reg]
<1>1. to = Become(d, reg, d.regs, d.dmp, d.fifo, d.said)
  BY ToRegister
<1>2. Meets(d, Send(addr, <<reg>> \o buf)) = PutAll(to, buf)
  BY SentThere
<1> HIDE DEF to
<1>3. d.said \in Seq(Nat)
  BY DeviceHas
<1> QED
  BY <1>1, <1>2, <1>3 DEF TakesAt

LEMMA IicWrite16Does ==
  ASSUME NEW d \in Devices, d.width = 2, NEW addr, addr \div 2 = d.addr,
         NEW reg \in Word, NEW buf \in Seq(Nat), NEW at1, NEW regs1, NEW dmp1, NEW fifo1,
         TakesAt(d, reg, buf, at1, regs1, dmp1, fifo1)
  PROVE  Meets(d, Send(addr, <<High(reg), Low(reg)>> \o buf))
           = Become(d, at1, regs1, dmp1, fifo1, d.said)
<1> DEFINE to == [d EXCEPT !.at = reg]
<1>1. to = Become(d, reg, d.regs, d.dmp, d.fifo, d.said)
  BY ToRegister
<1>2. Meets(d, Send(addr, <<High(reg), Low(reg)>> \o buf)) = PutAll(to, buf)
  BY SentThere16
<1> HIDE DEF to
<1>3. d.said \in Seq(Nat)
  BY DeviceHas
<1> QED
  BY <1>1, <1>2, <1>3 DEF TakesAt

LEMMA PointedAt ==
  ASSUME NEW d \in Devices, NEW reg \in Word, NEW addr, addr \div 2 = d.addr
  PROVE  /\ d.width = 1 => Meets(d, Send(addr, <<reg>>))
                             = Become(d, reg, d.regs, d.dmp, d.fifo, d.said)
         /\ d.width = 2 => Meets(d, Send(addr, <<High(reg), Low(reg)>>))
                             = Become(d, reg, d.regs, d.dmp, d.fifo, d.said)
<1> DEFINE to == [d EXCEPT !.at = reg]
<1>1. to = Become(d, reg, d.regs, d.dmp, d.fifo, d.said)
  BY ToRegister
<1>2. PutAll(to, <<>>) = to
  BY NothingTaken
<1>3. <<reg>> \o <<>> = <<reg>> /\ <<High(reg), Low(reg)>> \o <<>> = <<High(reg), Low(reg)>>
      /\ <<>> \in Seq(Nat)
  OBVIOUS
<1>4. d.width = 1 => Meets(d, Send(addr, <<reg>> \o <<>>)) = PutAll(to, <<>>)
  BY <1>3, SentThere, ZenonT(60)
<1>5. d.width = 2 => Meets(d, Send(addr, <<High(reg), Low(reg)>> \o <<>>)) = PutAll(to, <<>>)
  BY <1>3, SentThere16, ZenonT(60)
<1> HIDE DEF to
<1> QED
  BY <1>1, <1>2, <1>3, <1>4, <1>5

LEMMA IicReadDoes ==
  ASSUME NEW d \in Devices, NEW addr, addr \div 2 = d.addr, NEW reg \in Word, NEW len,
         NEW bytes, NEW at1, NEW regs1, NEW dmp1, NEW fifo1,
         GivesAt(d, reg, len, bytes, at1, regs1, dmp1, fifo1)
  PROVE  Meets(Become(d, reg, d.regs, d.dmp, d.fifo, d.said), Receive(addr, len))
           = Become(d, at1, regs1, dmp1, fifo1, d.said \o bytes)
<1> DEFINE to == Become(d, reg, d.regs, d.dmp, d.fifo, d.said)
<1>1. to.addr = d.addr
  BY Becomes
<1>2. d.said \in Seq(Nat)
  BY DeviceHas
<1> HIDE DEF to
<1>3. Meets(to, Receive(addr, len)) = GiveAll(to, len)
  BY <1>1, AskedAt
<1>4. GiveAll(to, len) = Become(d, at1, regs1, dmp1, fifo1, d.said \o bytes)
  BY <1>2 DEF GivesAt, to
<1> QED
  BY <1>3, <1>4 DEF to

LEMMA ReadsOverIic ==
  ASSUME NEW d \in Devices, NEW addr, addr \div 2 = d.addr, NEW reg \in Word, NEW len,
         NEW bytes, NEW at1, NEW regs1, NEW dmp1, NEW fifo1,
         GivesAt(d, reg, len, bytes, at1, regs1, dmp1, fifo1)
  PROVE  /\ d.width = 1 => Talk(d, IicRead(addr, reg, len))
                             = Become(d, at1, regs1, dmp1, fifo1, d.said \o bytes)
         /\ d.width = 2 => Talk(d, IicReadAddress16(addr, reg, len))
                             = Become(d, at1, regs1, dmp1, fifo1, d.said \o bytes)
<1> DEFINE to == Become(d, reg, d.regs, d.dmp, d.fifo, d.said)
<1>1. Meets(to, Receive(addr, len)) = Become(d, at1, regs1, dmp1, fifo1, d.said \o bytes)
  BY IicReadDoes
<1>2. /\ d.width = 1 => Meets(d, Send(addr, <<reg>>)) = to
      /\ d.width = 2 => Meets(d, Send(addr, <<High(reg), Low(reg)>>)) = to
  BY PointedAt
<1> HIDE DEF to
<1>3. /\ Talk(d, <<Send(addr, <<reg>>), Receive(addr, len)>>)
           = Meets(Meets(d, Send(addr, <<reg>>)), Receive(addr, len))
      /\ Talk(d, <<Send(addr, <<High(reg), Low(reg)>>), Receive(addr, len)>>)
           = Meets(Meets(d, Send(addr, <<High(reg), Low(reg)>>)), Receive(addr, len))
  BY TalkTwo
<1> QED
  BY <1>1, <1>2, <1>3 DEF IicRead, IicReadAddress16

LEMMA WritesOverIic ==
  ASSUME NEW d \in Devices, NEW addr, addr \div 2 = d.addr,
         NEW reg \in Word, NEW buf \in Seq(Nat), NEW at1, NEW regs1, NEW dmp1, NEW fifo1,
         TakesAt(d, reg, buf, at1, regs1, dmp1, fifo1)
  PROVE  /\ d.width = 1 => Talk(d, IicWrite(addr, reg, buf))
                             = Become(d, at1, regs1, dmp1, fifo1, d.said)
         /\ d.width = 2 => Talk(d, IicWriteAddress16(addr, reg, buf))
                             = Become(d, at1, regs1, dmp1, fifo1, d.said)
<1>1. /\ d.width = 1 => Meets(d, Send(addr, <<reg>> \o buf))
                          = Become(d, at1, regs1, dmp1, fifo1, d.said)
      /\ d.width = 2 => Meets(d, Send(addr, <<High(reg), Low(reg)>> \o buf))
                          = Become(d, at1, regs1, dmp1, fifo1, d.said)
  BY IicWriteDoes, IicWrite16Does
<1>2. /\ Talk(d, IicWrite(addr, reg, buf)) = Meets(d, Send(addr, <<reg>> \o buf))
      /\ Talk(d, IicWriteAddress16(addr, reg, buf))
           = Meets(d, Send(addr, <<High(reg), Low(reg)>> \o buf))
  BY TalkOne DEF IicWrite, IicWriteAddress16
<1> QED
  BY <1>1, <1>2

LEMMA PairIs ==
  ASSUME NEW x, NEW y
  PROVE  <<x>> \o <<y>> = <<x, y>>
<1> DEFINE S == {x, y}
           s == <<x>>
           t == <<y>>
           p == <<x, y>>
<1>1. /\ s \in Seq(S) /\ t \in Seq(S) /\ p \in Seq(S)
      /\ Len(s) = 1 /\ Len(t) = 1 /\ Len(p) = 2
      /\ s[1] = x /\ t[1] = y /\ p[1] = x /\ p[2] = y
  OBVIOUS
<1> HIDE DEF s, t, p, S
<1>2. /\ s \o t \in Seq(S) /\ Len(s \o t) = Len(s) + Len(t)
      /\ \A k \in 1 .. Len(s) + Len(t) :
           (s \o t)[k] = IF k <= Len(s) THEN s[k] ELSE t[k - Len(s)]
  BY <1>1, ConcatProperties
<1>3. (s \o t)[1] = x /\ (s \o t)[2] = y /\ Len(s \o t) = 2
  BY <1>1, <1>2
<1>4. \A k \in 1 .. Len(p) : p[k] = (s \o t)[k]
  <2>1. \A k \in 1 .. 2 : k = 1 \/ k = 2
    OBVIOUS
  <2> QED
    BY <1>1, <1>3, <2>1
<1>5. p = s \o t
  BY <1>1, <1>2, <1>3, <1>4, SeqEqual
<1> QED
  BY <1>5 DEF s, t, p

(* A device of another address, whatever is asked of it. *)
LEMMA NotOverIic ==
  ASSUME NEW d, NEW addr, addr \div 2 # d.addr, NEW reg, NEW buf, NEW len
  PROVE  /\ Talk(d, IicWrite(addr, reg, buf)) = d
         /\ Talk(d, IicWriteAddress16(addr, reg, buf)) = d
         /\ Talk(d, IicWriteCmd(addr, buf)) = d
         /\ Talk(d, IicRead(addr, reg, len)) = d
         /\ Talk(d, IicReadAddress16(addr, reg, len)) = d
         /\ Talk(d, IicReadCmd(addr, len)) = d
         /\ Talk(d, WriteMem(addr, reg, buf)) = d
<1>1. \A bytes, num : Meets(d, Send(addr, bytes)) = d /\ Meets(d, Receive(addr, num)) = d
  BY NotForIt
<1>2. ASSUME NEW bytes PROVE Talk(d, <<Send(addr, bytes)>>) = d
  BY <1>1, TalkOne
<1>3. Talk(d, <<Receive(addr, len)>>) = d
  BY <1>1, TalkOne
<1>4. ASSUME NEW x, NEW y, Meets(d, x) = d, Meets(d, y) = d PROVE Talk(d, <<x, y>>) = d
  BY <1>4, TalkTwo
<1>5. Talk(d, WriteMem(addr, reg, buf)) = d
  <2> DEFINE x == Send(addr, << 109 >> \o <<High(reg), Low(reg)>>)
             y == Send(addr, << 111 >> \o buf)
  <2>1. Meets(d, x) = d /\ Meets(d, y) = d
    BY <1>1
  <2>2. \/ WriteMem(addr, reg, buf) = <<>>
        \/ WriteMem(addr, reg, buf) = <<x>> \o <<y>>
    <3> DEFINE w == <<x>> \o <<y>>
    <3>1. WriteMem(addr, reg, buf) = IF Low(reg) + Len(buf) > 256 THEN <<>> ELSE w
      BY DEF WriteMem, IicWrite
    <3> HIDE DEF w
    <3>2. WriteMem(addr, reg, buf) = <<>> \/ WriteMem(addr, reg, buf) = w
      BY <3>1
    <3> QED
      BY <3>2 DEF w
  <2> HIDE DEF x, y
  <2>3. <<x>> \o <<y>> = <<x, y>>
    BY PairIs
  <2>4. Talk(d, <<x, y>>) = d /\ Talk(d, <<>>) = d
    BY <1>4, <2>1, TalkNone
  <2> QED
    BY <2>2, <2>3, <2>4
<1>6. Talk(d, IicRead(addr, reg, len)) = d /\ Talk(d, IicReadAddress16(addr, reg, len)) = d
  BY <1>1, <1>4 DEF IicRead, IicReadAddress16
<1>7. /\ Talk(d, IicWrite(addr, reg, buf)) = d /\ Talk(d, IicWriteAddress16(addr, reg, buf)) = d
      /\ Talk(d, IicWriteCmd(addr, buf)) = d
  BY <1>2 DEF IicWrite, IicWriteAddress16, IicWriteCmd
<1> QED
  BY <1>3, <1>5, <1>6, <1>7 DEF IicReadCmd

(* The device when it knows the register; and when it has said this, of which
   what comes after the first skip bytes is kept. *)
SpiAt(d, reg) == [d EXCEPT !.at = reg, !.said = <<Noise>>]
Keeps(d, after, skip) ==
  [after EXCEPT !.said = d.said \o SubSeq(@, skip + 1, Len(@))]
Noises(d, out) == [d EXCEPT !.said = [k \in DOMAIN out |-> Noise]]

LEMMA SpiParts ==
  ASSUME NEW d, NEW out, NEW skip
  PROVE  SpiTalk(d, Exchange(out, skip))
           = Keeps(d, IF out[1] >= 128
                        THEN GiveAll(SpiAt(d, out[1] % 128), Len(out) - 1)
                        ELSE Noises(PutAll(SpiAt(d, out[1] % 128), Tail(out)), out),
                   skip)
<1>1. Exchange(out, skip).out = out /\ Exchange(out, skip).skip = skip
  BY DEF Exchange
<1>2. SpiTalk(d, Exchange(out, skip))
        = Keeps(d, IF Exchange(out, skip).out[1] >= 128
                     THEN GiveAll(SpiAt(d, Exchange(out, skip).out[1] % 128),
                                  Len(Exchange(out, skip).out) - 1)
                     ELSE Noises(PutAll(SpiAt(d, Exchange(out, skip).out[1] % 128),
                                        Tail(Exchange(out, skip).out)),
                                 Exchange(out, skip).out),
                Exchange(out, skip).skip)
  BY DEF SpiTalk, Keeps, SpiAt, Noises
<1> QED
  BY <1>1, <1>2

LEMMA SaysInstead ==
  ASSUME NEW d, NEW at, NEW regs, NEW dmp, NEW fifo, NEW said, NEW said1
  PROVE  [Become(d, at, regs, dmp, fifo, said) EXCEPT !.said = said1]
           = Become(d, at, regs, dmp, fifo, said1)
BY DEF Become

LEMMA SpiStarts ==
  ASSUME NEW d \in Devices, NEW reg \in Word, reg < 128
  PROVE  SpiAt(d, reg) = Become(d, reg, d.regs, d.dmp, d.fifo, <<Noise>>)
<1>2. [d EXCEPT !.at = reg] = Become(d, reg, d.regs, d.dmp, d.fifo, d.said)
  BY ToRegister
<1>3. SpiAt(d, reg) = [[d EXCEPT !.at = reg] EXCEPT !.said = <<Noise>>]
  BY DEF SpiAt
<1>4. SpiAt(d, reg)
        = [Become(d, reg, d.regs, d.dmp, d.fifo, d.said) EXCEPT !.said = <<Noise>>]
  BY <1>2, <1>3
<1> QED
  BY <1>4, SaysInstead

LEMMA KeepsIs ==
  ASSUME NEW d, NEW at, NEW regs, NEW dmp, NEW fifo, NEW said, NEW skip
  PROVE  Keeps(d, Become(d, at, regs, dmp, fifo, said), skip)
           = Become(d, at, regs, dmp, fifo, d.said \o SubSeq(said, skip + 1, Len(said)))
<1> DEFINE b == Become(d, at, regs, dmp, fifo, said)
<1>1. b.said = said
  BY Becomes
<1>2. \A said1 : [b EXCEPT !.said = said1] = Become(d, at, regs, dmp, fifo, said1)
  BY SaysInstead
<1> HIDE DEF b
<1>3. Keeps(d, b, skip) = [b EXCEPT !.said = d.said \o SubSeq(said, skip + 1, Len(said))]
  BY <1>1 DEF Keeps
<1> QED
  BY <1>2, <1>3 DEF b

LEMMA NoisesAre ==
  ASSUME NEW d, NEW at, NEW regs, NEW dmp, NEW fifo, NEW said, NEW out
  PROVE  Noises(Become(d, at, regs, dmp, fifo, said), out)
           = Become(d, at, regs, dmp, fifo, [k \in DOMAIN out |-> Noise])
BY DEF Become, Noises

LEMMA FirstAndRest ==
  ASSUME NEW first \in Nat, NEW rest \in Seq(Nat)
  PROVE  /\ (<<first>> \o rest)[1] = first /\ Tail(<<first>> \o rest) = rest
         /\ Len(<<first>> \o rest) = 1 + Len(rest) /\ <<first>> \o rest \in Seq(Nat)
         /\ SubSeq(<<first>> \o rest, 2, 1 + Len(rest)) = rest
         /\ SubSeq(<<first>> \o rest, 1, 1 + Len(rest)) = <<first>> \o rest
<1> DEFINE h == <<first>>
           s == h \o rest
<1>1. h \in Seq(Nat) /\ Len(h) = 1 /\ h[1] = first /\ 1 \in 1 .. 1
  OBVIOUS
<1> HIDE DEF h
<1>2. s \in Seq(Nat) /\ Len(s) = 1 + Len(rest)
  BY <1>1, BytesAfter, ZenonT(60)
<1>3. s[1] = first
  BY <1>1, BytesAfter
<1>4. SubSeq(s, Len(h) + 1, Len(s)) = rest
  BY <1>1, BytesAfter
<1>5. SubSeq(s, 2, 1 + Len(rest)) = rest
  BY <1>1, <1>2, <1>4
<1> HIDE DEF s
<1>6. s # <<>>
  BY <1>2
<1>7. Tail(s) = SubSeq(s, 2, Len(s))
  BY <1>2, <1>6, TailIsSubSeq
<1>8. SubSeq(s, 1, Len(s)) = s
  BY <1>2
<1> QED
  BY <1>2, <1>3, <1>5, <1>7, <1>8 DEF s, h

LEMMA ZerosAre ==
  ASSUME NEW len \in Nat
  PROVE  Zeros(len) \in Seq(Nat) /\ Len(Zeros(len)) = len
<1>1. Zeros(len) \in [1 .. len -> Nat]
  BY DEF Zeros
<1> QED
  BY <1>1 DEF Zeros

(* What the device says after the register is kept, with what it said before
   it or not. *)
LEMMA SpiReadDoes ==
  ASSUME NEW d \in Devices, NEW reg \in Word, reg < 128, NEW len, NEW bytes \in Seq(Nat),
         len = Len(bytes), NEW at1, NEW regs1, NEW dmp1, NEW fifo1,
         GivesAt(d, reg, len, bytes, at1, regs1, dmp1, fifo1)
  PROVE  /\ SpiTalk(d, Exchange(<<reg + 128>> \o Zeros(len), 1))
              = Become(d, at1, regs1, dmp1, fifo1, d.said \o bytes)
         /\ SpiTalk(d, Exchange(<<reg + 128>> \o Zeros(len), 0))
              = Become(d, at1, regs1, dmp1, fifo1, d.said \o (<<Noise>> \o bytes))
<1> DEFINE out == <<reg + 128>> \o Zeros(len)
           all == <<Noise>> \o bytes
           given == Become(d, at1, regs1, dmp1, fifo1, all)
<1>1. Zeros(len) \in Seq(Nat) /\ Len(Zeros(len)) = len /\ reg + 128 \in Nat
      /\ reg \in Nat
  <2>1. reg \in Nat /\ len \in Nat
    BY InWord
  <2>2. reg + 128 \in Nat
    BY <2>1
  <2> QED
    BY <2>1, <2>2, ZerosAre
<1>2. out[1] = reg + 128 /\ Len(out) = 1 + len
  BY <1>1, FirstAndRest
<1> HIDE DEF out
<1>3. out[1] % 128 = reg /\ out[1] >= 128 /\ Len(out) - 1 = len
  <2>1. (reg + 128) % 128 = reg /\ reg + 128 >= 128 /\ (1 + len) - 1 = len
    BY <1>1
  <2> QED
    BY <1>2, <2>1
<1>4. <<Noise>> \in Seq(Nat) /\ Noise \in Nat
  BY DEF Noise
<1>5. SpiAt(d, reg) = Become(d, reg, d.regs, d.dmp, d.fifo, <<Noise>>)
  BY SpiStarts
<1>6. GiveAll(SpiAt(d, reg), len) = given
  BY <1>4, <1>5 DEF GivesAt
<1>8. /\ Len(all) = 1 + len /\ SubSeq(all, 2, 1 + len) = bytes
      /\ SubSeq(all, 1, 1 + len) = all
  BY <1>4, FirstAndRest
<1> HIDE DEF all, given
<1>9. ASSUME NEW skip
      PROVE SpiTalk(d, Exchange(out, skip)) = Keeps(d, given, skip)
  BY <1>3, <1>6, SpiParts
<1>10. ASSUME NEW skip
       PROVE Keeps(d, given, skip)
               = Become(d, at1, regs1, dmp1, fifo1,
                        d.said \o SubSeq(all, skip + 1, 1 + len))
  BY <1>8, KeepsIs DEF given
<1>11. SubSeq(all, 1 + 1, 1 + len) = bytes /\ SubSeq(all, 0 + 1, 1 + len) = all
  BY <1>8
<1>12. SpiTalk(d, Exchange(out, 1)) = Become(d, at1, regs1, dmp1, fifo1, d.said \o bytes)
  BY <1>9, <1>10, <1>11
<1>13. SpiTalk(d, Exchange(out, 0)) = Become(d, at1, regs1, dmp1, fifo1, d.said \o all)
  BY <1>9, <1>10, <1>11
<1> QED
  BY <1>12, <1>13 DEF out, all

LEMMA SpiWriteDoes ==
  ASSUME NEW d \in Devices, NEW reg \in Word, reg < 128, NEW buf \in Seq(Nat),
         NEW at1, NEW regs1, NEW dmp1, NEW fifo1,
         TakesAt(d, reg, buf, at1, regs1, dmp1, fifo1)
  PROVE  SpiTalk(d, Exchange(<<reg>> \o buf, 1 + Len(buf)))
           = Become(d, at1, regs1, dmp1, fifo1, d.said)
<1> DEFINE out == <<reg>> \o buf
           back == [k \in DOMAIN out |-> Noise]
           put == Become(d, at1, regs1, dmp1, fifo1, <<Noise>>)
<1>1. reg \in Nat
  BY InWord
<1>2. out[1] = reg /\ Len(out) = 1 + Len(buf) /\ Tail(out) = buf /\ out \in Seq(Nat)
  BY <1>1, FirstAndRest
<1> HIDE DEF out
<1>3. out[1] % 128 = reg /\ ~(out[1] >= 128)
  <2>1. reg % 128 = reg /\ ~(reg >= 128)
    BY <1>1
  <2> QED
    BY <1>2, <2>1
<1>4. <<Noise>> \in Seq(Nat) /\ Noise \in Nat
  BY DEF Noise
<1>5. SpiAt(d, reg) = Become(d, reg, d.regs, d.dmp, d.fifo, <<Noise>>)
  BY SpiStarts
<1>6. PutAll(SpiAt(d, reg), buf) = put
  BY <1>4, <1>5 DEF TakesAt
<1>7. back \in Seq(Nat) /\ Len(back) = 1 + Len(buf)
  <2>1. DOMAIN out = 1 .. (1 + Len(buf)) /\ 1 + Len(buf) \in Nat
    BY <1>2
  <2>2. back \in [1 .. (1 + Len(buf)) -> Nat]
    BY <1>4, <2>1
  <2> QED
    BY <2>1, <2>2
<1>8. SubSeq(back, (1 + Len(buf)) + 1, Len(back)) = <<>>
  <2> HIDE DEF back
  <2>1. (1 + Len(buf)) + 1 \in Int /\ Len(back) \in Int /\ Len(back) < (1 + Len(buf)) + 1
    BY <1>7
  <2> QED
    BY <2>1, SubSeqEmpty
<1>9. d.said \in Seq(Nat) /\ d.said \o <<>> = d.said
  <2>1. d.said \in Seq(Nat)
    BY DeviceHas
  <2> QED
    BY <2>1
<1>10. Noises(put, out) = Become(d, at1, regs1, dmp1, fifo1, back)
  BY NoisesAre
<1> HIDE DEF put, back
<1>11. ASSUME NEW skip
       PROVE SpiTalk(d, Exchange(out, skip)) = Keeps(d, Noises(put, out), skip)
  <2>1. SpiTalk(d, Exchange(out, skip))
          = Keeps(d, Noises(PutAll(SpiAt(d, out[1] % 128), Tail(out)), out), skip)
    BY <1>3, SpiParts
  <2>2. out[1] % 128 = reg /\ Tail(out) = buf
    BY <1>2, <1>3
  <2> QED
    BY <1>6, <2>1, <2>2
<1>12. Keeps(d, Become(d, at1, regs1, dmp1, fifo1, back), 1 + Len(buf))
         = Become(d, at1, regs1, dmp1, fifo1,
                  d.said \o SubSeq(back, (1 + Len(buf)) + 1, Len(back)))
  BY KeepsIs
<1> QED
  BY <1>8, <1>9, <1>10, <1>11, <1>12 DEF out

-----------------------------------------------------------------------------
(* The devices that what is on the wire is shown to, as they start. *)
LEMMA DeviceIs ==
  ASSUME NEW width \in {1, 2}
  PROVE  /\ Device(width) \in Devices /\ Device(width).addr = 104
         /\ Device(width).width = width /\ Device(width).chip = FALSE
         /\ Device(width).at = 0 /\ Device(width).regs = Empty
         /\ Device(width).dmp = <<>> /\ Device(width).fifo = <<>>
         /\ Device(width).said = <<>>
<1>1. Empty \in [Word -> Nat]
  BY DEF Empty
<1>2. <<>> \in Seq(Nat) /\ <<>> \in Seq(Nat \X Nat) /\ 104 \in Nat /\ 0 \in Nat /\ width \in Nat
  OBVIOUS
<1>3. Device(width) \in Devices
  BY <1>1, <1>2 DEF Device, Devices
<1> QED
  BY <1>3 DEF Device

LEMMA HoldsIs ==
  ASSUME NEW reg \in Word, NEW buf \in Seq(Nat), reg + Len(buf) <= 512
  PROVE  /\ Over(Empty, reg, buf, Len(buf)) = Holds(reg, buf)
         /\ Holds(reg, buf) \in [Word -> Nat]
         /\ Taken(Holds(reg, buf), reg, Len(buf)) = buf
<1>1. reg \in Nat /\ Len(buf) \in Nat /\ \A k \in 1 .. Len(buf) : buf[k] \in Nat
  BY InWord
<1>2. ASSUME NEW r \in Word
      PROVE  /\ Holds(reg, buf)[r] = IF reg <= r /\ r < reg + Len(buf)
                                       THEN buf[(r - reg) + 1] ELSE 0
             /\ Empty[r] = 0
  <2>1. r \in Nat
    BY InWord
  <2>2. r \in reg .. reg + (Len(buf) - 1) <=> reg <= r /\ r < reg + Len(buf)
    BY <1>1, <2>1
  <2>3. Holds(reg, buf)[r] = IF r \in reg .. reg + (Len(buf) - 1)
                               THEN buf[(r - reg) + 1] ELSE 0
    BY DEF Holds
  <2>4. Empty[r] = 0
    BY DEF Empty
  <2> QED
    BY <2>2, <2>3, <2>4
<1>3. Over(Empty, reg, buf, Len(buf)) = Holds(reg, buf)
  <2>1. \A r \in Word : Over(Empty, reg, buf, Len(buf))[r] = Holds(reg, buf)[r]
    BY <1>2 DEF Over
  <2>2. /\ Over(Empty, reg, buf, Len(buf))
             = [r \in Word |-> Over(Empty, reg, buf, Len(buf))[r]]
        /\ Holds(reg, buf) = [r \in Word |-> Holds(reg, buf)[r]]
    BY DEF Over, Holds
  <2> QED
    BY <2>1, <2>2
<1>4. Holds(reg, buf) \in [Word -> Nat]
  <2>1. Empty \in [Word -> Nat] /\ Len(buf) \in 0 .. Len(buf)
    BY <1>1 DEF Empty
  <2>2. Over(Empty, reg, buf, Len(buf)) \in [Word -> Nat]
    BY <1>1, <2>1, OverIs
  <2> QED
    BY <1>3, <2>2
<1>5. Taken(Holds(reg, buf), reg, Len(buf)) = buf
  <2> DEFINE t == Taken(Holds(reg, buf), reg, Len(buf))
  <2>1. t \in Seq(Nat) /\ Len(t) = Len(buf)
    BY <1>1, <1>4, TakenIs
  <2>2. ASSUME NEW k \in 1 .. Len(buf) PROVE t[k] = buf[k]
    <3>1. /\ (reg + k) - 1 \in Word /\ reg <= (reg + k) - 1
          /\ (reg + k) - 1 < reg + Len(buf) /\ (((reg + k) - 1) - reg) + 1 = k
      BY <1>1, InWord
    <3>2. Holds(reg, buf)[(reg + k) - 1] = buf[k]
      BY <1>2, <3>1
    <3> QED
      BY <3>2 DEF Taken
  <2> HIDE DEF t
  <2>3. t = buf
    BY <2>1, <2>2, SeqEqual
  <2> QED
    BY <2>3 DEF t
<1> QED
  BY <1>3, <1>4, <1>5

(* Bytes that have room behind a register, and where they end. *)
HasRoom(reg, buf) == reg + Len(buf) <= 512
End(reg, buf) == reg + Len(buf)

(* A device as it starts. *)
Fresh(d, addr, width) ==
  /\ d \in Devices /\ d.addr = addr /\ d.width = width /\ d.chip = FALSE
  /\ d.regs = Empty /\ d.dmp = <<>> /\ d.fifo = <<>> /\ d.said = <<>>

(* A device that holds the bytes and has said nothing, and what it says. *)
Holder(d, e, reg, buf, len, end, none) ==
  /\ e \in Devices /\ e.addr = d.addr /\ e.width = d.width /\ e.chip = FALSE
  /\ e.regs = Holds(reg, buf) /\ e.said = none /\ e.dmp = none /\ e.fifo = none
  /\ GivesAt(e, reg, len, buf, end, Holds(reg, buf), none, none)

LEMMA HolderIs ==
  ASSUME NEW d, NEW addr, NEW width, Fresh(d, addr, width),
         NEW reg \in Word, NEW buf \in Seq(Nat), HasRoom(reg, buf), NEW end, end = End(reg, buf), NEW len, len = Len(buf),
         NEW none, none = <<>>
  PROVE  Holder(d, Become(d, end, Holds(reg, buf), none, none, none),
                reg, buf, len, end, none)
<1> DEFINE e == Become(d, end, Holds(reg, buf), none, none, none)
<1>1. none \in Seq(Nat) /\ none \in Seq(Nat \X Nat) /\ len \in Nat /\ end \in Nat
      /\ reg + len <= 512 /\ end = reg + len
  BY InWord DEF HasRoom, End
<1>2. Holds(reg, buf) \in [Word -> Nat] /\ Taken(Holds(reg, buf), reg, len) = buf
  BY HoldsIs DEF HasRoom
<1>3. e \in Devices
  BY <1>1, <1>2, StaysDevice DEF Fresh
<1>4. /\ e.addr = d.addr /\ e.width = d.width /\ e.chip = FALSE
      /\ e.regs = Holds(reg, buf) /\ e.said = none /\ e.dmp = none /\ e.fifo = none
  BY Becomes DEF Fresh
<1> HIDE DEF e
<1>5. GivesAt(e, reg, len, Taken(e.regs, reg, len), reg + len, e.regs, e.dmp, e.fifo)
  BY <1>1, <1>3, <1>4, FoundThere
<1>6. GivesAt(e, reg, len, buf, end, Holds(reg, buf), none, none)
  BY <1>1, <1>2, <1>4, <1>5
<1> QED
  BY <1>3, <1>4, <1>6 DEF e, Holder

LEMMA StartTakes ==
  ASSUME NEW d, NEW addr, NEW width, Fresh(d, addr, width),
         NEW reg \in Word, NEW buf \in Seq(Nat),
         HasRoom(reg, buf), NEW end, end = End(reg, buf),
         NEW none, none = <<>>
  PROVE  TakesAt(d, reg, buf, end, Holds(reg, buf), none, none)
<1>1. TakesAt(d, reg, buf, reg + Len(buf), Over(d.regs, reg, buf, Len(buf)), d.dmp, d.fifo)
  BY HeldThere DEF HasRoom, Fresh
<1>2. Over(Empty, reg, buf, Len(buf)) = Holds(reg, buf)
  BY HoldsIs DEF HasRoom
<1> QED
  BY <1>1, <1>2 DEF End, Fresh

LEMMA NothingBefore ==
  ASSUME NEW bytes \in Seq(Nat)
  PROVE  <<>> \o bytes = bytes
OBVIOUS

(* Over I2C, with a register of one byte or of two. *)
LEMMA CarriedOverIic ==
  ASSUME NEW width, NEW d, Fresh(d, 104, width), NEW addr, NEW reg \in Word,
         NEW buf \in Seq(Nat), HasRoom(reg, buf), NEW len, len = Len(buf),
         NEW w, NEW r,
         \/ width = 1 /\ w = IicWrite(addr, reg, buf) /\ r = IicRead(addr, reg, len)
         \/ width = 2 /\ w = IicWriteAddress16(addr, reg, buf)
                      /\ r = IicReadAddress16(addr, reg, len)
  PROVE  /\ Talk(d, w).regs = IF addr \div 2 = 104 THEN Holds(reg, buf) ELSE Empty
         /\ Talk(Talk(d, w), r).said = IF addr \div 2 = 104 THEN buf ELSE <<>>
<1> DEFINE end == End(reg, buf)
           none == <<>>
           e == Become(d, end, Holds(reg, buf), none, none, none)
<1>1. /\ d \in Devices /\ d.addr = 104 /\ d.chip = FALSE /\ d.width = width
      /\ d.regs = Empty /\ d.dmp = none /\ d.fifo = none /\ d.said = none
  BY DEF Fresh
<1>2. end = End(reg, buf) /\ none = <<>> /\ none \o buf = buf
  BY NothingBefore
<1> HIDE DEF end, none
<1>3. CASE addr \div 2 = 104
  <2>1. addr \div 2 = d.addr
    BY <1>1, <1>3
  <2>2. TakesAt(d, reg, buf, end, Holds(reg, buf), none, none)
    BY <1>2, StartTakes
  <2>3. Talk(d, w) = e
    BY <1>1, <2>1, <2>2, WritesOverIic
  <2>4. /\ e \in Devices /\ e.addr = d.addr /\ e.width = d.width
        /\ e.regs = Holds(reg, buf) /\ e.said = none
        /\ GivesAt(e, reg, len, buf, end, Holds(reg, buf), none, none)
    <3>1. Holder(d, e, reg, buf, len, end, none)
      BY <1>2, HolderIs
    <3> HIDE DEF e
    <3> QED
      BY <3>1 DEF Holder
  <2> HIDE DEF e
  <2>5. addr \div 2 = e.addr /\ e.width = width
    BY <1>1, <2>1, <2>4
  <2>6. Talk(e, r) = Become(e, end, Holds(reg, buf), none, none, e.said \o buf)
    BY <2>4, <2>5, ReadsOverIic
  <2>7. Talk(e, r).said = buf
    BY <1>2, <2>4, <2>6, Becomes
  <2> QED
    BY <1>3, <2>3, <2>4, <2>7
<1>4. CASE ~(addr \div 2 = 104)
  <2>1. ~(addr \div 2 = d.addr)
    BY <1>1, <1>4
  <2>2. Talk(d, w) = d /\ Talk(d, r) = d
    BY <2>1, NotOverIic
  <2> QED
    BY <1>1, <1>2, <1>4, <2>2
<1> QED
  BY <1>3, <1>4

(* A command, whose first byte is the register. *)
LEMMA CarriedAsCommand ==
  ASSUME NEW d, Fresh(d, 104, 1), NEW addr, NEW reg \in Word,
         NEW buf \in Seq(Nat), HasRoom(reg, buf), NEW len, len = Len(buf)
  PROVE  LET cmd == Talk(d, IicWriteCmd(addr, <<reg>> \o buf))
         IN  /\ cmd.regs = IF addr \div 2 = 104 THEN Holds(reg, buf) ELSE Empty
             /\ Talk([cmd EXCEPT !.at = reg], IicReadCmd(addr, len)).said
                  = IF addr \div 2 = 104 THEN buf ELSE <<>>
<1> DEFINE end == End(reg, buf)
           none == <<>>
           cmd == Talk(d, IicWriteCmd(addr, <<reg>> \o buf))
           to == [cmd EXCEPT !.at = reg]
           e == Become(d, end, Holds(reg, buf), none, none, none)
<1>1. /\ d \in Devices /\ d.addr = 104 /\ d.chip = FALSE /\ d.width = 1
      /\ d.regs = Empty /\ d.dmp = none /\ d.fifo = none /\ d.said = none
  BY DEF Fresh
<1>2. end = End(reg, buf) /\ none = <<>> /\ none \o buf = buf
  BY NothingBefore
<1> HIDE DEF end, none
<1>3. CASE addr \div 2 = 104
  <2>1. addr \div 2 = d.addr
    BY <1>1, <1>3
  <2>2. TakesAt(d, reg, buf, end, Holds(reg, buf), none, none)
    BY <1>2, StartTakes
  <2>3. cmd = e
    <3>1. Meets(d, Send(addr, <<reg>> \o buf)) = e
      BY <1>1, <2>1, <2>2, IicWriteDoes
    <3>2. cmd = Meets(d, Send(addr, <<reg>> \o buf))
      BY TalkOne DEF IicWriteCmd
    <3> QED
      BY <3>1, <3>2
  <2>4. /\ e \in Devices /\ e.addr = d.addr /\ e.width = d.width
        /\ e.regs = Holds(reg, buf) /\ e.said = none
        /\ GivesAt(e, reg, len, buf, end, Holds(reg, buf), none, none)
    <3>1. Holder(d, e, reg, buf, len, end, none)
      BY <1>2, HolderIs
    <3> HIDE DEF e
    <3> QED
      BY <3>1 DEF Holder
  <2>5. [e EXCEPT !.at = reg] = Become(e, reg, e.regs, e.dmp, e.fifo, e.said)
    BY <2>4, ToRegister
  <2> HIDE DEF e
  <2>6. addr \div 2 = e.addr
    BY <1>1, <2>1, <2>4
  <2>7. to = Become(e, reg, e.regs, e.dmp, e.fifo, e.said)
    BY <2>3, <2>5
  <2> HIDE DEF cmd, to
  <2>8. Meets(to, Receive(addr, len))
          = Become(e, end, Holds(reg, buf), none, none, e.said \o buf)
    BY <2>4, <2>6, <2>7, IicReadDoes
  <2>9. Talk(to, IicReadCmd(addr, len)) = Meets(to, Receive(addr, len))
    BY TalkOne DEF IicReadCmd
  <2>10. Talk(to, IicReadCmd(addr, len)).said = buf
    BY <1>2, <2>4, <2>8, <2>9, Becomes
  <2> QED
    BY <1>3, <2>3, <2>4, <2>10 DEF cmd, to
<1>4. CASE ~(addr \div 2 = 104)
  <2>1. ~(addr \div 2 = d.addr)
    BY <1>1, <1>4
  <2>2. cmd = d
    BY <2>1, NotOverIic
  <2>3. to.addr = d.addr /\ to.said = none
    <3>1. [d EXCEPT !.at = reg] = Become(d, reg, d.regs, d.dmp, d.fifo, d.said)
      BY <1>1, ToRegister
    <3> HIDE DEF cmd
    <3>2. to = Become(d, reg, d.regs, d.dmp, d.fifo, d.said)
      BY <2>2, <3>1
    <3> HIDE DEF to
    <3> QED
      BY <1>1, <3>2, Becomes
  <2> HIDE DEF cmd, to
  <2>4. ~(addr \div 2 = to.addr)
    BY <2>1, <2>3
  <2>5. Talk(to, IicReadCmd(addr, len)) = to
    BY <2>4, NotOverIic
  <2> QED
    BY <1>1, <1>2, <1>4, <2>2, <2>3, <2>5 DEF cmd, to
<1> QED
  BY <1>3, <1>4

Seven(reg) == reg < 128

(* Over SPI: the drivers' exchanges, a command and a full exchange. *)
ServedOverSpi(d, reg, buf, len) ==
  LET spi == SpiTalk(d, Mpu9250Write(reg, buf))
  IN  /\ spi.regs = Holds(reg, buf)
      /\ SpiTalk(spi, Mpu9250Read(reg, len)).said = buf
      /\ SpiTalk(d, SpiWriteCmd(<<reg>> \o buf)).regs = spi.regs
      /\ SpiTalk(spi, SpiTransmit(<<reg + 128>> \o Zeros(len))).said
           = <<Noise>> \o buf

LEMMA CarriedOverSpi ==
  ASSUME NEW d, Fresh(d, 104, 1), NEW reg \in Word, Seven(reg),
         NEW buf \in Seq(Nat), HasRoom(reg, buf), NEW len, len = Len(buf)
  PROVE  ServedOverSpi(d, reg, buf, len)
<1> DEFINE end == End(reg, buf)
           none == <<>>
           spi == SpiTalk(d, Mpu9250Write(reg, buf))
           e == Become(d, end, Holds(reg, buf), none, none, none)
<1>1. /\ d \in Devices /\ d.addr = 104 /\ d.chip = FALSE
      /\ d.regs = Empty /\ d.dmp = none /\ d.fifo = none /\ d.said = none
  BY DEF Fresh
<1>2. end = End(reg, buf) /\ none = <<>> /\ none \o buf = buf
  BY NothingBefore
<1>16. none \o (<<Noise>> \o buf) = <<Noise>> \o buf
  <2>1. <<Noise>> \o buf \in Seq(Nat)
    BY DEF Noise
  <2> QED
    BY <2>1, NothingBefore
<1>3. reg \in Nat /\ reg % 128 = reg /\ len \in Nat
  <2>1. reg \in Nat
    BY InWord
  <2>2. reg % 128 = reg
    BY <2>1 DEF Seven
  <2> QED
    BY <2>1, <2>2
<1> HIDE DEF end, none
<1>4. TakesAt(d, reg, buf, end, Holds(reg, buf), none, none)
  BY <1>2, StartTakes
<1>5. SpiTalk(d, Exchange(<<reg>> \o buf, 1 + Len(buf))) = e
  BY <1>1, <1>4, SpiWriteDoes DEF Seven
<1>6. Mpu9250Write(reg, buf) = Exchange(<<reg>> \o buf, 1 + Len(buf))
  BY <1>3 DEF Mpu9250Write, SpiWrite
<1>7. SpiWriteCmd(<<reg>> \o buf) = Exchange(<<reg>> \o buf, 1 + Len(buf))
  <2>1. Len(<<reg>> \o buf) = 1 + Len(buf)
    BY <1>3, FirstAndRest
  <2> QED
    BY <2>1 DEF SpiWriteCmd
<1>8. Holder(d, e, reg, buf, len, end, none)
  BY <1>2, HolderIs
<1> HIDE DEF e
<1>9. /\ e \in Devices /\ e.regs = Holds(reg, buf) /\ e.said = none
      /\ GivesAt(e, reg, len, buf, end, Holds(reg, buf), none, none)
  BY <1>8 DEF Holder
<1>10. /\ SpiTalk(e, Exchange(<<reg + 128>> \o Zeros(len), 1))
            = Become(e, end, Holds(reg, buf), none, none, e.said \o buf)
       /\ SpiTalk(e, Exchange(<<reg + 128>> \o Zeros(len), 0))
            = Become(e, end, Holds(reg, buf), none, none, e.said \o (<<Noise>> \o buf))
  BY <1>9, SpiReadDoes DEF Seven
<1>11. Mpu9250Read(reg, len) = Exchange(<<reg + 128>> \o Zeros(len), 1)
  BY <1>3 DEF Mpu9250Read, SpiRead, Seven
<1>12. SpiTransmit(<<reg + 128>> \o Zeros(len)) = Exchange(<<reg + 128>> \o Zeros(len), 0)
  BY DEF SpiTransmit
<1>13. spi = e /\ SpiTalk(d, SpiWriteCmd(<<reg>> \o buf)) = e
  BY <1>5, <1>6, <1>7
<1> DEFINE all == <<Noise>> \o buf
           both == SpiTalk(e, SpiTransmit(<<reg + 128>> \o Zeros(len)))
<1>14. SpiTalk(e, Mpu9250Read(reg, len)).said = buf
  BY <1>2, <1>9, <1>10, <1>11, Becomes
<1>15. both.said = all
  <2>1. both = Become(e, end, Holds(reg, buf), none, none, none \o all)
    BY <1>9, <1>10, <1>12
  <2>2. none \o all = all
    BY <1>16
  <2> HIDE DEF both, all
  <2> QED
    BY <2>1, <2>2, Becomes
<1> QED
  BY <1>9, <1>13, <1>14, <1>15 DEF ServedOverSpi, spi, both, all

LEMMA CarriedTogether ==
  ASSUME NEW reg \in Nat, NEW len \in Nat, len > 0
  PROVE  /\ SpiWriteRead(<<reg>>, len)[1].out = <<reg>>
         /\ SpiWriteRead(<<reg>>, len)[2] = SpiReadCmd(len)
<1> DEFINE x == Exchange(<<reg>>, Len(<<reg>>))
           y == Exchange(Zeros(len), 0)
<1>1. SpiWriteRead(<<reg>>, len) = <<x, y>>
  BY DEF SpiWriteRead
<1>2. x.out = <<reg>>
  BY DEF Exchange
<1> HIDE DEF x, y
<1>3. <<x, y>>[1] = x /\ <<x, y>>[2] = y
  OBVIOUS
<1> QED
  BY <1>1, <1>2, <1>3 DEF y, SpiReadCmd

(* An SPI memory with a register of two bytes. *)
LEMMA CarriedFrom16 ==
  ASSUME NEW d, Fresh(d, 104, 2), NEW reg \in Word,
         NEW buf \in Seq(Nat), HasRoom(reg, buf)
  PROVE  SpiSays16([d EXCEPT !.regs = Holds(reg, buf)], SpiReadAddress16(reg, Len(buf)))
           = buf
<1> DEFINE len == Len(buf)
           h == <<High(reg), Low(reg)>>
           out == h \o Zeros(len)
           e == [d EXCEPT !.regs = Holds(reg, buf)]
           noise == <<Noise, Noise>>
           to == [e EXCEPT !.at = reg]
<1>1. reg \in Nat /\ reg < 512 /\ len \in Nat
  BY InWord
<1>2. High(reg) \in Nat /\ Low(reg) \in Nat /\ 256 * High(reg) + Low(reg) = reg
  BY <1>1 DEF High, Low
<1>3. Zeros(len) \in Seq(Nat) /\ Len(Zeros(len)) = len
  BY <1>1, ZerosAre
<1>4. h \in Seq(Nat) /\ Len(h) = 2 /\ h[1] = High(reg) /\ h[2] = Low(reg)
  BY <1>2
<1>5. SpiReadAddress16(reg, len) = Exchange(out, 2)
  BY DEF SpiReadAddress16
<1> HIDE DEF h
<1>6. Len(out) = 2 + len /\ out[1] = High(reg) /\ out[2] = Low(reg)
  <2>1. 1 \in 1 .. 2 /\ 2 \in 1 .. 2
    OBVIOUS
  <2>2. Len(out) = Len(h) + Len(Zeros(len)) /\ \A k \in 1 .. Len(h) : out[k] = h[k]
    BY <1>3, <1>4, BytesAfter
  <2> HIDE DEF out
  <2>3. out[1] = h[1] /\ out[2] = h[2]
    BY <1>4, <2>1, <2>2
  <2> QED
    BY <1>3, <1>4, <2>2, <2>3
<1>7. Exchange(out, 2).out = out /\ Exchange(out, 2).skip = 2
  BY DEF Exchange
<1>8. d \in Devices /\ d.chip = FALSE /\ d.said = <<>>
  BY DEF Fresh
<1>9. Holds(reg, buf) \in [Word -> Nat] /\ Taken(Holds(reg, buf), reg, len) = buf
  BY HoldsIs DEF HasRoom
<1>10. e = Become(d, d.at, Holds(reg, buf), d.dmp, d.fifo, d.said)
  <2>1. d = Become(d, d.at, d.regs, d.dmp, d.fifo, d.said)
    BY <1>8, DeviceHas
  <2>2. [Become(d, d.at, d.regs, d.dmp, d.fifo, d.said) EXCEPT !.regs = Holds(reg, buf)]
          = Become(d, d.at, Holds(reg, buf), d.dmp, d.fifo, d.said)
    BY DEF Become
  <2> QED
    BY <2>1, <2>2
<1> HIDE DEF e
<1>11. e \in Devices
  BY <1>8, <1>9, <1>10, DeviceHas, StaysDevice
<1>12. e.regs = Holds(reg, buf) /\ e.chip = FALSE /\ e.said = <<>>
  BY <1>8, <1>10, Becomes
<1>13. to = Become(e, reg, e.regs, e.dmp, e.fifo, e.said)
  BY <1>11, ToRegister
<1> HIDE DEF to
<1>14. GivesAt(e, reg, len, Taken(e.regs, reg, len), reg + len, e.regs, e.dmp, e.fifo)
  BY <1>1, <1>11, <1>12, FoundThere DEF HasRoom
<1>15. GiveAll(to, len) = Become(e, reg + len, e.regs, e.dmp, e.fifo, e.said \o buf)
  <2>1. e.said \in Seq(Nat)
    BY <1>11, DeviceHas
  <2> QED
    BY <1>9, <1>12, <1>13, <1>14, <2>1 DEF GivesAt
<1>16. GiveAll(to, len).said = buf
  <2>1. <<>> \o buf = buf
    BY NothingBefore
  <2> QED
    BY <1>12, <1>15, <2>1, Becomes
<1>17. noise \in Seq(Nat) /\ Len(noise) = 2
  BY DEF Noise
<1> HIDE DEF noise, out
<1>18. SubSeq(noise \o buf, 2 + 1, Len(noise \o buf)) = buf
  BY <1>17, BytesAfter
<1>19. 256 * out[1] + out[2] = reg /\ Len(out) - 2 = len
  BY <1>1, <1>2, <1>6
<1>20. SpiSays16(e, Exchange(out, 2))
         = SubSeq(noise \o GiveAll(to, len).said, 2 + 1,
                  Len(noise \o GiveAll(to, len).said))
  BY <1>7, <1>19 DEF SpiSays16, noise, to
<1> QED
  BY <1>5, <1>16, <1>18, <1>20 DEF e

(* The DMP's memory, from this place on, after k of the bytes. *)
Filed(base, bytes, k) == [c \in 1 .. k |-> <<(base + c) - 1, bytes[c]>>]
FiledOne(dmp, base, byte) == Append(dmp, <<base + Len(dmp), byte>>)
Base(d) == 256 * d.regs[109] + d.regs[110]

LEMMA FiledIs ==
  ASSUME NEW base \in Nat, NEW bytes \in Seq(Nat), NEW k \in 0 .. Len(bytes)
  PROVE  /\ Filed(base, bytes, k) \in Seq(Nat \X Nat)
         /\ k = 0 => Filed(base, bytes, k) = <<>>
         /\ k > 0 => FiledOne(Filed(base, bytes, k - 1), base, bytes[k])
                       = Filed(base, bytes, k)
<1>1. ASSUME NEW num \in 0 .. Len(bytes)
      PROVE Filed(base, bytes, num) \in Seq(Nat \X Nat) /\ Len(Filed(base, bytes, num)) = num
  <2>1. ASSUME NEW c \in 1 .. num PROVE <<(base + c) - 1, bytes[c]>> \in Nat \X Nat
    <3>1. (base + c) - 1 \in Nat /\ bytes[c] \in Nat
      OBVIOUS
    <3> QED
      BY <3>1
  <2>2. Filed(base, bytes, num) \in [1 .. num -> Nat \X Nat] /\ num \in Nat
    BY <2>1 DEF Filed
  <2>3. DOMAIN Filed(base, bytes, num) = 1 .. num
    BY DEF Filed
  <2>4. Filed(base, bytes, num) \in Seq(Nat \X Nat)
    BY <2>2
  <2> QED
    BY <2>2, <2>3, <2>4
<1>2. ASSUME k = 0 PROVE Filed(base, bytes, k) = <<>>
  BY <1>1, <1>2
<1>3. ASSUME k > 0
      PROVE FiledOne(Filed(base, bytes, k - 1), base, bytes[k]) = Filed(base, bytes, k)
  <2> DEFINE s == Filed(base, bytes, k - 1)
             t == Filed(base, bytes, k)
             x == <<(base + k) - 1, bytes[k]>>
  <2>1. k - 1 \in 0 .. Len(bytes)
    BY <1>3
  <2>2. /\ s \in Seq(Nat \X Nat) /\ Len(s) = k - 1 /\ t \in Seq(Nat \X Nat) /\ Len(t) = k
    BY <1>1, <2>1
  <2>3. \A c \in 1 .. k - 1 : s[c] = t[c]
    BY DEF Filed
  <2>4. t[k] = x
    BY <1>3 DEF Filed
  <2>5. FiledOne(s, base, bytes[k]) = Append(s, x)
    <3>1. base + Len(s) = (base + k) - 1
      <4>1. Len(s) = k - 1
        BY <2>2
      <4>2. base + (k - 1) = (base + k) - 1
        OBVIOUS
      <4> HIDE DEF s
      <4> QED
        BY <4>1, <4>2
    <3> QED
      BY <3>1 DEF FiledOne
  <2>6. x \in Nat \X Nat
    <3>1. k \in 1 .. Len(bytes)
      BY <1>3
    <3>2. (base + k) - 1 \in Nat /\ bytes[k] \in Nat
      BY <3>1
    <3> QED
      BY <3>2
  <2> HIDE DEF s, t, x
  <2>7. Append(s, x) \in Seq(Nat \X Nat) /\ Len(Append(s, x)) = k
    BY <2>2, <2>6
  <2>8. ASSUME NEW c \in 1 .. k PROVE Append(s, x)[c] = t[c]
    <3>1. CASE c = k
      BY <2>2, <2>4, <3>1
    <3>2. CASE c # k
      <4>1. c \in 1 .. k - 1
        BY <3>2
      <4>2. Append(s, x)[c] = s[c]
        BY <2>2, <4>1
      <4> QED
        BY <2>3, <4>1, <4>2
    <3> QED
      BY <3>1, <3>2
  <2>9. Append(s, x) = t
    BY <2>2, <2>7, <2>8, SeqEqual
  <2> QED
    BY <2>5, <2>9 DEF s, t
<1> QED
  BY <1>1, <1>2, <1>3

LEMMA FiledNone ==
  ASSUME NEW base \in Nat, NEW bytes \in Seq(Nat)
  PROVE  Filed(base, bytes, 0) = <<>>
<1>1. 0 \in 0 .. Len(bytes)
  OBVIOUS
<1> QED
  BY <1>1, FiledIs

LEMMA FiledNext ==
  ASSUME NEW base \in Nat, NEW bytes \in Seq(Nat), NEW k \in 1 .. Len(bytes)
  PROVE  FiledOne(Filed(base, bytes, k - 1), base, bytes[k]) = Filed(base, bytes, k)
<1>1. k \in 0 .. Len(bytes) /\ k > 0
  OBVIOUS
<1> QED
  BY <1>1, FiledIs

LEMMA FilesInstead ==
  ASSUME NEW d, NEW at, NEW regs, NEW dmp, NEW fifo, NEW said, NEW dmp1
  PROVE  [Become(d, at, regs, dmp, fifo, said) EXCEPT !.dmp = dmp1]
           = Become(d, at, regs, dmp1, fifo, said)
BY DEF Become

InDmp(d) == d \in Devices /\ d.chip /\ d.at = 111

LEMMA PutInDmp ==
  ASSUME NEW d, InDmp(d), NEW byte
  PROVE  Put(d, byte) = Become(d, d.at, d.regs, FiledOne(d.dmp, Base(d), byte),
                               d.fifo, d.said)
<1> DEFINE b == Become(d, d.at, d.regs, d.dmp, d.fifo, d.said)
           onto == FiledOne(d.dmp, Base(d), byte)
<1>1. Put(d, byte) = [d EXCEPT !.dmp = onto]
  BY DEF Put, FiledOne, Base, InDmp
<1>2. d = b
  BY DeviceHas DEF InDmp
<1>3. [b EXCEPT !.dmp = onto] = Become(d, d.at, d.regs, onto, d.fifo, d.said)
  BY FilesInstead
<1> HIDE DEF b, onto
<1>4. [d EXCEPT !.dmp = onto] = [b EXCEPT !.dmp = onto]
  BY <1>2
<1> QED
  BY <1>1, <1>3, <1>4 DEF onto

NoneFiled(d) == d.chip /\ d.dmp = <<>>

LEMMA FileRun ==
  ASSUME NEW d \in Devices, InDmp(d), NoneFiled(d), NEW bytes \in Seq(Nat)
  PROVE  PutAll(d, bytes) = Become(d, d.at, d.regs, Filed(Base(d), bytes, Len(bytes)),
                                   d.fifo, d.said)
<1> DEFINE m == Len(bytes)
           base == Base(d)
           F(k) == Filed(base, bytes, k)
           At(k) == Become(d, d.at, d.regs, F(k), d.fifo, d.said)
           e == [k \in 0 .. m |-> At(k)]
<1>1. m \in Nat
  OBVIOUS
<1>2. /\ d.at \in Nat /\ d.regs \in [Word -> Nat] /\ d.chip \in BOOLEAN
      /\ d.dmp \in Seq(Nat \X Nat) /\ d.fifo \in Seq(Nat) /\ d.said \in Seq(Nat)
  BY DeviceHas
<1>3. base \in Nat
  <2>1. 109 \in Word /\ 110 \in Word
    BY DEF Word
  <2>2. d.regs[109] \in Nat /\ d.regs[110] \in Nat
    BY <1>2, <2>1
  <2> QED
    BY <2>2, SMTT(40) DEF Base
<1> HIDE DEF base
<1>4. ASSUME NEW k \in 0 .. m
      PROVE  /\ At(k) \in Devices /\ At(k).at = d.at /\ At(k).chip = d.chip
             /\ At(k).regs = d.regs /\ At(k).dmp = F(k) /\ At(k).fifo = d.fifo
             /\ At(k).said = d.said
             /\ \A at1, regs1, dmp1, fifo1, said1 :
                  Become(At(k), at1, regs1, dmp1, fifo1, said1)
                    = Become(d, at1, regs1, dmp1, fifo1, said1)
  <2>1. F(k) \in Seq(Nat \X Nat)
    BY <1>3, FiledIs
  <2> HIDE DEF F
  <2>2. At(k) \in Devices
    BY <1>2, <2>1, StaysDevice
  <2> QED
    BY <2>2, Becomes
<1>5. At(0) = d
  <2>1. F(0) = d.dmp
    BY <1>3, FiledNone DEF NoneFiled
  <2> HIDE DEF F
  <2> QED
    BY <2>1, DeviceHas
<1>6. ASSUME NEW k \in 1 .. m PROVE Put(At(k - 1), bytes[k]) = At(k)
  <2>1. k - 1 \in 0 .. m /\ k \in 1 .. Len(bytes)
    BY <1>1
  <2>2. FiledOne(F(k - 1), base, bytes[k]) = F(k)
    BY <1>3, <2>1, FiledNext
  <2> HIDE DEF F, At
  <2>3. Base(At(k - 1)) = base
    BY <1>4, <2>1 DEF Base, base
  <2>4. InDmp(At(k - 1))
    BY <1>4, <2>1 DEF InDmp
  <2>5. Put(At(k - 1), bytes[k])
          = Become(d, d.at, d.regs, FiledOne(F(k - 1), base, bytes[k]), d.fifo, d.said)
    BY <1>4, <2>1, <2>3, <2>4, PutInDmp
  <2> QED
    BY <2>2, <2>5 DEF At
<1>7. e[0] = d /\ \A k \in 1 .. m : Put(e[k - 1], bytes[k]) = e[k]
  <2>1. \A k \in 0 .. m : e[k] = At(k)
    OBVIOUS
  <2>2. \A k \in 1 .. m : k - 1 \in 0 .. m /\ k \in 0 .. m
    OBVIOUS
  <2>3. 0 \in 0 .. m
    BY <1>1
  <2> HIDE DEF At, e
  <2> QED
    BY <1>5, <1>6, <2>1, <2>2, <2>3
<1>8. PutAll(d, bytes) = e[m]
  <2> HIDE DEF e
  <2> QED
    BY <1>1, <1>7, PutAllIs
<1>9. e[m] = At(m)
  BY <1>1
<1> QED
  BY <1>8, <1>9 DEF base

LEMMA MovedTo ==
  ASSUME NEW d \in Devices, NEW at \in Nat, NEW said \in Seq(Nat),
         NEW to, to = Become(d, at, d.regs, d.dmp, d.fifo, said)
  PROVE  /\ to \in Devices /\ to.at = at /\ to.regs = d.regs /\ to.chip = d.chip
         /\ to.said = said /\ to.dmp = d.dmp /\ to.fifo = d.fifo
         /\ to.addr = d.addr /\ to.width = d.width
         /\ \A at1, regs1, dmp1, fifo1, said1 :
              Become(to, at1, regs1, dmp1, fifo1, said1)
                = Become(d, at1, regs1, dmp1, fifo1, said1)
<1>1. to \in Devices
  BY DeviceHas, StaysDevice
<1> QED
  BY <1>1, Becomes

IsDmp(mem) == mem = 111

LEMMA DmpTakes ==
  ASSUME NEW d \in Devices, NoneFiled(d), NEW buf \in Seq(Nat),
         NEW mem, IsDmp(mem)
  PROVE  TakesAt(d, mem, buf, mem, d.regs, Filed(Base(d), buf, Len(buf)), d.fifo)
<1> SUFFICES ASSUME NEW said \in Seq(Nat)
             PROVE PutAll(Become(d, mem, d.regs, d.dmp, d.fifo, said), buf)
                     = Become(d, mem, d.regs, Filed(Base(d), buf, Len(buf)), d.fifo, said)
  BY DEF TakesAt
<1>1. mem \in Nat
  BY DEF IsDmp
<1>2. PICK to : to = Become(d, mem, d.regs, d.dmp, d.fifo, said)
  OBVIOUS
<1>3. /\ to \in Devices /\ to.at = mem /\ to.regs = d.regs /\ to.chip = d.chip
      /\ to.said = said /\ to.dmp = d.dmp /\ to.fifo = d.fifo
      /\ \A at1, regs1, dmp1, fifo1, said1 :
           Become(to, at1, regs1, dmp1, fifo1, said1)
             = Become(d, at1, regs1, dmp1, fifo1, said1)
  BY <1>1, <1>2, MovedTo
<1>4. InDmp(to) /\ NoneFiled(to) /\ Base(to) = Base(d)
  BY <1>3 DEF InDmp, IsDmp, NoneFiled, Base
<1>5. PutAll(to, buf) = Become(to, to.at, to.regs, Filed(Base(to), buf, Len(buf)),
                               to.fifo, to.said)
  BY <1>3, <1>4, FileRun
<1> DEFINE all == Filed(Base(d), buf, Len(buf))
<1>6. Filed(Base(to), buf, Len(buf)) = all
  BY <1>4
<1> HIDE DEF all
<1>7. PutAll(to, buf) = Become(to, mem, d.regs, all, d.fifo, said)
  BY <1>3, <1>5, <1>6
<1>8. PutAll(to, buf) = Become(d, mem, d.regs, all, d.fifo, said)
  BY <1>3, <1>7
<1> QED
  BY <1>2, <1>8 DEF all

(* A chip as it starts, with nothing in the DMP's memory. *)
StartsAsChip(d) ==
  /\ d \in Devices /\ NoneFiled(d) /\ d.addr = 104 /\ d.width = 1
  /\ d.regs \in [Word -> Nat]

LEMMA MadeChip ==
  ASSUME NEW e \in Devices, NEW yes \in BOOLEAN, NEW d, d = [e EXCEPT !.chip = yes]
  PROVE  /\ d \in Devices /\ d.addr = e.addr /\ d.width = e.width /\ d.chip = yes
         /\ d.regs = e.regs /\ d.dmp = e.dmp
BY DEF Devices

AtStart(d) == d = [Device(1) EXCEPT !.chip = TRUE]

LEMMA ChipIs ==
  ASSUME NEW d, AtStart(d)
  PROVE  StartsAsChip(d)
<1> DEFINE e == Device(1)
           yes == TRUE
<1>1. e \in Devices /\ e.addr = 104 /\ e.width = 1 /\ e.regs = Empty /\ e.dmp = <<>>
  BY DeviceIs
<1>2. d = [e EXCEPT !.chip = yes] /\ yes \in BOOLEAN
  BY DEF AtStart
<1>3. Empty \in [Word -> Nat]
  BY DEF Empty
<1> HIDE DEF e, yes
<1>4. /\ d \in Devices /\ d.addr = e.addr /\ d.width = e.width /\ d.chip = yes
      /\ d.regs = e.regs /\ d.dmp = e.dmp
  BY <1>1, <1>2, MadeChip
<1>5. NoneFiled(d)
  BY <1>1, <1>4 DEF NoneFiled, yes
<1> QED
  BY <1>1, <1>3, <1>4, <1>5 DEF StartsAsChip

(* The two registers of the DMP's place take it. *)
PointsAt(regs, at) == regs[109] = High(at) /\ regs[110] = Low(at)

LEMMA PlaceOver ==
  ASSUME NEW regs \in [Word -> Nat], NEW at \in Nat
  PROVE  PointsAt(Over(regs, 109, <<High(at), Low(at)>>, 2), at)
<1>1. 109 \in Word /\ 110 \in Word
  BY DEF Word
<1>2. Over(regs, 109, <<High(at), Low(at)>>, 2)[109] = High(at)
  BY <1>1 DEF Over
<1>3. Over(regs, 109, <<High(at), Low(at)>>, 2)[110] = Low(at)
  BY <1>1 DEF Over
<1> QED
  BY <1>2, <1>3 DEF PointsAt

TwoBytes(at) == at < 65536

LEMMA PlaceTakes ==
  ASSUME NEW d, StartsAsChip(d), NEW at \in Nat, TwoBytes(at), NEW addr, addr \div 2 = 104,
         NEW to, to = Meets(d, Send(addr, << 109 >> \o <<High(at), Low(at)>>))
  PROVE  /\ to \in Devices /\ NoneFiled(to) /\ to.addr = 104 /\ to.width = 1
         /\ Base(to) = at
<1> DEFINE bytes == <<High(at), Low(at)>>
           R == Over(d.regs, 109, bytes, 2)
           reg == 109
           mem == 111
           none == <<>>
<1>1. bytes \in Seq(Nat) /\ Len(bytes) = 2
  BY DEF High, Low, TwoBytes
<1>2. reg \in Word /\ mem \in Nat /\ reg + 2 = mem
  BY DEF Word
<1>3. /\ d \in Devices /\ d.addr = 104 /\ d.width = 1 /\ d.regs \in [Word -> Nat]
      /\ NoneFiled(d)
  BY DEF StartsAsChip
<1>4. PointsAt(R, at)
  BY <1>3, PlaceOver
<1>5. R \in [Word -> Nat]
  <2>1. 2 \in 0 .. Len(bytes) /\ 109 \in Nat
    BY <1>1
  <2> HIDE DEF bytes
  <2> QED
    BY <1>1, <1>3, <2>1, OverIs
<1>6. \A r \in {107, 111, 116} : ~(reg <= r /\ r < reg + Len(bytes))
  BY <1>1
<1>7. 256 * High(at) + Low(at) = at
  BY DEF High, Low, TwoBytes
<1>8. reg + Len(bytes) <= 512 /\ reg + Len(bytes) = mem
  BY <1>1
<1>9. Over(d.regs, reg, bytes, Len(bytes)) = R
  BY <1>1
<1> HIDE DEF R, bytes
<1>10. to = Meets(d, Send(addr, <<reg>> \o bytes))
  BY DEF bytes
<1> HIDE DEF reg, mem
<1>11. TakesAt(d, reg, bytes, reg + Len(bytes), Over(d.regs, reg, bytes, Len(bytes)),
               d.dmp, d.fifo)
  BY <1>1, <1>2, <1>3, <1>6, <1>8, HeldThere
<1>12. TakesAt(d, reg, bytes, mem, R, d.dmp, d.fifo)
  BY <1>8, <1>9, <1>11
<1>13. addr \div 2 = d.addr
  BY <1>3
<1>14. to = Become(d, mem, R, d.dmp, d.fifo, d.said)
  BY <1>1, <1>2, <1>3, <1>10, <1>12, <1>13, IicWriteDoes
<1>15. to \in Devices
  <2>1. d.dmp \in Seq(Nat \X Nat) /\ d.fifo \in Seq(Nat) /\ d.said \in Seq(Nat)
    BY <1>3, DeviceHas
  <2>2. Become(d, mem, R, d.dmp, d.fifo, d.said) \in Devices
    <3>1. mem \in Nat /\ d \in Devices
      BY <1>2, <1>3
    <3> QED
      BY <1>5, <2>1, <3>1, StaysDevice
  <2> QED
    BY <1>14, <2>2
<1>16. to.addr = d.addr /\ to.width = d.width /\ to.chip = d.chip
       /\ to.regs = R /\ to.dmp = d.dmp
  BY <1>14, Becomes
<1>17. NoneFiled(to)
  BY <1>3, <1>16 DEF NoneFiled
<1>18. Base(to) = at
  BY <1>4, <1>7, <1>16 DEF Base, PointsAt
<1> QED
  BY <1>3, <1>15, <1>16, <1>17, <1>18

LEMMA BytesToDmp ==
  ASSUME NEW d, d \in Devices, NoneFiled(d), d.addr = 104, d.width = 1,
         NEW addr, addr \div 2 = 104, NEW buf \in Seq(Nat),
         NEW to, to = Meets(d, Send(addr, << 111 >> \o buf))
  PROVE  to.dmp = Filed(Base(d), buf, Len(buf))
<1> DEFINE mem == 111
           all == Filed(Base(d), buf, Len(buf))
<1>1. IsDmp(mem) /\ mem \in Word
  BY DEF IsDmp, Word
<1>2. to = Meets(d, Send(addr, <<mem>> \o buf)) /\ addr \div 2 = d.addr
  OBVIOUS
<1> HIDE DEF mem
<1>3. TakesAt(d, mem, buf, mem, d.regs, all, d.fifo)
  BY <1>1, DmpTakes
<1> HIDE DEF all
<1>4. to = Become(d, mem, d.regs, all, d.fifo, d.said)
  BY <1>1, <1>2, <1>3, IicWriteDoes
<1>5. to.dmp = all
  BY <1>4, Becomes
<1> QED
  BY <1>5 DEF all

Mine(addr) == addr \div 2 = 104
OneBank(at, buf) == Low(at) + Len(buf) <= 256

LEMMA DmpWire ==
  ASSUME NEW addr, NEW at \in Nat, TwoBytes(at), NEW buf \in Seq(Nat)
  PROVE  /\ ~OneBank(at, buf) => WriteMem(addr, at, buf) = <<>>
         /\ OneBank(at, buf) =>
              WriteMem(addr, at, buf) = <<Send(addr, << 109 >> \o <<High(at), Low(at)>>),
                                          Send(addr, << 111 >> \o buf)>>
<1> DEFINE x == Send(addr, << 109 >> \o <<High(at), Low(at)>>)
           y == Send(addr, << 111 >> \o buf)
           low == Low(at)
           len == Len(buf)
<1>1. /\ IicWrite(addr, 109, <<High(at), Low(at)>>) = <<x>>
      /\ IicWrite(addr, 111, buf) = <<y>>
  BY DEF IicWrite
<1>2. low \in Nat /\ len \in Nat
  BY DEF Low
<1>3. WriteMem(addr, at, buf)
        = IF low + len > 256 THEN <<>>
          ELSE IicWrite(addr, 109, <<High(at), Low(at)>>) \o IicWrite(addr, 111, buf)
  BY DEF WriteMem
<1>4. OneBank(at, buf) <=> low + len <= 256
  BY DEF OneBank
<1> HIDE DEF x, y, low, len
<1>5. <<x>> \o <<y>> = <<x, y>>
  BY PairIs
<1> DEFINE w == WriteMem(addr, at, buf)
           p == IicWrite(addr, 109, <<High(at), Low(at)>>)
           q == IicWrite(addr, 111, buf)
           pq == <<x>> \o <<y>>
<1>6. w = IF low + len > 256 THEN <<>> ELSE pq
  BY <1>1, <1>3
<1> HIDE DEF w, pq
<1>7. ~OneBank(at, buf) => w = <<>>
  BY <1>2, <1>4, <1>6
<1>8. OneBank(at, buf) => w = pq
  BY <1>2, <1>4, <1>6
<1> QED
  BY <1>5, <1>7, <1>8 DEF w, pq, x, y

(* The DMP's memory takes the bytes of one bank, or none. *)
LEMMA CarriedToDmp ==
  ASSUME NEW d, StartsAsChip(d), NEW addr, NEW at \in Nat, TwoBytes(at),
         NEW buf \in Seq(Nat)
  PROVE  /\ Mine(addr) /\ OneBank(at, buf) =>
              Talk(d, WriteMem(addr, at, buf)).dmp = Filed(at, buf, Len(buf))
         /\ ~(Mine(addr) /\ OneBank(at, buf)) =>
              Talk(d, WriteMem(addr, at, buf)).dmp = <<>>
<1> DEFINE w == WriteMem(addr, at, buf)
           x == Send(addr, << 109 >> \o <<High(at), Low(at)>>)
           y == Send(addr, << 111 >> \o buf)
           e == Meets(d, x)
           f == Meets(e, y)
           none == <<>>
<1>1. d.dmp = none /\ d.addr = 104
  BY DEF StartsAsChip, NoneFiled
<1>2. /\ ~OneBank(at, buf) => w = none
      /\ OneBank(at, buf) => w = <<x, y>>
  BY DmpWire
<1>3. ~Mine(addr) => Talk(d, w) = d
  <2> SUFFICES ASSUME ~Mine(addr) PROVE Talk(d, w) = d
    OBVIOUS
  <2>1. addr \div 2 # d.addr
    BY <1>1 DEF Mine
  <2> QED
    BY <2>1, NotOverIic
<1>4. Talk(d, none) = d
  BY TalkNone
<1>5. Talk(d, <<x, y>>) = f
  BY TalkTwo
<1>6. Mine(addr) => f.dmp = Filed(at, buf, Len(buf))
  <2> SUFFICES ASSUME Mine(addr) PROVE f.dmp = Filed(at, buf, Len(buf))
    OBVIOUS
  <2>1. addr \div 2 = 104
    BY DEF Mine
  <2>2. PICK v : v = e
    OBVIOUS
  <2>3. v \in Devices /\ NoneFiled(v) /\ v.addr = 104 /\ v.width = 1 /\ Base(v) = at
    BY <2>1, <2>2, PlaceTakes
  <2>4. PICK u : u = f
    OBVIOUS
  <2>5. u = Meets(v, y)
    BY <2>2, <2>4
  <2>6. u.dmp = Filed(Base(v), buf, Len(buf))
    BY <2>1, <2>3, <2>5, BytesToDmp
  <2> QED
    BY <2>3, <2>4, <2>6
<1> HIDE DEF w, x, y, e, f, none
<1>7. Mine(addr) /\ OneBank(at, buf) => Talk(d, w).dmp = Filed(at, buf, Len(buf))
  BY <1>2, <1>5, <1>6
<1>8. ~(Mine(addr) /\ OneBank(at, buf)) => Talk(d, w).dmp = none
  BY <1>1, <1>2, <1>3, <1>4
<1> QED
  BY <1>7, <1>8 DEF w, none

-----------------------------------------------------------------------------
LEMMA WiderSeq ==
  ASSUME NEW S, NEW T, S \subseteq T, NEW s \in Seq(S)
  PROVE  s \in Seq(T)
<1>1. Len(s) \in Nat /\ s \in [1 .. Len(s) -> S]
  OBVIOUS
<1>2. s \in [1 .. Len(s) -> T]
  BY <1>1
<1> QED
  BY <1>1, <1>2

LEMMA BytesSent ==
  ASSUME NEW in, Sendable(in)
  PROVE  /\ in.reg \in Word /\ in.at \in Nat /\ TwoBytes(in.at) /\ in.buf \in Seq(Nat)
         /\ HasRoom(in.reg, in.buf) /\ Len(in.buf) \in Nat /\ Len(in.buf) > 0
<1>1. in.buf \in Seq(0 .. 255) /\ in.buf # <<>>
  BY DEF Sendable
<1>2. in.buf \in Seq(Nat)
  <2> DEFINE Byte == 0 .. 255
  <2>1. Byte \subseteq Nat
    OBVIOUS
  <2> HIDE DEF Byte
  <2> QED
    BY <1>1, <2>1, WiderSeq DEF Byte
<1>3. Len(in.buf) \in Nat /\ Len(in.buf) > 0
  BY <1>1
<1>4. in.reg \in Word /\ in.at \in Nat /\ TwoBytes(in.at) /\ HasRoom(in.reg, in.buf)
  BY DEF Sendable, TwoBytes, HasRoom
<1> QED
  BY <1>2, <1>3, <1>4

LEMMA StartsFresh ==
  ASSUME NEW width \in {1, 2}
  PROVE  Fresh(Device(width), 104, width)
BY DeviceIs DEF Fresh

(* What Carried says of one write, part by part. *)
Held(addr, reg, buf) == IF addr \div 2 = 104 THEN Holds(reg, buf) ELSE Empty
Said(addr, buf) == IF addr \div 2 = 104 THEN buf ELSE <<>>

RightOverIic(addr, reg, buf) ==
  LET iic == Talk(Device(1), Mpu6050Write(addr, reg, buf))
      cmd == Talk(Device(1), IicWriteCmd(addr, <<reg>> \o buf))
  IN  /\ iic.regs = Held(addr, reg, buf)
      /\ Talk(iic, Mpu6050Read(addr, reg, Len(buf))).said = Said(addr, buf)
      /\ cmd.regs = Held(addr, reg, buf)
      /\ Talk([cmd EXCEPT !.at = reg], IicReadCmd(addr, Len(buf))).said = Said(addr, buf)
RightOverSpi(reg, buf) ==
  LET len == Len(buf)
      spi == SpiTalk(Device(1), Mpu9250Write(reg, buf))
  IN  /\ spi.regs = Holds(reg, buf)
      /\ SpiTalk(spi, Mpu9250Read(reg, len)).said = buf
      /\ SpiTalk(Device(1), SpiWriteCmd(<<reg>> \o buf)).regs = spi.regs
      /\ SpiTalk(spi, SpiTransmit(<<reg + 128>> \o Zeros(len))).said = <<Noise>> \o buf
      /\ SpiWriteRead(<<reg + 128>>, len)[1].out = <<reg + 128>>
      /\ SpiWriteRead(<<reg + 128>>, len)[2] = SpiReadCmd(len)
RightOver16(addr, reg, buf) ==
  LET iic16 == Talk(Device(2), IicWriteAddress16(addr, reg, buf))
  IN  /\ iic16.regs = Held(addr, reg, buf)
      /\ Talk(iic16, IicReadAddress16(addr, reg, Len(buf))).said = Said(addr, buf)
      /\ SpiSays16([Device(2) EXCEPT !.regs = Holds(reg, buf)],
                   SpiReadAddress16(reg, Len(buf))) = buf
RightInDmp(addr, at, buf) ==
  Talk([Device(1) EXCEPT !.chip = TRUE], WriteMem(addr, at, buf)).dmp
    = IF addr \div 2 = 104 /\ Low(at) + Len(buf) <= 256
        THEN [k \in 1 .. Len(buf) |-> <<at + k - 1, buf[k]>>] ELSE <<>>

LEMMA CarriedParts ==
  ASSUME NEW in,
         Seven(in.reg) => RightOverIic(in.addr, in.reg, in.buf),
         Seven(in.reg) => RightOverSpi(in.reg, in.buf),
         RightOver16(in.addr, in.reg, in.buf), RightInDmp(in.addr, in.at, in.buf)
  PROVE  CarriedRight(in)
BY DEF CarriedRight, RightOverIic, RightOverSpi, RightOver16, RightInDmp, Held, Said,
       Seven

LEMMA IicRight ==
  ASSUME NEW addr, NEW reg \in Word, NEW buf \in Seq(Nat), HasRoom(reg, buf)
  PROVE  RightOverIic(addr, reg, buf)
<1> DEFINE d == Device(1)
           len == Len(buf)
           w == IicWrite(addr, reg, buf)
           r == IicRead(addr, reg, len)
           cmd == Talk(d, IicWriteCmd(addr, <<reg>> \o buf))
           one == 1
<1>1. Fresh(d, 104, one)
  BY StartsFresh
<1>2. w = Mpu6050Write(addr, reg, buf) /\ r = Mpu6050Read(addr, reg, len)
  BY DEF Mpu6050Write, Mpu6050Read
<1> HIDE DEF d
<1>3. /\ cmd.regs = Held(addr, reg, buf)
      /\ Talk([cmd EXCEPT !.at = reg], IicReadCmd(addr, len)).said = Said(addr, buf)
  BY <1>1, CarriedAsCommand DEF Held, Said
<1>4. one = 1
  OBVIOUS
<1> HIDE DEF len, w, r, one
<1>5. len = Len(buf) /\ w = IicWrite(addr, reg, buf) /\ r = IicRead(addr, reg, len)
  BY DEF len, w, r
<1>6. /\ Talk(d, w).regs = Held(addr, reg, buf)
      /\ Talk(Talk(d, w), r).said = Said(addr, buf)
  BY <1>1, <1>4, <1>5, CarriedOverIic DEF Held, Said
<1> QED
  BY <1>2, <1>3, <1>6 DEF RightOverIic, d, len

LEMMA SpiRight ==
  ASSUME NEW reg \in Word, Seven(reg), NEW buf \in Seq(Nat), HasRoom(reg, buf),
         Len(buf) \in Nat, Len(buf) > 0
  PROVE  RightOverSpi(reg, buf)
<1> DEFINE d == Device(1)
           len == Len(buf)
           onto == reg + 128
<1>1. Fresh(d, 104, 1)
  BY StartsFresh
<1>2. onto \in Nat
  BY InWord
<1> HIDE DEF d
<1>3. ServedOverSpi(d, reg, buf, len)
  BY <1>1, CarriedOverSpi
<1> HIDE DEF onto
<1>4. SpiWriteRead(<<onto>>, len)[1].out = <<onto>> /\ SpiWriteRead(<<onto>>, len)[2] = SpiReadCmd(len)
  BY <1>2, CarriedTogether
<1> QED
  BY <1>3, <1>4 DEF RightOverSpi, ServedOverSpi, d, onto

LEMMA Right16 ==
  ASSUME NEW addr, NEW reg \in Word, NEW buf \in Seq(Nat), HasRoom(reg, buf)
  PROVE  RightOver16(addr, reg, buf)
<1> DEFINE d == Device(2)
           len == Len(buf)
           w == IicWriteAddress16(addr, reg, buf)
           r == IicReadAddress16(addr, reg, len)
           two == 2
<1>1. Fresh(d, 104, two) /\ two = 2
  BY StartsFresh
<1>2. len = Len(buf) /\ w = IicWriteAddress16(addr, reg, buf) /\ r = IicReadAddress16(addr, reg, len)
  OBVIOUS
<1> HIDE DEF d, len, w, r, two
<1>3. /\ Talk(d, w).regs = Held(addr, reg, buf)
      /\ Talk(Talk(d, w), r).said = Said(addr, buf)
  BY <1>1, <1>2, CarriedOverIic DEF Held, Said
<1>4. SpiSays16([d EXCEPT !.regs = Holds(reg, buf)], SpiReadAddress16(reg, Len(buf))) = buf
  BY <1>1, CarriedFrom16
<1> QED
  BY <1>2, <1>3, <1>4 DEF RightOver16, d

LEMMA DmpRight ==
  ASSUME NEW addr, NEW at \in Nat, TwoBytes(at), NEW buf \in Seq(Nat)
  PROVE  RightInDmp(addr, at, buf)
<1> DEFINE all == [k \in 1 .. Len(buf) |-> <<at + k - 1, buf[k]>>]
           none == <<>>
<1>1. PICK d : AtStart(d)
  BY DEF AtStart
<1>2. StartsAsChip(d)
  BY <1>1, ChipIs
<1> DEFINE dmp == Talk(d, WriteMem(addr, at, buf)).dmp
<1>3. /\ Mine(addr) /\ OneBank(at, buf) => dmp = Filed(at, buf, Len(buf))
      /\ ~(Mine(addr) /\ OneBank(at, buf)) => dmp = none
  BY <1>2, CarriedToDmp
<1>4. Filed(at, buf, Len(buf)) = all
  BY DEF Filed
<1> HIDE DEF dmp, all, none
<1>5. dmp = IF Mine(addr) /\ OneBank(at, buf) THEN all ELSE none
  BY <1>3, <1>4
<1>6. RightInDmp(addr, at, buf) <=> dmp = IF Mine(addr) /\ OneBank(at, buf) THEN all ELSE none
  BY <1>1 DEF RightInDmp, AtStart, dmp, all, none, Mine, OneBank
<1> QED
  BY <1>5, <1>6

(* Any bytes with room in the device, to any register and address. *)
LEMMA CarriedAlways ==
  ASSUME NEW in, Sendable(in)
  PROVE  CarriedRight(in)
<1>1. /\ in.reg \in Word /\ in.at \in Nat /\ TwoBytes(in.at) /\ in.buf \in Seq(Nat)
      /\ HasRoom(in.reg, in.buf) /\ Len(in.buf) \in Nat /\ Len(in.buf) > 0
  BY BytesSent
<1>2. RightOverIic(in.addr, in.reg, in.buf)
  BY <1>1, IicRight
<1>3. Seven(in.reg) => RightOverSpi(in.reg, in.buf)
  BY <1>1, SpiRight
<1>4. RightOver16(in.addr, in.reg, in.buf)
  BY <1>1, Right16
<1>5. RightInDmp(in.addr, in.at, in.buf)
  BY <1>1, DmpRight
<1> QED
  BY <1>2, <1>3, <1>4, <1>5, CarriedParts

-----------------------------------------------------------------------------
(* The functions' inputs, in every behaviour. *)
InputInv == part \in DOMAIN Inputs => input \in Inputs[part]

LEMMA InputStays == PartsSpec => []InputInv
<1>1. PartsInit => InputInv
  BY DEF PartsInit, InputInv, Inputs
<1>2. InputInv /\ [PartsNext]_<<vars, part, input, pwmVars, logVars>> => InputInv'
  <2> SUFFICES ASSUME InputInv, [PartsNext]_<<vars, part, input, pwmVars, logVars>>
               PROVE  InputInv'
    OBVIOUS
  <2>1. part' = part /\ input' = input
    BY DEF PartsNext
  <2> QED
    BY <2>1 DEF InputInv
<1> QED
  BY <1>1, <1>2, PTL DEF PartsSpec

(* Whatever the chip has sampled, however its fifo is set up and filled and
   however many samples are asked for: both drivers hand out what it stored. *)
THEOREM SamplesAreHandedOut == PartsSpec => []FieldsOfSamples
<1>1. InputInv => FieldsOfSamples
  <2> SUFFICES ASSUME InputInv, part = "samples" PROVE SamplesRight(input)
    BY DEF FieldsOfSamples
  <2>1. input \in SampleInputs
    BY DEF InputInv, Inputs
  <2>2. Sampled(input)
    BY <2>1, ReadingsAssumption
  <2> QED
    BY <2>2, SamplesAlways
<1> QED
  BY <1>1, InputStays, PTL

(* However the chip lies in its device, and whatever its biases. *)
THEOREM OrientedAnyWay == PartsSpec => []Oriented
<1>1. InputInv => Oriented
  <2> SUFFICES ASSUME InputInv, part = "orient" PROVE OrientRight(input)
    BY DEF Oriented
  <2>1. input \in OrientInputs
    BY DEF InputInv, Inputs
  <2> QED
    BY <2>1, OrientedAlways
<1> QED
  BY <1>1, InputStays, PTL

(* On a screen of any width and height, with 16 or 32 bits for a pixel, lines
   without padding, no offset, and at least the memory that is mapped: lines and
   rectangles from anywhere to anywhere on it, circles, text with or without its
   cells cleared, and the whole screen. *)
THEOREM DrawnAsAsked == PartsSpec => []DrawnInPlace
<1>1. InputInv => DrawnInPlace
  <2> SUFFICES ASSUME InputInv, part = "drawing" PROVE DrawnRight(input)
    BY DEF DrawnInPlace
  <2>1. input \in DrawInputs
    BY DEF InputInv, Inputs
  <2> QED
    BY <2>1, DrawnAlways
<1> QED
  BY <1>1, InputStays, PTL

(* Any bytes with room in the device, to any register, over either bus, and to
   any address of either; and any place in the DMP's memory. *)
THEOREM CarriedToTheChip == PartsSpec => []Carried
<1>1. InputInv => Carried
  <2> SUFFICES ASSUME InputInv, part = "wire" PROVE CarriedRight(input)
    BY DEF Carried
  <2>1. input \in WireInputs
    BY DEF InputInv, Inputs
  <2>2. Sendable(input)
    BY <2>1, BusesAssumption
  <2> QED
    BY <2>2, CarriedAlways
<1> QED
  BY <1>1, InputStays, PTL
=============================================================================
