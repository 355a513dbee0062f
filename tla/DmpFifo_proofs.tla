--------------------------- MODULE DmpFifo_proofs ---------------------------
(***************************************************************************)
(* The fifo, for packets and fifos of any size, any speed of the DMP and   *)
(* any number of failing transfers.                                        *)
(*                                                                         *)
(* Whether a misaligned fifo is noticed depends on the enable bits that    *)
(* reset_fifo clears and puts back: an overflow is latched only while they *)
(* are set.  The invariant says at which points of the driver they are,    *)
(* and that the fifo cannot fill up while they are not.                    *)
(***************************************************************************)
EXTENDS DmpFifo, TLAPS

(* TypeOK in two parts. *)
Flags ==
  /\ ovf \in BOOLEAN /\ lost \in BOOLEAN /\ dmpOn \in BOOLEAN /\ intOn \in BOOLEAN
  /\ inited \in BOOLEAN /\ good \in BOOLEAN

Numbers ==
  /\ count \in 0 .. FifoSize /\ skew \in 0 .. Len - 1
  /\ pc \in {"idle", "status", "count", "data", "parse", "returned", "mask",
             "flush", "enable", "unmask", "pedometer", "deinit", "done"}
  /\ res \in 0 .. 7
  /\ l \in 0 .. BufLen
  /\ avail \in 0 .. FifoSize
  /\ pace \in Paces /\ made \in 0 .. pace
  /\ fails \in 0 .. MaxFail

ResetPc == {"mask", "flush", "enable", "unmask"}

Noticeable == intOn /\ (skew = 0 \/ ovf \/ lost)

(* With at most one failure so far: *)
Aligned ==
  fails <= 1 /\ inited =>
    (* between transfers that succeed the fifo is aligned, or will show that
       it is not; *)
    /\ pc \in {"idle", "status", "count", "data", "parse", "pedometer"}
         => Noticeable
    /\ pc = "returned" /\ res = 0 => Noticeable
    (* before the error path's deinit too, unless a transfer failed, and
       then that deinit does not. *)
    /\ pc \in {"returned", "deinit"} /\ fails = 0 => Noticeable

(* What reset_fifo has done so far. *)
Resetting ==
  /\ pc \in ResetPc => res # 0
  /\ pc = "enable" => count = 0 /\ skew = 0 /\ ~dmpOn
  /\ pc = "unmask" => skew = 0 /\ count <= made /\ made <= Slack

IInv == TypeOK /\ ReadInBounds /\ Resetting /\ Aligned

(* GetEulerQuat passes the whole of its arrays. *)
Fresh == pc \in {"status", "count"} => l = BufLen

(* What a read leaves, and what is made until the next, fits. *)
Roomy ==
  /\ ~ovf /\ ~lost /\ skew = 0 /\ good /\ pc \notin ResetPc
  /\ pc = "data" => /\ count < pace + Len + made
                   /\ count < avail + Len + made
  /\ pc # "data" => count < Len + made

(* No transfer has failed, or only that of an earlier deinit: the handle is
   open and is not about to be closed. *)
Steady == \/ fails = 0
          \/ /\ fails = 1 /\ inited /\ pc # "deinit"
             /\ pc = "returned" => res = 0

RoomyInv == Fresh /\ (Slow /\ Steady => Roomy)

-----------------------------------------------------------------------------
(* What the steps need of the constants. *)
LEMMA Sizes ==
  /\ Len \in Nat /\ Len > 0 /\ FifoSize \in Nat /\ BufLen \in Nat
  /\ MaxFail \in Nat /\ Slack \in Nat /\ Slack < FifoSize
  /\ \A b \in Paces : b \in Nat /\ Slack <= b
BY DmpFifoAssumption DEF DmpFifoAssumption

(* Whole packets of so many bytes. *)
LEMMA DivBounds ==
  ASSUME NEW n \in Nat, NEW k \in Nat \ {0}
  PROVE  /\ n \div k \in Nat
         /\ (n \div k) * k <= n
         /\ n < (n \div k) * k + k
OBVIOUS

(* So many bytes hold no more packets than their bound does. *)
LEMMA DivBelow ==
  ASSUME NEW n \in Nat, NEW k \in Nat \ {0}, NEW m \in Nat, n <= m * k
  PROVE  n \div k <= m
BY DivBounds

(* Taking whole packets leaves the head where it is in its packet. *)
LEMMA ModShift ==
  ASSUME NEW k \in Nat \ {0}, NEW m \in Nat, NEW s \in 0 .. k - 1
  PROVE  (s + m * k) % k = s
OBVIOUS

(* An offset in a packet. *)
LEMMA ModRange ==
  ASSUME NEW n \in Nat, NEW k \in Nat \ {0}
  PROVE  n % k \in 0 .. k - 1
OBVIOUS

(* What ReadCount makes of n bytes in the fifo and room for b packets. *)
LEMMA Taken ==
  ASSUME NEW n \in 0 .. FifoSize, NEW b \in 0 .. BufLen
  PROVE  LET fits == Lesser(Lesser(n, FifoSize), b * Len) \div Len
         IN  /\ fits \in Nat /\ fits <= b
             /\ fits * Len \in 0 .. n
             /\ fits * Len <= BufLen * Len
             /\ n <= b * Len => n < fits * Len + Len
<1> DEFINE m == Lesser(Lesser(n, FifoSize), b * Len)
           fits == m \div Len
<1>1. b * Len \in Nat
  BY DmpFifoAssumption
<1>2. /\ m \in Nat /\ m <= n /\ m <= b * Len
      /\ n <= b * Len => m = n
  BY <1>1, DmpFifoAssumption DEF Lesser
<1> HIDE DEF m
<1>3. /\ fits \in Nat
      /\ fits * Len <= m
      /\ m < fits * Len + Len
  BY <1>2, DivBounds, DmpFifoAssumption
<1>4. fits <= b
  BY <1>2, DivBelow, DmpFifoAssumption
<1> HIDE DEF fits
<1>5. fits * Len \in Nat
  BY <1>3, DmpFifoAssumption
<1>6. b * Len <= BufLen * Len
  BY DmpFifoAssumption
<1>7. fits * Len \in 0 .. n /\ fits * Len <= BufLen * Len
  BY <1>1, <1>2, <1>3, <1>5, <1>6, DmpFifoAssumption
<1>8. n <= b * Len => n < fits * Len + Len
  BY <1>2, <1>3
<1> QED
  BY <1>3, <1>4, <1>7, <1>8 DEF m, fits

-----------------------------------------------------------------------------
(* The state that mpu6050_dmp_init leaves has the invariant. *)
LEMMA InitHolds == Init => IInv
<1> SUFFICES ASSUME Init PROVE IInv
  OBVIOUS
<1> USE Sizes
<1>1. TypeOK
  <2>1. Flags
    BY DEF Init, Flags
  <2>2. Numbers
    BY Sizes DEF Init, Numbers
  <2> QED
    BY <2>1, <2>2 DEF Flags, Numbers, TypeOK
<1>2. ReadInBounds /\ Resetting
  BY DEF Init, ReadInBounds, Resetting, ResetPc
<1>3. Aligned
  BY DEF Init, Aligned, Noticeable
<1> QED
  BY <1>1, <1>2, <1>3 DEF IInv

(* The chip keeps it, at any point of the driver's transfers. *)
LEMMA ProduceHolds == IInv /\ Produce => IInv'
<1> SUFFICES ASSUME IInv, Produce PROVE IInv'
  OBVIOUS
<1>1. Flags /\ Numbers
  BY DEF IInv, TypeOK, Flags, Numbers
<1>2. Flags'
  BY <1>1 DEF Produce, driver, Flags
<1>3. /\ made' = made + 1 /\ made < pace
      /\ pc = "unmask" => made < Slack
      /\ pc # "enable"
      /\ UNCHANGED <<pace, pc, res, l, avail, fails>>
  <2>1. made < (IF pc \in {"data", "unmask"} THEN Slack ELSE pace)
    BY DEF Produce
  <2>2. made < pace
    BY <2>1, <1>1, Sizes DEF Numbers
  <2>3. pc # "enable"
    BY DEF Produce, IInv, Resetting
  <2> QED
    BY <2>1, <2>2, <2>3 DEF Produce, driver
<1>4. \/ count' = count + 1 /\ count < FifoSize /\ skew' = skew
      \/ count' = count /\ count = FifoSize /\ skew' = (skew + 1) % Len
  <2>1. \/ count' = count + 1 /\ count < FifoSize /\ skew' = skew
        \/ count' = count /\ ~(count < FifoSize) /\ skew' = (skew + 1) % Len
    BY DEF Produce
  <2> QED
    BY <2>1, <1>1, Sizes DEF Numbers
<1>5. Numbers'
  <2>1. count' \in 0 .. FifoSize /\ made' \in 0 .. pace
    BY <1>1, <1>3, <1>4, Sizes DEF Numbers
  <2>2. skew' \in 0 .. Len - 1
    BY <1>1, <1>4, ModRange, Sizes DEF Numbers
  <2> QED
    BY <1>1, <1>3, <2>1, <2>2 DEF Numbers
<1>6. ReadInBounds'
  <2>1. ReadInBounds /\ count <= count'
    BY <1>1, <1>4, Sizes DEF IInv, Numbers
  <2> QED
    BY <1>1, <1>3, <1>5, <2>1, Sizes DEF ReadInBounds, Numbers
<1>7. Resetting'
  <2>1. ASSUME pc = "unmask"
        PROVE  skew' = 0 /\ count' <= made' /\ made' <= Slack
    <3>1. skew = 0 /\ count <= made /\ made <= Slack
      BY <2>1 DEF IInv, Resetting
    <3> QED
      BY <2>1, <3>1, <1>1, <1>3, <1>4, Sizes DEF Numbers
  <2> QED
    BY <2>1, <1>3 DEF IInv, Resetting
<1>8. Aligned'
  BY DEF Produce, driver, IInv, Aligned, Noticeable, ResetPc, TypeOK
<1> QED
  BY <1>2, <1>5, <1>6, <1>7, <1>8 DEF IInv, TypeOK, Flags, Numbers

(* FIFO_COUNT is turned into whole packets that fit. *)
LEMMA ReadCountHolds == IInv /\ ReadCount => IInv'
<1> SUFFICES ASSUME IInv, ReadCount PROVE IInv'
  OBVIOUS
<1>1. Flags /\ Numbers
  BY DEF IInv, TypeOK, Flags, Numbers
<1>2. Flags'
  BY <1>1 DEF ReadCount, AnyRead, Flags
<1>3. /\ avail' = l' * Len /\ avail' <= BufLen * Len
      /\ avail' \in 0 .. count
      /\ l' \in Nat /\ l' <= l
  <2>1. count \in 0 .. FifoSize /\ l \in 0 .. BufLen
    BY <1>1 DEF Numbers
  <2> QED
    BY <2>1, Taken DEF ReadCount
<1>4. /\ made' = 0 /\ pc' = "data"
      /\ UNCHANGED <<count, skew, res, pace, fails>>
  BY DEF ReadCount, Goto
<1>5. Numbers'
  <2>1. avail' \in 0 .. FifoSize
    <3>1. avail' \in 0 .. count
      BY <1>3
    <3> QED
      BY <3>1, <1>1, Sizes DEF Numbers
  <2>2. l' \in 0 .. BufLen
    <3>1. l' \in Nat /\ l' <= l
      BY <1>3
    <3> QED
      BY <3>1, <1>1, Sizes DEF Numbers
  <2>3. pc' = "data" /\ 0 \in 0 .. pace
    BY <1>1, <1>4, Sizes DEF Numbers
  <2> QED
    BY <1>1, <1>4, <2>1, <2>2, <2>3 DEF Numbers
<1>6. ReadInBounds'
  <2>1. avail' <= count'
    BY <1>1, <1>3, <1>4 DEF Numbers
  <2> QED
    BY <1>3, <2>1 DEF ReadInBounds
<1>7. Resetting' /\ Aligned'
  BY DEF IInv, ReadCount, Goto, AnyRead, Resetting, Aligned, Noticeable,
     ResetPc, TypeOK
<1> QED
  BY <1>2, <1>5, <1>6, <1>7 DEF IInv, TypeOK, Flags, Numbers

(* A read may clear the latch, but not what is known of the fifo. *)
LEMMA AnyReadKeeps ==
  ASSUME Flags, AnyRead
  PROVE  /\ ovf' \in BOOLEAN /\ lost' \in BOOLEAN
         /\ ovf \/ lost <=> ovf' \/ lost'
<1>1. CASE UNCHANGED <<ovf, lost>>
  BY <1>1 DEF Flags
<1>2. CASE ovf /\ ovf' = FALSE /\ lost' = TRUE
  BY <1>2
<1> QED
  BY <1>1, <1>2 DEF AnyRead

(* The steps that only read leave the enable bits. *)
LEMMA ReadsHold ==
  ASSUME IInv, \/ ReadCountFails \/ ReadData \/ ReadDataFails \/ Parse
               \/ ParseFails \/ Pedometer \/ PedometerFails
  PROVE  IInv'
<1>1. Flags /\ Numbers /\ AnyRead
  BY DEF IInv, TypeOK, Flags, Numbers, ReadCountFails, ReadData,
     ReadDataFails, Parse, ParseFails, Pedometer, PedometerFails
<1>2. Flags'
  BY <1>1, AnyReadKeeps DEF Flags, ReadCountFails, ReadData, ReadDataFails,
     Parse, ParseFails, Pedometer, PedometerFails
<1> USE Sizes DEF Goto, Return, Fails
<1>3. Numbers'
  <2>1. CASE ReadCountFails \/ ParseFails \/ PedometerFails \/ Pedometer
    BY <1>1, <2>1 DEF Numbers, ReadCountFails, ParseFails, PedometerFails,
       Pedometer
  <2>2. CASE ReadData
    <3>1. avail \in 0 .. FifoSize /\ avail <= count /\ count \in 0 .. FifoSize
          /\ skew \in 0 .. Len - 1
      BY <1>1, <2>2 DEF Numbers, ReadData, IInv, ReadInBounds
    <3>2. count' \in 0 .. FifoSize
      BY <2>2, <3>1 DEF ReadData
    <3>3. skew' \in 0 .. Len - 1
      BY <2>2, <3>1, ModRange DEF ReadData
    <3>4. pc' \in {"returned", "parse"} /\ res' \in 0 .. 7
      BY <1>1, <2>2 DEF Numbers, ReadData
    <3> QED
      BY <1>1, <2>2, <3>2, <3>3, <3>4 DEF Numbers, ReadData
  <2>3. CASE ReadDataFails
    BY <1>1, <2>3, ModRange DEF Numbers, ReadDataFails, IInv, ReadInBounds
  <2>4. CASE Parse
    BY <1>1, <2>4 DEF Numbers, Parse
  <2> QED
    BY <2>1, <2>2, <2>3, <2>4
<1>4. ReadInBounds' /\ Resetting'
  BY DEF IInv, ReadInBounds, Resetting, ResetPc, ReadCountFails, ReadData,
     ReadDataFails, Parse, ParseFails, Pedometer, PedometerFails
<1>5. Aligned'
  <2>1. ovf \/ lost <=> ovf' \/ lost'
    BY <1>1, AnyReadKeeps
  <2>2. CASE ReadData
    <3>1. avail = l * Len /\ l \in Nat /\ skew \in 0 .. Len - 1
      BY <1>1, <2>2 DEF ReadData, IInv, ReadInBounds, Numbers
    <3>2. skew' = skew
      BY <2>2, <3>1, ModShift DEF ReadData
    <3>3. /\ pc = "data" /\ pc' \in {"returned", "parse"}
          /\ pc' = "returned" => res' = 7
          /\ UNCHANGED <<intOn, inited, fails>>
      BY <2>2 DEF ReadData
    <3>4. fails' <= 1 /\ inited' => Noticeable
      BY <3>3 DEF IInv, Aligned
    <3>5. Noticeable => Noticeable'
      BY <2>1, <3>2, <3>3 DEF Noticeable
    <3> QED
      BY <3>3, <3>4, <3>5 DEF Aligned
  <2>3. CASE ReadCountFails \/ ReadDataFails \/ ParseFails \/ PedometerFails
    <3>1. fails' = fails + 1 /\ fails \in Nat
      BY <1>1, <2>3 DEF Numbers, ReadCountFails, ReadDataFails, ParseFails,
         PedometerFails
    <3>2. fails' # 0
      BY <3>1
    <3>3. (pc' = "returned" /\ res' = 1) \/ pc' = "deinit"
      BY <2>3 DEF ReadCountFails, ReadDataFails, ParseFails, PedometerFails
    <3> QED
      BY <3>2, <3>3 DEF Aligned
  <2>4. CASE Parse \/ Pedometer
    BY <2>1, <2>4 DEF IInv, Aligned, Noticeable, Parse, Pedometer
  <2> QED
    BY <2>2, <2>3, <2>4
<1> QED
  BY <1>2, <1>3, <1>4, <1>5 DEF IInv, TypeOK, Flags, Numbers

(* Every step keeps it. *)
LEMMA StepHolds == IInv /\ [Next]_vars => IInv'
<1> SUFFICES ASSUME IInv, [Next]_vars PROVE IInv'
  OBVIOUS
<1> USE Sizes DEF IInv, TypeOK, Resetting, ReadInBounds, Aligned,
                              Noticeable, ResetPc, AnyRead
<1>1. CASE Produce
  BY <1>1, ProduceHolds DEF IInv
<1>2. CASE CallRead
  BY <1>2 DEF CallRead, Goto, Return, chip
<1>3. CASE ReadStatus
  <2> USE <1>3 DEF ReadStatus, Goto, Return
  <2>1. TypeOK'
    <3>1. Flags'
      BY DEF Flags
    <3>2. Numbers'
      BY DEF Numbers
    <3> QED
      BY <3>1, <3>2 DEF Flags, Numbers
  <2>2. ReadInBounds'
    OBVIOUS
  <2>3. Resetting'
    OBVIOUS
  <2>4. Aligned'
    OBVIOUS
  <2> QED
    BY <2>1, <2>2, <2>3, <2>4
<1>4. CASE ReadStatusFails
  BY <1>4 DEF ReadStatusFails, Goto, Return, chip, Fails
<1>5. CASE ReadCount
  BY <1>5, ReadCountHolds DEF IInv
<1>6. CASE ReadCountFails
  BY <1>6, ReadsHold DEF IInv
<1>7. CASE ReadData
  BY <1>7, ReadsHold DEF IInv
<1>8. CASE ReadDataFails
  BY <1>8, ReadsHold DEF IInv
<1>9. CASE Parse
  BY <1>9, ReadsHold DEF IInv
<1>10. CASE ParseFails
  BY <1>10, ReadsHold DEF IInv
<1>11. CASE ResetMask
  BY <1>11 DEF ResetMask, Goto, Return
<1>12. CASE ResetFlush
  <2> USE <1>12 DEF ResetFlush, Goto
  <2>1. TypeOK'
    <3>1. Flags'
      BY DEF Flags
    <3>2. Numbers'
      BY DEF Numbers
    <3> QED
      BY <3>1, <3>2 DEF Flags, Numbers
  <2>2. ReadInBounds'
    OBVIOUS
  <2>3. Resetting'
    OBVIOUS
  <2>4. Aligned'
    OBVIOUS
  <2> QED
    BY <2>1, <2>2, <2>3, <2>4
<1>13. CASE ResetEnable
  BY <1>13 DEF ResetEnable, Goto, Return
<1>14. CASE ResetUnmask
  BY <1>14 DEF ResetUnmask, Goto, Return
<1>15. CASE ResetFails
  <2> USE <1>15 DEF ResetFails, Goto, Fails
  <2>1. TypeOK'
    <3>1. Flags'
      BY DEF Flags
    <3>2. Numbers'
      BY DEF Numbers
    <3> QED
      BY <3>1, <3>2 DEF Flags, Numbers
  <2>2. ReadInBounds'
    OBVIOUS
  <2>3. Resetting'
    OBVIOUS
  <2>4. Aligned'
    OBVIOUS
  <2> QED
    BY <2>1, <2>2, <2>3, <2>4
<1>16. CASE Succeeds
  BY <1>16 DEF Succeeds, Goto, Return, chip
<1>17. CASE Pedometer
  BY <1>17, ReadsHold DEF IInv
<1>18. CASE PedometerFails
  BY <1>18, ReadsHold DEF IInv
<1>19. CASE GivesUp
  BY <1>19 DEF GivesUp, Goto, Return, chip
<1>20. CASE Deinit
  BY <1>20 DEF Deinit, Goto, Return, AfterDeinit
<1>21. CASE DeinitFails
  <2>1. dmpOn' = dmpOn \/ dmpOn' = FALSE
    BY <1>21 DEF DeinitFails
  <2>2. dmpOn' \in BOOLEAN
    BY <2>1 DEF IInv, TypeOK
  <2> QED
    BY <1>21, <2>2 DEF DeinitFails, Goto, Fails, AfterDeinit
<1>22. CASE UNCHANGED vars
  BY <1>22 DEF vars, chip, driver
<1> QED
  BY <1>1, <1>2, <1>3, <1>4, <1>5, <1>6, <1>7, <1>8, <1>9, <1>10, <1>11, <1>12,
     <1>13, <1>14, <1>15, <1>16, <1>17, <1>18, <1>19, <1>20, <1>21, <1>22
     DEF Next, ReadStep, ResetStep, CallerStep

(* The invariant holds at all times. *)
LEMMA Invariance == Spec => []IInv
<1> QED
  BY InitHolds, StepHolds, PTL DEF Spec

(* Type correctness: the counters of the driver stay within the chip's fifo
   and the caller's arrays. *)
THEOREM TypeCorrect == Spec => []TypeOK
<1>1. IInv => TypeOK
  BY DEF IInv
<1> QED
  BY <1>1, Invariance, PTL

(* A data transfer asks for whole packets that the fifo holds and the arrays
   take, whatever the chip stores and drops meanwhile. *)
THEOREM ReadStaysInBounds == Spec => []ReadInBounds
<1>1. IInv => ReadInBounds
  BY DEF IInv
<1> QED
  BY <1>1, Invariance, PTL

-----------------------------------------------------------------------------
(* GetEulerQuat passes its arrays anew on every call. *)
LEMMA FreshHolds ==
  ASSUME Caller = "GetEulerQuat", IInv, Fresh, [Next]_vars
  PROVE  Fresh'
<1>1. CASE CallRead
  BY <1>1 DEF CallRead, Goto, Return, Fresh, chip
<1>2. CASE ReadStatus \/ ReadStatusFails
  BY <1>2 DEF ReadStatus, ReadStatusFails, Goto, Return, Fresh, chip
<1>3. CASE Produce \/ UNCHANGED vars
  BY <1>3 DEF Produce, vars, driver, Fresh
<1>4. ASSUME ReadCount \/ ReadCountFails \/ ReadData \/ ReadDataFails \/ Parse
               \/ ParseFails \/ ResetStep \/ CallerStep
      PROVE  pc' \notin {"status", "count"}
  BY <1>4 DEF ReadCount, ReadCountFails, ReadData, ReadDataFails, Parse,
     ParseFails, ResetStep, ResetMask, ResetFlush, ResetEnable, ResetUnmask,
     ResetFails, CallerStep, Succeeds, Pedometer, PedometerFails, GivesUp,
     Deinit, DeinitFails, AfterDeinit, Goto, Return
<1> QED
  BY <1>1, <1>2, <1>3, <1>4 DEF Next, ReadStep, Fresh

(* No read latches an overflow. *)
LEMMA AnyReadClear ==
  ASSUME AnyRead, ~ovf, ~lost
  PROVE  ~ovf' /\ ~lost'
BY DEF AnyRead

(* No step uses up the room, if no transfer fails but that of a deinit. *)
LEMMA RoomyHolds ==
  ASSUME IInv, Fresh, Slow, Steady, Roomy, [Next]_vars, Steady'
  PROVE  Roomy'
<1>1. Numbers
  BY DEF IInv, TypeOK, Numbers
<1>2. fails' = fails + 1 =>
        /\ pc' # "deinit" /\ (pc' = "returned" => res' = 0)
        /\ fails = 0
  BY <1>1, Sizes DEF Steady, Numbers
<1>3. CASE Produce
  <2>1. made < (IF pc \in {"data", "unmask"} THEN Slack ELSE pace)
        /\ made' = made + 1 /\ UNCHANGED <<pace, pc, avail, good>>
    BY <1>3 DEF Produce, driver
  <2>2. pc # "unmask"
    BY DEF Roomy, ResetPc
  <2>3. count < FifoSize
    BY <1>1, <2>1, <2>2, Sizes DEF Numbers, Slow, Roomy
  <2>4. count' = count + 1 /\ UNCHANGED <<skew, ovf, lost>>
    BY <1>3, <2>3 DEF Produce
  <2>5. ~ovf' /\ ~lost' /\ skew' = 0 /\ good' /\ pc' \notin ResetPc
    BY <2>1, <2>4 DEF Roomy
  <2>6. /\ pc = "data" => /\ count < pace + Len + made
                         /\ count < avail + Len + made
        /\ pc # "data" => count < Len + made
    BY DEF Roomy
  <2>7. /\ pc' = "data" => /\ count' < pace' + Len + made'
                          /\ count' < avail' + Len + made'
        /\ pc' # "data" => count' < Len + made'
    BY <1>1, <2>1, <2>4, <2>6, Sizes DEF Numbers
  <2> QED
    BY <2>5, <2>7 DEF Roomy
<1>4. CASE ReadCount
  <2>1. l = BufLen
    BY <1>4 DEF ReadCount, Fresh
  <2>2. pc' = "data" /\ made' = 0 /\ UNCHANGED <<pace, count, skew, good>>
    BY <1>4 DEF ReadCount, Goto
  <2>3. count < Len + made
    BY <1>4 DEF ReadCount, Roomy
  <2>4. count < pace + Len
    BY <1>1, <2>3, Sizes DEF Numbers
  <2>5. count < avail' + Len
    <3>1. count <= BufLen * Len
      BY <1>1, <2>4, Sizes DEF Slow, Numbers
    <3> QED
      BY <1>1, <1>4, <2>1, <3>1, Taken, Sizes DEF ReadCount, Numbers
  <2>6. avail' \in Nat
    BY <1>4, ReadCountHolds DEF IInv, TypeOK
  <2>7. ~ovf' /\ ~lost' /\ skew' = 0 /\ good' /\ pc' \notin ResetPc
    BY <1>4, <2>2, AnyReadClear DEF ReadCount, Roomy, ResetPc
  <2>8. count' < pace' + Len + made' /\ count' < avail' + Len + made'
    <3>1. avail' + Len + made' = avail' + Len
      BY <2>2, <2>6, Sizes
    <3>2. pace' + Len + made' = pace + Len
      BY <1>1, <2>2, Sizes DEF Numbers
    <3> QED
      BY <2>2, <2>4, <2>5, <3>1, <3>2
  <2> QED
    BY <2>2, <2>7, <2>8 DEF Roomy
<1>5. CASE ReadData
  <2>1. avail = l * Len
    BY <1>5 DEF ReadData, IInv, ReadInBounds
  <2>2. skew' = 0
    BY <1>1, <1>5, <2>1, ModShift, Sizes DEF ReadData, Roomy, Numbers
  <2>3. count' = count - avail /\ count < avail + Len + made
        /\ UNCHANGED made
    BY <1>5 DEF ReadData, Roomy
  <2>4. count' < Len + made'
    BY <1>1, <2>3, Sizes DEF Numbers
  <2>5. ~ovf' /\ ~lost' /\ good' /\ pc' \in {"returned", "parse"}
    BY <1>5, AnyReadClear DEF ReadData, Roomy, Goto, Return
  <2> QED
    BY <2>2, <2>4, <2>5 DEF Roomy, ResetPc
<1>6. CASE CallRead \/ Succeeds \/ Pedometer \/ GivesUp
  <2>1. /\ pc # "data" /\ pc' # "data" /\ pc' \notin ResetPc
        /\ UNCHANGED <<count, skew, good, made>>
    BY <1>6 DEF CallRead, Succeeds, Pedometer, GivesUp, Goto, Return, chip,
       ResetPc
  <2>2. ~ovf' /\ ~lost'
    <3>1. ~ovf /\ ~lost
      BY DEF Roomy
    <3>2. CASE Pedometer
      BY <3>1, <3>2, AnyReadClear DEF Pedometer
    <3>3. CASE CallRead \/ Succeeds \/ GivesUp
      BY <3>1, <3>3 DEF CallRead, Succeeds, GivesUp, chip
    <3> QED
      BY <1>6, <3>2, <3>3
  <2> QED
    BY <2>1, <2>2 DEF Roomy
<1>7. CASE ReadStatusFails \/ ReadCountFails \/ ReadDataFails \/ ParseFails
             \/ ResetFails \/ PedometerFails
  <2>1. fails' = fails + 1
    BY <1>7 DEF ReadStatusFails, ReadCountFails, ReadDataFails, ParseFails,
       ResetFails, PedometerFails, Fails
  <2>2. ~ResetFails
    BY DEF ResetFails, Roomy, ResetPc
  <2>3. pc' = "deinit" \/ (pc' = "returned" /\ res' = 1)
    BY <1>7, <2>2 DEF ReadStatusFails, ReadCountFails, ReadDataFails,
       ParseFails, PedometerFails, Return, Goto
  <2> QED
    BY <1>2, <2>1, <2>3
<1>13. CASE DeinitFails
  <2>1. /\ pc = "deinit" /\ pc' \in {"idle", "done"}
        /\ UNCHANGED <<count, skew, ovf, lost, good, made>>
    BY <1>13 DEF DeinitFails, AfterDeinit, Goto
  <2> QED
    BY <2>1 DEF Roomy, ResetPc
<1>8. CASE ResetMask \/ ResetFlush \/ ResetEnable \/ ResetUnmask
  BY <1>8 DEF ResetMask, ResetFlush, ResetEnable, ResetUnmask, Roomy, ResetPc
<1>9. CASE ReadStatus
  <2>1. /\ pc = "status" /\ pc' = "count" /\ ~ovf' /\ ~lost'
        /\ UNCHANGED <<count, skew, good, made>>
    BY <1>9 DEF ReadStatus, Roomy, Goto
  <2> QED
    BY <2>1 DEF Roomy, ResetPc
<1>10. CASE Parse
  <2>1. /\ pc = "parse" /\ pc' = "returned" /\ ~ovf' /\ ~lost'
        /\ UNCHANGED <<count, skew, good, made>>
    BY <1>10, AnyReadClear DEF Parse, Roomy, Goto, Return
  <2> QED
    BY <2>1 DEF Roomy, ResetPc
<1>11. CASE Deinit
  <2>1. /\ pc = "deinit" /\ pc' \in {"idle", "done"}
        /\ UNCHANGED <<count, skew, ovf, lost, good, made>>
    BY <1>11 DEF Deinit, AfterDeinit, Goto
  <2> QED
    BY <2>1 DEF Roomy, ResetPc
<1>12. CASE UNCHANGED vars
  BY <1>12 DEF vars, chip, driver, Roomy
<1> QED
  BY <1>3, <1>4, <1>5, <1>6, <1>7, <1>8, <1>9, <1>10, <1>11,
     <1>12, <1>13 DEF Next, ReadStep,
     ResetStep, CallerStep

(* The pace is fixed, failures are only added, and a handle that is about to be
   closed is closed unless that fails. *)
LEMMA PaceKept ==
  ASSUME IInv, [Next]_vars
  PROVE  pace' = pace /\ (Steady' => Steady)
<1>1. fails \in Nat
  BY Sizes DEF IInv, TypeOK
<1>2. pace' = pace
  BY DEF Next, ReadStep, ResetStep, CallerStep, Produce, CallRead, ReadStatus,
     ReadStatusFails, ReadCount, ReadCountFails, ReadData, ReadDataFails,
     Parse, ParseFails, ResetMask, ResetFlush, ResetEnable, ResetUnmask,
     ResetFails, Succeeds, Pedometer, PedometerFails, GivesUp, Deinit,
     DeinitFails, vars
<1>3. fails' = fails \/ fails' = fails + 1
  BY DEF Next, ReadStep, ResetStep, CallerStep, Produce, CallRead, ReadStatus,
     ReadStatusFails, ReadCount, ReadCountFails, ReadData, ReadDataFails,
     Parse, ParseFails, ResetMask, ResetFlush, ResetEnable, ResetUnmask,
     ResetFails, Succeeds, Pedometer, PedometerFails, GivesUp, Deinit,
     DeinitFails, vars, Fails
<1>4. inited' => inited
  BY DEF Next, ReadStep, ResetStep, CallerStep, Produce, CallRead, ReadStatus,
     ReadStatusFails, ReadCount, ReadCountFails, ReadData, ReadDataFails,
     Parse, ParseFails, ResetMask, ResetFlush, ResetEnable, ResetUnmask,
     ResetFails, Succeeds, Pedometer, PedometerFails, GivesUp, Deinit,
     DeinitFails, vars, driver
<1>5. ASSUME fails' = fails, inited', pc = "deinit" PROVE pc' = "deinit"
  <2>1. CASE Produce \/ UNCHANGED vars
    BY <1>5, <2>1 DEF Produce, vars, driver
  <2>2. CASE DeinitFails
    BY <1>1, <1>5, <2>2 DEF DeinitFails, Fails
  <2>3. CASE Deinit
    BY <1>5, <2>3 DEF Deinit
  <2> QED
    BY <1>5, <2>1, <2>2, <2>3 DEF Next, ReadStep, ResetStep, CallerStep,
       CallRead, ReadStatus, ReadStatusFails, ReadCount, ReadCountFails,
       ReadData, ReadDataFails, Parse, ParseFails, ResetMask, ResetFlush,
       ResetEnable, ResetUnmask, ResetFails, Succeeds, Pedometer,
       PedometerFails, GivesUp
<1>6. ASSUME pc = "returned", res # 0
      PROVE  pc' = "deinit" \/ (pc' = "returned" /\ res' # 0)
  <2>1. CASE Produce \/ UNCHANGED vars
    BY <1>6, <2>1 DEF Produce, vars, driver
  <2>2. CASE GivesUp
    BY <2>2 DEF GivesUp, Goto
  <2> QED
    BY <1>6, <2>1, <2>2 DEF Next, ReadStep, ResetStep, CallerStep,
       CallRead, ReadStatus, ReadStatusFails, ReadCount, ReadCountFails,
       ReadData, ReadDataFails, Parse, ParseFails, ResetMask, ResetFlush,
       ResetEnable, ResetUnmask, ResetFails, Succeeds, Pedometer,
       PedometerFails, Deinit, DeinitFails
<1> QED
  BY <1>1, <1>2, <1>3, <1>4, <1>5, <1>6 DEF Steady

(* Both invariants hold at all times. *)
LEMMA RoomyInvariance ==
  ASSUME Caller = "GetEulerQuat"
  PROVE  Spec => [](IInv /\ RoomyInv)
<1>1. Init => IInv /\ RoomyInv
  <2> SUFFICES ASSUME Init PROVE RoomyInv
    BY InitHolds
  <2> QED
    BY Sizes DEF Init, RoomyInv, Fresh, Roomy, ResetPc, Steady
<1>2. IInv /\ RoomyInv /\ [Next]_vars => (IInv /\ RoomyInv)'
  <2> SUFFICES ASSUME IInv, RoomyInv, [Next]_vars PROVE RoomyInv'
    BY StepHolds
  <2>1. Fresh'
    BY FreshHolds DEF RoomyInv
  <2>2. ASSUME Slow', Steady' PROVE Roomy'
    <3>1. Slow /\ Steady
      BY <2>2, PaceKept DEF Slow
    <3> QED
      BY <2>2, <3>1, RoomyHolds DEF RoomyInv
  <2> QED
    BY <2>1, <2>2 DEF RoomyInv
<1> QED
  BY <1>1, <1>2, PTL DEF Spec

(* A DMP that is slow enough for the arrays and the fifo never overruns the
   fifo, at whatever points of mpu6050_dmp_read its bytes arrive. *)
THEOREM KeepsPace ==
  ASSUME Caller = "GetEulerQuat"
  PROVE  Spec => []KeepsUp
<1>1. RoomyInv => KeepsUp
  BY DEF RoomyInv, Roomy, Steady, KeepsUp
<1> QED
  BY <1>1, RoomyInvariance, PTL

(* With one failed transfer at most, no call reads a misaligned fifo through an
   open handle if GetEulerQuat calls and the DMP is slow enough.  At any other
   pace, and under Mpu6050Test, one does only after an overflow whose flag a
   register read of the driver itself cleared once INT_STATUS had been read. *)
THEOREM SkewIsNoticed == Spec => []SkewNoticed
<1>1. IInv => (fails <= 1 /\ pc \in {"idle", "status"} /\ inited
                 => skew = 0 \/ ovf \/ lost)
  BY DEF IInv, Aligned, Noticeable
<1>2. CASE Caller = "GetEulerQuat"
  <2>1. IInv /\ RoomyInv => SkewNoticed
    <3> SUFFICES ASSUME IInv, RoomyInv, fails <= 1, pc \in {"idle", "status"},
                        inited, Slow
                 PROVE  skew = 0
      BY <1>1 DEF SkewNoticed
    <3>1. fails \in Nat
      BY Sizes DEF IInv, TypeOK
    <3>2. Steady
      BY <3>1 DEF Steady
    <3> QED
      BY <3>2 DEF RoomyInv, Roomy
  <2> QED
    BY <1>2, <2>1, RoomyInvariance, PTL
<1>3. CASE Caller # "GetEulerQuat"
  <2>1. IInv => SkewNoticed
    BY <1>1, <1>3 DEF SkewNoticed
  <2> QED
    BY <2>1, Invariance, PTL
<1> QED
  BY <1>2, <1>3

(* GetEulerQuat's reads leave nothing that its arrays had room for. *)
THEOREM NothingLeftBehind ==
  ASSUME Caller = "GetEulerQuat"
  PROVE  Spec => TakesAllThatFits
<1>1. ASSUME IInv, RoomyInv, [Next]_vars, pc = "count", pc' = "data"
      PROVE  avail' = (Lesser(count, BufLen * Len) \div Len) * Len
  <2>1. ReadCount
    BY <1>1 DEF Next, ReadStep, ResetStep, CallerStep, Produce, CallRead,
       ReadStatus, ReadStatusFails, ReadCountFails, ReadData, ReadDataFails,
       Parse, ParseFails, ResetMask, ResetFlush, ResetEnable, ResetUnmask,
       ResetFails, Succeeds, Pedometer, PedometerFails, GivesUp, Deinit,
       DeinitFails, AfterDeinit, Goto, Return, vars, driver
  <2>2. l = BufLen
    BY <1>1 DEF RoomyInv, Fresh
  <2>3. count \in 0 .. FifoSize
    BY <1>1 DEF IInv, TypeOK
  <2>4. Lesser(count, FifoSize) = count
    BY <2>3, Sizes DEF Lesser
  <2> QED
    BY <2>1, <2>2, <2>4 DEF ReadCount
<1>2. IInv /\ RoomyInv /\ [Next]_vars =>
        [pc = "count" /\ pc' = "data"
           => avail' = (Lesser(count, BufLen * Len) \div Len) * Len]_vars
  BY <1>1
<1> QED
  BY <1>2, RoomyInvariance, PTL DEF Spec, TakesAllThatFits
=============================================================================
