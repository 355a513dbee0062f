------------------------------ MODULE DmpFifo ------------------------------
(***************************************************************************)
(* The MPU6050's DMP fifo between the chip, which fills it at its own      *)
(* pace, and mpu6050_dmp_read with its two callers, GetEulerQuat and       *)
(* Mpu6050Test (imu/mpu6050.cc, imu/mpu6050/driver_mpu6050.cpp); Mpu9250   *)
(* and its driver repeat the same code.                                    *)
(*                                                                         *)
(* One call of the driver is several I2C transfers and the chip runs on    *)
(* between them, so each transfer that matters is a step, and each may     *)
(* fail.  The fifo is its length and where its head is in a packet: that   *)
(* is what decides whether the bytes read are the numbers they stand for.  *)
(***************************************************************************)
EXTENDS Naturals

CONSTANTS
  Len,      \* bytes of a packet, from mask
  FifoSize, \* bytes of the chip's fifo (1024)
  BufLen,   \* packets the caller's arrays hold (128)
  Paces,    \* bound: the values of pace
  Slack,    \* bound: bytes the DMP makes while one group of transfers runs
  MaxFail,  \* bound: transfers that fail
  Caller    \* which of the two callers runs

ASSUME DmpFifoAssumption ==
  /\ Len \in Nat \ {0} /\ FifoSize \in Nat \ {0}
  /\ BufLen \in Nat \ {0} /\ MaxFail \in Nat
  /\ Paces \subseteq Nat /\ Slack \in Nat /\ Slack < FifoSize
  /\ \A b \in Paces : Slack <= b
  /\ Caller \in {"GetEulerQuat", "Mpu6050Test"}

VARIABLES
  pace,    \* bound: bytes the DMP makes from one FIFO_COUNT to the next; the
           \* same in all states
  count,   \* chip: bytes in the fifo
  skew,    \* chip: offset of the fifo's head in a packet
  ovf,     \* chip: FIFO_OVERFLOW in INT_STATUS
  lost,    \* history: a latched overflow was cleared by a transfer that does
           \* not look at it, and the fifo has not been reset since
  dmpOn,   \* chip: USER_CTRL enables fifo and dmp, and the chip is awake
  intOn,   \* chip: INT_ENABLE as mpu6050_dmp_init left it
  inited,  \* handle->inited and handle->dmp_inited, which move together
  pc,      \* where the caller's thread is
  res,     \* what mpu6050_dmp_read returned, 0 to 7
  l,       \* *l: the caller's buffer length in, packets read out
  avail,   \* count, the driver's local
  good,    \* did the last data transfer start at a packet?
  made,    \* bytes made since FIFO_COUNT was last read
  fails    \* transfers that failed so far

chip   == <<count, skew, ovf, lost, dmpOn, intOn>>
driver == <<inited, pc, res, l, avail, good>>
vars   == <<pace, chip, driver, made, fails>>

Lesser(a, b) == IF a < b THEN a ELSE b

(* mpu6050_dmp_init has succeeded and ended with mpu6050_force_fifo_reset;
   both callers start from l = 128. *)
Init ==
  /\ pace \in Paces
  /\ count = 0 /\ skew = 0 /\ ovf = FALSE /\ lost = FALSE
  /\ dmpOn = TRUE /\ intOn = TRUE
  /\ inited = TRUE /\ pc = "idle" /\ res = 0 /\ l = BufLen
  /\ avail = 0 /\ good = TRUE /\ made = 0 /\ fails = 0

-----------------------------------------------------------------------------
(* The chip. *)

(* The DMP stores a byte.  A full fifo loses its oldest byte, and latches
   the overflow if its interrupt is enabled. *)
Produce ==
  /\ dmpOn /\ made < (IF pc \in {"data", "unmask"} THEN Slack ELSE pace)
  /\ made' = made + 1
  /\ IF count < FifoSize
       THEN count' = count + 1 /\ UNCHANGED <<skew, ovf>>
       ELSE /\ skew' = (skew + 1) % Len
            /\ ovf' \in {TRUE, ovf \/ intOn}
            /\ UNCHANGED count
  /\ UNCHANGED <<pace, lost, dmpOn, intOn, driver, fails>>

(* mpu6050_dmp_init has mpu6050_set_interrupt_read_clear make every register
   read clear INT_STATUS (MPU6050_DMP_DEFAULT_INTERRUPT_READ_CLEAR).  Of the
   transfers of a step, the last read may come before the overflow. *)
AnyRead == \/ UNCHANGED <<ovf, lost>>
           \/ ovf /\ ovf' = FALSE /\ lost' = TRUE

-----------------------------------------------------------------------------
(* mpu6050_dmp_read. *)

Goto(p) == pc' = p

Return(r) == Goto("returned") /\ res' = r

(* An I2C transfer of the step fails. *)
Fails == fails < MaxFail /\ fails' = fails + 1

(* A GetEulerQuat whose len survives its calls (a mutant of CallRead). *)
CallReadKeeps ==
  /\ pc = "idle"
  /\ IF inited THEN Goto("status") /\ UNCHANGED res ELSE Return(3)
  /\ UNCHANGED <<pace, chip, inited, l, avail, good, made, fails>>

(* The caller calls; GetEulerQuat's len is a local that starts at 128 on
   every call, Mpu6050Test's is set once, before its while. *)
CallRead ==
  /\ pc = "idle"
  /\ l' = IF Caller = "GetEulerQuat" THEN BufLen ELSE l
  /\ IF inited THEN Goto("status") /\ UNCHANGED res ELSE Return(3)
  /\ UNCHANGED <<pace, chip, inited, avail, good, made, fails>>

(* Reading INT_STATUS clears it; a fifo that overflowed is reset. *)
ReadStatus ==
  /\ pc = "status"
  /\ ovf' = FALSE
  /\ IF ovf THEN Goto("mask") /\ res' = 6 ELSE Goto("count") /\ UNCHANGED res
  /\ UNCHANGED <<pace, count, skew, lost, dmpOn, intOn, inited, l, avail,
                 good, made, fails>>

ReadStatusFails ==
  /\ pc = "status" /\ Fails /\ Return(1)
  /\ UNCHANGED <<pace, chip, inited, l, avail, good, made>>

(* ReadCount that does not look at the outer buffer (a mutant). *)
ReadCountUnclipped ==
  /\ pc = "count"
  /\ LET fits == Lesser(count, FifoSize) \div Len
     IN  l' = fits /\ avail' = fits * Len
  /\ made' = 0 /\ AnyRead
  /\ Goto("data")
  /\ UNCHANGED <<pace, count, skew, dmpOn, intOn, inited, res, good, fails>>

(* ReadCount that rounds the packets up (a mutant). *)
ReadCountRoundsUp ==
  /\ pc = "count"
  /\ LET fits == (Lesser(Lesser(count, FifoSize), l * Len) + Len - 1) \div Len
     IN  l' = fits /\ avail' = fits * Len
  /\ made' = 0 /\ AnyRead
  /\ Goto("data")
  /\ UNCHANGED <<pace, count, skew, dmpOn, intOn, inited, res, good, fails>>

(* ReadCount that takes one packet at most and leaves the rest of the fifo
   (a mutant). *)
ReadCountOne ==
  /\ pc = "count"
  /\ LET fits == Lesser(Lesser(count, FifoSize), l * Len) \div Len
     IN  l' = Lesser(fits, 1) /\ avail' = Lesser(fits, 1) * Len
  /\ made' = 0 /\ AnyRead
  /\ Goto("data")
  /\ UNCHANGED <<pace, count, skew, dmpOn, intOn, inited, res, good, fails>>

(* FIFO_COUNT, clipped to the fifo's size and to the caller's buffer, and
   to whole packets; *l is already overwritten. *)
ReadCount ==
  /\ pc = "count"
  /\ LET fits == Lesser(Lesser(count, FifoSize), l * Len) \div Len
     IN  l' = fits /\ avail' = fits * Len
  /\ made' = 0 /\ AnyRead
  /\ Goto("data")
  /\ UNCHANGED <<pace, count, skew, dmpOn, intOn, inited, res, good, fails>>

ReadCountFails ==
  /\ pc = "count" /\ Fails /\ Return(1) /\ AnyRead
  /\ UNCHANGED <<pace, count, skew, dmpOn, intOn, inited, l, avail, good,
                 made>>

(* The bytes leave the fifo; with too few for a packet the read ends. *)
ReadData ==
  /\ pc = "data"
  /\ count' = count - avail
  /\ skew' = (skew + avail) % Len
  /\ AnyRead
  /\ good' = (skew = 0)
  /\ IF avail < Len THEN Return(7) ELSE Goto("parse") /\ UNCHANGED res
  /\ UNCHANGED <<pace, dmpOn, intOn, inited, l, avail, made, fails>>

(* A transfer that breaks off has taken some of the bytes. *)
ReadDataFails ==
  /\ pc = "data" /\ Fails /\ Return(1) /\ AnyRead
  /\ \E n \in 0 .. avail :
       count' = count - n /\ skew' = (skew + n) % Len
  /\ UNCHANGED <<pace, dmpOn, intOn, inited, l, avail, good, made>>

(* The quaternion of each packet must have length one: aligned ones have,
   and misaligned bytes may pass. *)
Parse ==
  /\ pc = "parse"
  /\ \/ Return(0)
     \/ ~good /\ Goto("mask") /\ res' = 5
  /\ AnyRead
  /\ UNCHANGED <<pace, count, skew, dmpOn, intOn, inited, l, avail, good,
                 made, fails>>

(* The configuration reads inside the loop over the packets. *)
ParseFails ==
  /\ pc = "parse" /\ Fails /\ Return(1) /\ AnyRead
  /\ UNCHANGED <<pace, count, skew, dmpOn, intOn, inited, l, avail, good,
                 made>>

-----------------------------------------------------------------------------
(* a_mpu6050_reset_fifo, whose result mpu6050_dmp_read ignores. *)

(* Save the enables and clear them. *)
ResetMask ==
  /\ pc = "mask"
  /\ intOn' = FALSE
  /\ Goto("flush") /\ AnyRead
  /\ UNCHANGED <<pace, count, skew, dmpOn, inited, res, l, avail, good,
                 made, fails>>

(* USER_CTRL: fifo and dmp off, and their reset bits. *)
ResetFlush ==
  /\ pc = "flush"
  /\ count' = 0 /\ skew' = 0 /\ dmpOn' = FALSE /\ lost' = FALSE
  /\ Goto("enable")
  /\ UNCHANGED <<pace, ovf, intOn, inited, res, l, avail, good, made, fails>>

(* 50 ms later, USER_CTRL again: fifo and dmp on. *)
ResetEnable ==
  /\ pc = "enable"
  /\ dmpOn' = TRUE /\ made' = 0
  /\ Goto("unmask")
  /\ UNCHANGED <<pace, count, skew, ovf, lost, intOn, inited, res, l, avail,
                 good, fails>>

(* Restore the interrupt enables. *)
ResetUnmask ==
  /\ pc = "unmask"
  /\ intOn' = TRUE
  /\ Goto("returned")
  /\ UNCHANGED <<pace, count, skew, ovf, lost, dmpOn, inited, res, l, avail,
                 good, made, fails>>

(* Any transfer of the reset can fail, and what it did so far stays. *)
ResetFails ==
  /\ pc \in {"mask", "flush", "enable", "unmask"} /\ Fails
  /\ intOn' \in IF pc = "mask" THEN {intOn, FALSE} ELSE {intOn}
  /\ Goto("returned") /\ AnyRead
  /\ UNCHANGED <<pace, count, skew, dmpOn, inited, res, l, avail, good,
                 made>>

-----------------------------------------------------------------------------
(* The callers.  GetEulerQuat copies the first packet's angles and then, as
   Mpu6050Test does 500 ms later, reads the pedometer; on any error both
   call mpu6050_deinit, whose result they ignore. *)

Succeeds ==
  /\ pc = "returned" /\ res = 0
  /\ Goto("pedometer")
  /\ UNCHANGED <<pace, chip, inited, res, l, avail, good, made, fails>>

Pedometer ==
  /\ pc = "pedometer"
  /\ Goto("idle") /\ AnyRead
  /\ UNCHANGED <<pace, count, skew, dmpOn, intOn, inited, res, l, avail,
                 good, made, fails>>

PedometerFails ==
  /\ pc = "pedometer" /\ Fails /\ Goto("deinit") /\ AnyRead
  /\ UNCHANGED <<pace, count, skew, dmpOn, intOn, inited, res, l, avail,
                 good, made>>

GivesUp ==
  /\ pc = "returned" /\ res # 0
  /\ Goto("deinit")
  /\ UNCHANGED <<pace, chip, inited, res, l, avail, good, made, fails>>

(* Mpu6050Test returns; GetEulerQuat can be called again. *)
AfterDeinit == Goto(IF Caller = "GetEulerQuat" THEN "idle" ELSE "done")

(* An error path that forgets mpu6050_deinit (a mutant). *)
DeinitForgets ==
  /\ pc = "deinit"
  /\ AfterDeinit
  /\ UNCHANGED <<pace, chip, inited, res, l, avail, good, made, fails>>

(* mpu6050_deinit puts the chip to sleep and clears the flags; a second
   one finds inited = 0. *)
Deinit ==
  /\ pc = "deinit"
  /\ dmpOn' = (dmpOn /\ ~inited)
  /\ inited' = FALSE
  /\ AfterDeinit
  /\ UNCHANGED <<pace, count, skew, ovf, lost, intOn, res, l, avail, good, made,
                 fails>>

(* The sleep command fails, and may have reached the chip all the same: the
   flags stay set. *)
DeinitFails ==
  /\ pc = "deinit" /\ inited /\ Fails
  /\ dmpOn' \in {dmpOn, FALSE}
  /\ AfterDeinit
  /\ UNCHANGED <<pace, count, skew, ovf, lost, intOn, inited, res, l, avail,
                 good, made>>

-----------------------------------------------------------------------------
ReadStep == \/ CallRead \/ ReadStatus \/ ReadStatusFails \/ ReadCount
            \/ ReadCountFails \/ ReadData \/ ReadDataFails \/ Parse
            \/ ParseFails

ResetStep == ResetMask \/ ResetFlush \/ ResetEnable \/ ResetUnmask
               \/ ResetFails

CallerStep == Succeeds \/ Pedometer \/ PedometerFails \/ GivesUp \/ Deinit
                \/ DeinitFails

Next == Produce \/ ReadStep \/ ResetStep \/ CallerStep

Spec == Init /\ [][Next]_vars

-----------------------------------------------------------------------------
(* Type correctness, with the bounds that keep the reads inside the chip's
   fifo and the caller's arrays. *)
TypeOK ==
  /\ count \in 0 .. FifoSize /\ skew \in 0 .. Len - 1
  /\ ovf \in BOOLEAN /\ lost \in BOOLEAN
  /\ dmpOn \in BOOLEAN /\ intOn \in BOOLEAN /\ inited \in BOOLEAN
  /\ pc \in {"idle", "status", "count", "data", "parse", "returned", "mask",
             "flush", "enable", "unmask", "pedometer", "deinit", "done"}
  /\ res \in 0 .. 7
  /\ l \in 0 .. BufLen
  /\ avail \in 0 .. FifoSize
  /\ good \in BOOLEAN
  /\ pace \in Paces /\ made \in 0 .. pace
  /\ fails \in 0 .. MaxFail

(* The data transfer asks for no more than the fifo holds and the caller's
   arrays take, in whole packets, although the chip stores and drops bytes
   after FIFO_COUNT was read. *)
ReadInBounds ==
  pc = "data" => /\ avail <= count /\ avail <= BufLen * Len
                 /\ avail = l * Len

(* The DMP makes no more in a period than the caller's arrays and the fifo can
   take besides the part of a packet that a read leaves. *)
Slow == /\ pace + Len - 1 <= BufLen * Len
        /\ pace + Slack + Len - 1 <= FifoSize

(* With at most one failed transfer, before a call reads through an open
   handle: under GetEulerQuat and a DMP that is slow enough, the head of the
   fifo is at a packet.  At any pace and under both callers, if it is not, the
   overflow is still flagged, so that the call resets the fifo, or the flag was
   cleared by a register read that the driver itself made after it had looked
   at INT_STATUS.  Then, and only then, the call takes misaligned bytes, with
   no transfer having failed. *)
SkewNoticed ==
  fails <= 1 /\ pc \in {"idle", "status"} /\ inited =>
    /\ Caller = "GetEulerQuat" /\ Slow => skew = 0
    /\ skew = 0 \/ ovf \/ lost

(* If the DMP is slow enough, the fifo never overflows. *)
KeepsUp == Slow /\ fails = 0 => ~ovf /\ ~lost

(* A read takes every whole packet of the fifo that the caller's arrays can
   hold: *l on entry is the "outer buffer size" that the comment at
   driver_mpu6050.cpp:3185 takes it for. *)
TakesAllThatFits ==
  [][pc = "count" /\ pc' = "data"
       => avail' = (Lesser(count, BufLen * Len) \div Len) * Len]_vars
=============================================================================
