---------------------------- MODULE Calibration -----------------------------
(***************************************************************************)
(* The arithmetic around the drivers' self test and calibration: averages  *)
(* of still samples, limits for what the built-in actuators do, the chip's *)
(* orientation, and the conversion of an offset to the range that is set.  *)
(*                                                                         *)
(* Offsets are 16.16 numbers, as in the code.  Where the code calculates   *)
(* in float, fractions are compared after multiplication, and powers are   *)
(* 16.16 numbers too, which moves a limit by less than a thousandth.       *)
(***************************************************************************)
EXTENDS Readings

Abs(x) == IF x < 0 THEN -x ELSE x
Sign(x) == IF x < 0 THEN -1 ELSE 1

(* x / y as C divides: towards zero. *)
Quotient(x, y) == Sign(x) * (Abs(x) \div y)

(* (x << 16) / d without a number of more than 32 bits. *)
Shifted(x, d) ==
  LET r == Abs(x) % d
      s == (256 * r) % d
  IN Sign(x) * (65536 * (Abs(x) \div d) + 256 * ((256 * r) \div d)
                  + (256 * s) \div d)

-----------------------------------------------------------------------------
(* a_mpu6050_get_st_biases, a_mpu9250_get_st_biases: the averages of the   *)
(* samples that the fifo has, at 131 per degree a second and at 2048 per g.*)

Total(samples, sensor, a) ==
  FoldLeftDomain(LAMBDA sum, i : sum + samples[i][sensor][a], 0, samples)

Average(samples, sensor, a, lsb) ==
  Shifted(Total(samples, sensor, a), lsb * Len(samples))

(* WithoutGravity for a chip that lies face up (a mutant). *)
WithoutGravityUp(z) == z - 65536

(* Without 1 g upwards or downwards. *)
WithoutGravity(z) == IF z > 0 THEN z - 65536 ELSE z + 65536

Biases(samples) ==
  [gyro |-> [a \in Axis |-> Average(samples, "gyro", a, 131)],
   accel |-> [a \in Axis |->
                LET bias == Average(samples, "accel", a, 2048)
                IN IF a = 2 THEN WithoutGravity(bias) ELSE bias]]

-----------------------------------------------------------------------------
(* The MPU6050's self test: what it moves each sensor by, against the      *)
(* factory's trim code of five bits.                                       *)

(* The code of an axis: three bits of its own register, two of the fourth.*)
ShiftCode(tmp, a) ==
  4 * (tmp[a] \div 32) + ((tmp[3] \div 4 ^ (2 - a)) % 4)

(* 0.34 g, 3.4 % more for each step of the code. *)
AccelTrim[code \in 0 .. 31] ==
  IF code = 0 THEN 0
  ELSE IF code = 1 THEN 22282
  ELSE LET t == AccelTrim[code - 1] IN t + (34 * t) \div 1000

(* 25 degrees a second, and 4.6 %. *)
GyroTrim[code \in 1 .. 31] ==
  IF code = 1 THEN 25 * 65536
  ELSE LET t == GyroTrim[code - 1] IN t + (46 * t) \div 1000

(* A deviation of more than 14 %. *)
OffTrim(shift, trim) == 100 * Abs(shift - trim) > 14 * trim

(* The axes that fail: bits 0 to 2 of the result. *)
AccelFails6050(tmp, regular, st) ==
  {a \in Axis :
     LET shift == Abs(regular[a] - st[a])
         trim == AccelTrim[ShiftCode(tmp, a)]
     IN IF trim # 0 THEN OffTrim(shift, trim)
        ELSE shift < 19661 \/ shift > 62259}      \* 0.3 g, 0.95 g

GyroFails6050(tmp, regular, st) ==
  {a \in Axis :
     LET shift == Abs(regular[a] - st[a])
         code == tmp[a] % 32
     IN IF code # 0 THEN OffTrim(shift, GyroTrim[code])
        ELSE shift < 10 * 65536 \/ shift > 105 * 65536}

-----------------------------------------------------------------------------
(* The MPU9250's: factory trim from a table, 2620 * 1.01^(code - 1).       *)

TableTimes60000[code \in 1 .. 255] ==
  IF code = 1 THEN 2620 * 60000
  ELSE LET t == TableTimes60000[code - 1] IN t + (t + 50) \div 100

gs_st_tb(code) == TableTimes60000[code] \div 60000

(* A trim code of 0 on any axis means that there are no trim values: then
   between 0.225 g and 0.675 g.  In no case an offset of more than 0.5 g. *)
AccelPasses9250(regs, regular, st) ==
  /\ IF \A a \in Axis : regs[a] # 0
       THEN \A a \in Axis :
              LET trim == 4 * gs_st_tb(regs[a])   \* << 16, 16384 per g
              IN 2 * Abs(st[a] - regular[a] - trim) <= trim
       ELSE \A a \in Axis : st[a] - regular[a] \in 14746 .. 44236
  /\ \A a \in Axis : Abs(regular[a]) <= 32768

(* At least a half of the trim, or 60 degrees a second; in no case an offset
   of more than 20. *)
GyroPasses9250(regs, regular, st) ==
  /\ IF \A a \in Axis : regs[a] # 0
       THEN \A a \in Axis :
              131 * Abs(st[a] - regular[a]) >= 32768 * gs_st_tb(regs[a])
       ELSE \A a \in Axis : st[a] - regular[a] >= 60 * 65536
  /\ \A a \in Axis : Abs(regular[a]) <= 20 * 65536

-----------------------------------------------------------------------------
(* The orientation of the chip in its device: a matrix of -1, 0 and 1 with *)
(* rows for the device's axes, packed into three bits a row.               *)

(* RowScale with the sign of the second column dropped (a mutant). *)
RowScaleUnsigned(row) ==
  IF row[0] > 0 THEN 0 ELSE IF row[0] < 0 THEN 4
  ELSE IF row[1] # 0 THEN 1
  ELSE IF row[2] > 0 THEN 2 ELSE IF row[2] < 0 THEN 6
  ELSE 7

(* inv_row_2_scale *)
RowScale(row) ==
  IF row[0] > 0 THEN 0 ELSE IF row[0] < 0 THEN 4
  ELSE IF row[1] > 0 THEN 1 ELSE IF row[1] < 0 THEN 5
  ELSE IF row[2] > 0 THEN 2 ELSE IF row[2] < 0 THEN 6
  ELSE 7

(* inv_orientation_matrix_to_scalar *)
Scalar(mtx) ==
  RowScale(mtx[0]) + 8 * RowScale(mtx[1]) + 64 * RowScale(mtx[2])

Code(orient, a) == (orient \div <<1, 8, 64>>[a + 1]) % 8

(* What dmp_set_orientation writes for the DMP: for each axis of the device
   the chip's axis, and its sign. *)
OrientCells(orient) ==
  [axis |-> [a \in Axis |->
      CASE Code(orient, a) % 4 = 0 -> [gyro |-> 76, accel |-> 12]
        [] Code(orient, a) % 4 = 1 -> [gyro |-> 205, accel |-> 201]
        [] Code(orient, a) % 4 = 2 -> [gyro |-> 108, accel |-> 44]
        [] OTHER -> [gyro |-> 0, accel |-> 0]],
   sign |-> [a \in Axis |->
      LET negative == IF Code(orient, a) >= 4 THEN 1 ELSE 0
      IN [gyro |-> 54 + 32 * a + negative, accel |-> 38 + 32 * a + negative]]]

(* dmp_set_accel_bias and dmp_set_gyro_bias turn a bias of the chip into one
   of the device before they scale it. *)
BodyBias(orient, bias) ==
  [a \in Axis |->
     LET value == bias[Code(orient, a) % 4]
     IN IF Code(orient, a) >= 4 THEN -value ELSE value]

-----------------------------------------------------------------------------
(* dmp_gyro_accel_raw_offset_convert: an offset of the self test in the    *)
(* units of the range that is set.                                         *)

AccelOffsetScale(conf) ==
  CASE conf = 0 -> 16384 [] conf = 1 -> 8092 [] conf = 2 -> 4096
    [] OTHER -> 2048

OffsetConvert(accelConf, gyroConf, gyro, accel) ==
  [gyro |-> [a \in Axis |-> Quotient(gyro[a] * GyroLsb10(gyroConf), 10)],
   accel |-> [a \in Axis |-> accel[a] * AccelOffsetScale(accelConf)]]
=============================================================================
