------------------------------ MODULE Readings ------------------------------
(***************************************************************************)
(* What mpu6050_read, mpu9250_read and mpu9250_mag_read make of the bytes  *)
(* they have read: which bytes become which axis of which sample, in which *)
(* order the two bytes of a number come, what it is divided by, and how    *)
(* many samples a fifo's content is.  The accelerometer and the gyroscope  *)
(* send the high byte first, the magnetometer the low one.                 *)
(*                                                                         *)
(* A buffer is a function from places to bytes.  A value in g, in degrees  *)
(* per second or in microtesla is left as the number and its divisor.      *)
(***************************************************************************)
EXTENDS Integers, FiniteSetsExt, SequencesExt

Axis == 0 .. 2

(* (int16_t)((uint16_t)hi << 8) | lo *)
Int16(hi, lo) ==
  LET u == 256 * hi + lo IN IF u < 32768 THEN u ELSE u - 65536

HighFirst(buf, at) ==
  [a \in Axis |-> Int16(buf[at + 2 * a], buf[at + 2 * a + 1])]

LowFirst(buf, at) ==
  [a \in Axis |-> Int16(buf[at + 2 * a + 1], buf[at + 2 * a])]

(* byte & mask, of a mask of one bit. *)
Bit(byte, mask) == (byte \div mask) % 2 = 1

-----------------------------------------------------------------------------
(* The scales.  accel_conf and gyro_conf are the two range bits.           *)

AccelLsb(conf) ==                     \* per g
  CASE conf = 0 -> 16384 [] conf = 1 -> 8192 [] conf = 2 -> 4096
    [] OTHER -> 2048

GyroLsb10(conf) ==                    \* per ten degrees a second
  CASE conf = 0 -> 1310 [] conf = 1 -> 655 [] conf = 2 -> 328 [] OTHER -> 164

(* (asa - 128) * 0.5 / 128 + 1, in 256ths. *)
Adjusted(raw, asa) == [a \in Axis |-> raw[a] * (asa[a] + 128)]

(* Bit 4 of ST2: 0.15 uT with 16 bits, else 0.6 uT; in hundredths. *)
MagStep(st2) == IF Bit(st2, 16) THEN 15 ELSE 60

(* mag_ut in 25600ths. *)
MicroTesla(raw, asa, st2) ==
  [a \in Axis |-> Adjusted(raw, asa)[a] * MagStep(st2)]

NoField == [raw |-> [a \in Axis |-> 0], ut |-> [a \in Axis |-> 0]]

-----------------------------------------------------------------------------
(* The fifo.  count: what FIFO_COUNT said; len: the caller's *len.         *)

(* The bytes that are read: whole samples, of which there is room for len
   and in handle->buf for 1024 bytes. *)
ToRead(count, len, size) == (Min({count, 1024, len * size}) \div size) * size

(* *len on the way out. *)
Samples(count, len, size) == ToRead(count, len, size) \div size

Inertial(buf, at) ==
  [accel |-> HighFirst(buf, at), gyro |-> HighFirst(buf, at + 6),
   mag |-> NoField]

(* mpu6050_read with the fifo on: 12 bytes a sample. *)
Fifo6050(buf, count, len) ==
  [i \in 1 .. Samples(count, len, 12) |-> Inertial(buf, 12 * (i - 1))]

(* mpu9250_read with FIFO_EN 0x78, accelerometer and gyroscope. *)
Fifo9250(buf, count, len) ==
  [i \in 1 .. Samples(count, len, 12) |-> Inertial(buf, 12 * (i - 1))]

(* The magnetometer's numbers taken high byte first (a mutant). *)
FifoMag9250Swapped(buf, count, len, asa) ==
  [i \in 1 .. Samples(count, len, 20) |->
     LET at == 20 * (i - 1)
         raw == HighFirst(buf, at + 13)
     IN [accel |-> HighFirst(buf, at), gyro |-> HighFirst(buf, at + 6),
         mag |-> [raw |-> raw, ut |-> MicroTesla(raw, asa, buf[at + 19])]]]

(* With FIFO_EN 0x79 eight bytes of the magnetometer follow, ST1 first and
   ST2 last. *)
FifoMag9250(buf, count, len, asa) ==
  [i \in 1 .. Samples(count, len, 20) |->
     LET at == 20 * (i - 1)
         raw == LowFirst(buf, at + 13)
     IN [accel |-> HighFirst(buf, at), gyro |-> HighFirst(buf, at + 6),
         mag |-> [raw |-> raw, ut |-> MicroTesla(raw, asa, buf[at + 19])]]]

-----------------------------------------------------------------------------
(* The data registers: 14 bytes from ACCEL_XOUT_H, with the temperature    *)
(* between the two sensors, and eight from the magnetometer's ST1.         *)

Direct6050(buf) ==
  [accel |-> HighFirst(buf, 0), gyro |-> HighFirst(buf, 8), mag |-> NoField]

DirectMag(buf, asa) ==
  LET raw == LowFirst(buf, 1)
  IN [raw |-> raw, ut |-> MicroTesla(raw, asa, buf[7])]

Direct9250(buf, magInited, magBuf, asa) ==
  [accel |-> HighFirst(buf, 0), gyro |-> HighFirst(buf, 8),
   mag |-> IF magInited THEN DirectMag(magBuf, asa) ELSE NoField]

(* mpu9250_mag_read *)
MagRead(buf, asa) == DirectMag(buf, asa)

(* mpu6050_read_temperature: raw / 340 + 36.53; mpu9250_read_temperature:
   raw / 321 + 21; in hundredths of a degree. *)
Temperature6050(buf) == (100 * Int16(buf[0], buf[1])) \div 340 + 3653
Temperature9250(buf) == (100 * Int16(buf[0], buf[1])) \div 321 + 2100

-----------------------------------------------------------------------------
(* The two functions as a whole.  h: of the handle, inited, dmp (dmp_inited),
   mag (mag_inited) and asa; c: of the chip, USER_CTRL, FIFO_EN, FIFO_COUNT,
   the range bits, and what a read of the fifo, of the data registers and of
   the magnetometer finds.  The result is the code and, if it is 0, what the
   caller gets: the raw numbers and what they are divided by. *)

Refused(h, c, len, layouts) ==
  IF ~h.inited THEN 3
  ELSE IF len = 0 THEN 4
  ELSE IF h.dmp THEN 5
  ELSE IF Bit(c.userCtrl, 64) /\ c.fifoEn \notin layouts THEN 6
  ELSE 0

Answer(code, c, samples) ==
  IF code # 0 THEN [code |-> code]
  ELSE [code |-> 0, samples |-> samples, accelLsb |-> AccelLsb(c.accelConf),
        gyroLsb10 |-> GyroLsb10(c.gyroConf)]

Read6050(h, c, len) ==
  Answer(Refused(h, c, len, {120}), c,
         IF Bit(c.userCtrl, 64) THEN Fifo6050(c.fifo, c.count, len)
         ELSE <<Direct6050(c.data)>>)

Read9250(h, c, len) ==
  Answer(Refused(h, c, len, {120, 121}), c,
         IF ~Bit(c.userCtrl, 64) THEN <<Direct9250(c.data, h.mag, c.mag, h.asa)>>
         ELSE IF c.fifoEn = 120 THEN Fifo9250(c.fifo, c.count, len)
         ELSE FifoMag9250(c.fifo, c.count, len, h.asa))
=============================================================================
