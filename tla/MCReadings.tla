----------------------------- MODULE MCReadings -----------------------------
(***************************************************************************)
(* What Readings and Calibration are held against: how the chip's manual   *)
(* lets it store a sample, lie in its device and answer a self test.       *)
(***************************************************************************)
EXTENDS Calibration

CONSTANTS
  SampleInputs,   \* bound: what the chip may have sampled, and how it is asked
  ChipBiases      \* bound: the biases of chips that lie somehow

Bytes16(x) == <<(x % 65536) \div 256, x % 256>>
HighBytes(v) == Bytes16(v[0]) \o Bytes16(v[1]) \o Bytes16(v[2])
LowBytes(v) == Reverse(Bytes16(v[2]) \o Bytes16(v[1]) \o Bytes16(v[0]))
FromZero(s) == [k \in 0 .. Len(s) - 1 |-> s[k + 1]]

(* A sample: the numbers of three sensors, and of the magnetometer whether it
   measured with 16 bits and whether it overflowed. *)
Word16 == -32768 .. 32767
Sample == [accel : [Axis -> Word16], gyro : [Axis -> Word16], mag : [Axis -> Word16],
           fine : BOOLEAN, over : BOOLEAN]

(* What FIFO_EN makes the chip store: bits 3 to 6 the sensors, bit 7 the
   temperature, bit 0 the eight bytes of slave 0, the magnetometer. *)
MagBytes(s) ==
  <<1>> \o LowBytes(s.mag)
    \o <<(IF s.fine THEN 16 ELSE 0) + (IF s.over THEN 8 ELSE 0)>>
Stored(fifoEn, s) ==
  (IF Bit(fifoEn, 8) THEN HighBytes(s.accel) ELSE <<>>)
    \o (IF Bit(fifoEn, 128) THEN <<9, 9>> ELSE <<>>)
    \o (IF Bit(fifoEn, 64) THEN HighBytes(s.gyro) ELSE <<>>)
    \o (IF Bit(fifoEn, 1) THEN MagBytes(s) ELSE <<>>)
Data(s) == HighBytes(s.accel) \o <<9, 9>> \o HighBytes(s.gyro)

(* The fifo holds samples, and in.spill bytes of one more have come in when
   FIFO_COUNT is read; the registers hold the last one. *)
Chip(in) ==
  LET size == Len(Stored(in.fifoEn, in.now))
  IN [userCtrl |-> IF in.fifoOn THEN 64 ELSE 0, fifoEn |-> in.fifoEn,
      count |-> in.packets * size + in.spill,
      fifo |-> [p \in 0 .. (in.packets + 1) * size - 1 |->
                  Stored(in.fifoEn, in.sent[(p \div size) + 1])[(p % size) + 1]],
      accelConf |-> in.conf, gyroConf |-> in.conf,
      data |-> FromZero(Data(in.now)), mag |-> FromZero(MagBytes(in.now))]

Handle(in) == [inited |-> TRUE, dmp |-> FALSE, mag |-> in.mag, asa |-> in.asa]

(* Any that a chip can be in. *)
Sampled(in) ==
  /\ in.fifoOn \in BOOLEAN /\ in.fifoEn \in 0 .. 255
  /\ in.packets \in Nat /\ in.spill \in 0 .. 11
  /\ in.packets * Len(Stored(in.fifoEn, in.now)) + in.spill <= 1024
  /\ in.len \in Nat \ {0} /\ in.conf \in 0 .. 3 /\ in.mag \in BOOLEAN
  /\ in.asa \in [Axis -> 0 .. 255]
  /\ in.now \in Sample /\ in.sent \in [1 .. in.packets + 1 -> Sample]

(* Samples of numbers that the bounds of a byte and of a word tell apart. *)
Edge == <<-32768, -256, -1, 0, 1, 127, 128, 255, 256, 32767, 12345>>
Number(k) == Edge[(k % Len(Edge)) + 1]
Vector(k) == [a \in Axis |-> Number(3 * k + 4 * a)]
EdgeSample(k) ==
  [accel |-> Vector(k), gyro |-> Vector(k + 1), mag |-> Vector(k + 2),
   fine |-> k % 2 = 0, over |-> k % 3 = 0]
EdgeInput(in, first) ==
  [fifoOn |-> in.fifoOn, fifoEn |-> in.fifoEn, packets |-> in.packets,
   spill |-> in.spill, len |-> in.len, conf |-> first, mag |-> first % 2 = 0,
   asa |-> [a \in Axis |-> 100 + 50 * a],
   now |-> EdgeSample(first),
   sent |-> [k \in 1 .. in.packets + 1 |-> EdgeSample(first + k)]]
EdgeInputs ==
  {EdgeInput(in, first) :
     in \in [fifoOn : BOOLEAN, fifoEn : {120, 121, 248, 249}, packets : 0 .. 3,
             spill : {0, 11}, len : 1 .. 3],
     first \in 0 .. 3}

(* Microtesla: Hadj = H * ((ASA - 128) * 0.5 / 128 + 1), 0.15 or 0.6 uT a bit;
   in 25600ths. *)
Tesla(s, asa) == [a \in Axis |-> (256 * s.mag[a] + s.mag[a] * (asa[a] - 128))
                                 * (IF s.fine THEN 15 ELSE 60)]
FieldOf(s, asa) == [raw |-> s.mag, ut |-> Tesla(s, asa)]

Tells(got, s, mag) == got = [accel |-> s.accel, gyro |-> s.gyro, mag |-> mag]

(* answer is the first samples, as many as there are and as have room, or the
   one of the registers. *)
TellsAll(answer, in, mag) ==
  LET told == IF in.fifoOn THEN in.sent ELSE <<in.now>>
      n == IF ~in.fifoOn THEN 1 ELSE IF in.packets <= in.len THEN in.packets ELSE in.len
  IN /\ Len(answer.samples) = n
     /\ \A k \in 1 .. n :
          Tells(answer.samples[k], told[k], IF mag THEN FieldOf(told[k], in.asa) ELSE NoField)

(* 1 g and 1000 degrees a second are what the range says. *)
InRange(answer, conf) ==
  LET times == <<1, 2, 4, 8>>[conf + 1]
  IN /\ answer.accelLsb * 2 * times = 32768
     /\ 25 * times * answer.gyroLsb10 - 32768 \in -60 .. 60

(* What the chip's temperature register says of t hundredths of a degree. *)
TempRightAt(t) ==
  /\ Temperature6050(FromZero(Bytes16((34 * (t - 3653)) \div 10))) \in t - 1 .. t
  /\ Temperature9250(FromZero(Bytes16((321 * (t - 2100)) \div 100))) \in t - 1 .. t

TempRight == \A t \in {-4000, 0, 2100, 8500} : TempRightAt(t)

SamplesRight(in) ==
  LET a6 == Read6050(Handle(in), Chip(in), in.len)
      a9 == Read9250(Handle(in), Chip(in), in.len)
      Layouts(codes) == ~in.fifoOn \/ in.fifoEn \in codes
  IN /\ IF Layouts({120})
          THEN a6.code = 0 /\ TellsAll(a6, in, FALSE) /\ InRange(a6, in.conf)
          ELSE a6 = [code |-> 6]
     /\ IF Layouts({120, 121})
          THEN /\ a9.code = 0 /\ InRange(a9, in.conf)
               /\ TellsAll(a9, in, IF in.fifoOn THEN in.fifoEn = 121 ELSE in.mag)
          ELSE a9 = [code |-> 6]
     /\ MagRead(Chip(in).mag, in.asa) = FieldOf(in.now, in.asa)
     /\ TempRight

-----------------------------------------------------------------------------
(* A self test.  The chip lies still, face up or down; its sensors are off by
   in.off; the samples have a noise that is as often up as down.  With the
   actuators on, what it reads moves by what the trim codes say, on in.axis
   by in.error percent more.  What the chips were trimmed to at codes 1 to 31
   and 1 to 200: counts at 2048 per g and at 131 per degree a second. *)
Trim6050 == [low |-> [code |-> 1, accel |-> 696, gyro |-> 3275],
             mid |-> [code |-> 16, accel |-> 1150, gyro |-> 6430],
             high |-> [code |-> 31, accel |-> 1899, gyro |-> 12623]]
Trim9250 == [low |-> [code |-> 1, accel |-> 328, gyro |-> 2620],
             mid |-> [code |-> 100, accel |-> 877, gyro |-> 7016],
             high |-> [code |-> 108, accel |-> 950, gyro |-> 7598]]

TestInputs ==
  [chip : {"MPU6050", "MPU9250"}, trim : {"low", "mid", "high"}, axis : {0, 2},
   error : {-60, -40, -20, -10, 10, 20, 40, 60}, packets : {1, 4},
   face : {-1, 1}, off : {-1100, -20, 900}]

Still(in, moves) ==
  [k \in 1 .. in.packets |->
     LET noise == IF in.packets = 1 THEN 0 ELSE IF k % 2 = 0 THEN 9 ELSE -9
         Moved(move, a) ==
           IF ~moves THEN 0
           ELSE IF a = in.axis THEN (move * (100 + in.error)) \div 100 ELSE move
         trim == IF in.chip = "MPU6050" THEN Trim6050[in.trim]
                 ELSE Trim9250[in.trim]
     IN [accel |-> [a \in Axis |-> in.off + noise + Moved(trim.accel, a)
                       + (IF a = 2 THEN 2048 * in.face ELSE 0)],
         gyro |-> [a \in Axis |-> in.off + noise + Moved(trim.gyro, a)]]]

Registers6050(code) ==
  [k \in 0 .. 3 |-> IF k < 3 THEN 32 * (code \div 4) + code
                    ELSE 21 * (code % 4)]

(* The actuator's pull and the offset leave z with gravity's sign.  (They need
   not: see the README on a chip that lies face down.) *)
Upright(in) ==
  \A k \in 1 .. in.packets : Still(in, TRUE)[k].accel[2] * in.face > 0

(* The offsets that the test finds are in.off without gravity, exactly, in
   16.16; converted to the range that is set, what that range would read, in
   16.16, within two percent; the verdict is the error's. *)
TestRight(in) ==
  LET regular == Biases(Still(in, FALSE))
      st == Biases(Still(in, TRUE))
      Raw(conf) == OffsetConvert(conf, conf, regular.gyro, regular.accel)
      Near(x, y) == Abs(x - y) <= Abs(y) \div 50
      code == (IF in.chip = "MPU6050" THEN Trim6050 ELSE Trim9250)[in.trim].code
      Failing(limit) == IF Abs(in.error) > limit THEN {in.axis} ELSE {}
  IN /\ \A a \in Axis :
          /\ regular.accel[a] = 32 * in.off
          /\ Abs(131 * regular.gyro[a] - 65536 * in.off) <= 131
          /\ \A conf \in 0 .. 3 :
               /\ Near(Raw(conf).accel[a], in.off * 8 * (65536 \div 2 ^ conf))
               /\ Near(Raw(conf).gyro[a], (in.off * 65536) \div 2 ^ conf)
     /\ Upright(in) =>
          IF in.chip = "MPU6050"
            THEN LET regs == Registers6050(code)
                 IN /\ AccelFails6050(regs, regular.accel, st.accel) = Failing(14)
                    /\ GyroFails6050(regs, regular.gyro, st.gyro) = Failing(14)
            ELSE LET regs == [a \in Axis |-> code]
                 IN /\ AccelPasses9250(regs, regular.accel, st.accel)
                         <=> (Abs(in.error) <= 50 /\ Abs(in.off) <= 1024)
                    /\ GyroPasses9250(regs, regular.gyro, st.gyro)
                         <=> in.error >= -50

-----------------------------------------------------------------------------
(* The ways in which a chip can lie in its device: each of the device's axes
   is one of the chip's, forwards or backwards. *)
Orders == {p \in [Axis -> Axis] : \A a, b \in Axis : p[a] = p[b] => a = b}
OrientInputs == [order : Orders, back : SUBSET Axis, bias : ChipBiases]
SomeBiases == {[c \in Axis |-> <<1000, -200, 30>>[c + 1]]}

Matrix(in) == [a \in Axis |-> [c \in Axis |->
  IF in.order[a] # c THEN 0 ELSE IF a \in in.back THEN -1 ELSE 1]]

(* The DMP's codes for the chip's axes. *)
GyroAxis == [c \in Axis |-> <<76, 205, 108>>[c + 1]]
AccelAxis == [c \in Axis |-> <<12, 201, 44>>[c + 1]]

(* What the driver makes of a bias is the matrix times it, and the DMP is told
   of the same axes and the same signs. *)
OrientRight(in) ==
  LET m == Matrix(in)
      Turned(row) == row[0] * in.bias[0] + row[1] * in.bias[1] + row[2] * in.bias[2]
      cells == OrientCells(Scalar(m))
  IN /\ BodyBias(Scalar(m), in.bias) = [a \in Axis |-> Turned(m[a])]
     /\ \A a, c \in Axis : m[a][c] # 0 =>
          /\ cells.axis[a] = [gyro |-> GyroAxis[c], accel |-> AccelAxis[c]]
          /\ (cells.sign[a].gyro % 2 = 1) = (m[a][c] < 0)
          /\ (cells.sign[a].accel % 2 = 1) = (m[a][c] < 0)

(* The inputs are ones that a chip can give. *)
ASSUME ReadingsAssumption ==
  /\ \A in \in SampleInputs : Sampled(in)
  /\ ChipBiases \subseteq [Axis -> Int]
=============================================================================
