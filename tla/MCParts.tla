------------------------------ MODULE MCParts -------------------------------
(***************************************************************************)
(* The parts of the program that share no state with each other, each in   *)
(* behaviours of its own: what the packets of one dmp_read become; a pwm   *)
(* channel; the rate log; and functions, whose inputs are initial states,  *)
(* without a step: samples, self test, orientation, buses, drawing.        *)
(***************************************************************************)
EXTENDS MCDmpPacket, Pwm, RateLog, MCReadings, MCBuses,
        MCFramebuffer

VARIABLES
  part,   \* which part this behaviour is about
  input   \* of a function

Inputs == [samples |-> SampleInputs, test |-> TestInputs,
           orient |-> OrientInputs, wire |-> WireInputs,
           access |-> AccessInputs,
           drawing |-> DrawInputs]

NoPacket == Begin(CHOOSE r \in Reads : TRUE)
NoMotor == PwmBegin(ServoParm)

PartsInit ==
  \/ part = "packet" /\ Init /\ NoMotor /\ LogInit /\ input = None
  \/ part = "motor" /\ NoPacket /\ PwmInit /\ LogInit /\ input = None
  \/ part = "log" /\ NoPacket /\ NoMotor /\ LogInit /\ input = None
  \/ /\ part \in DOMAIN Inputs /\ input \in Inputs[part]
     /\ NoPacket /\ NoMotor /\ LogInit

PartsNext ==
  /\ UNCHANGED <<part, input>>
  /\ \/ part = "packet" /\ Next /\ UNCHANGED <<pwmVars, logVars>>
     \/ part = "motor" /\ PwmNext /\ UNCHANGED <<vars, logVars>>
     \/ part = "log" /\ LogNext /\ UNCHANGED <<vars, pwmVars>>

PartsSpec == PartsInit /\ [][PartsNext]_<<vars, part, input, pwmVars, logVars>>

-----------------------------------------------------------------------------
(* mpu6050_read and mpu9250_read hand out the samples that the chip stored, as
   many as are whole and as have room, each number in its place and with its
   sign, whatever FIFO_EN is, or refuse to. *)
FieldsOfSamples == part = "samples" => SamplesRight(input)

(* The self test finds the offsets of a still chip, face up or down, and passes
   it exactly if its actuators do within limits what it was trimmed to; and the
   offsets come out in the units of the range that is set afterwards. *)
SelfTestRight == part = "test" => TestRight(input)

(* However the chip lies in its device, the biases and the axes that the DMP is
   given are those of the device. *)
Oriented == part = "orient" => OrientRight(input)

(* What the drivers write through IicBus and SpiBus arrives in the registers it
   was for, and what they read is what is there. *)
Carried == part = "wire" => CarriedRight(input)

(* The functions that hand registers and the fifo through do it over either
   bus, with the chip at the address of its pin, and refuse what they cannot
   do; what fifo_set puts in is counted and comes out of fifo_get in its order;
   the magnetometer is asked itself, and only over I2C. *)
HandedThrough == part = "access" => AccessRight(input)

(* On a screen without padding or offset, of 16 or 32 bits, lines, rectangles,
   circles and text that have room there look like it and stay in the memory
   that is mapped, which may be less than the smem_len that FbPutChar checks. *)
DrawnInPlace == part = "drawing" => DrawnRight(input)
=============================================================================
