----------------------------- MODULE DmpPacket -----------------------------
(***************************************************************************)
(* How mpu6050_dmp_read and mpu9250_dmp_read take the packets of one read  *)
(* apart.  The chip has put them into the fifo one after the other, and in *)
(* each the fields that handle->mask asked for: quaternion, accelerometer, *)
(* gyroscope, gesture.  The loop over the packets keeps a running offset i *)
(* into the packet, a byte, to which every field adds its size.  It is set *)
(* to 0 before the loop and, in the loop, only in the branch that reads a  *)
(* quaternion.                                                             *)
(*                                                                         *)
(* The numbers themselves are left out: what is modelled is from which     *)
(* place of the buffer each field of each packet is taken, and what the    *)
(* tap callback is told.                                                   *)
(***************************************************************************)
EXTENDS Naturals

CONSTANTS
  Reads,       \* bound: the masks in use, sets of features, with the number of
               \* packets that one read may find
  Tap,         \* bound: the tap bytes (gesture[3] & 0x3F) that occur
  None         \* no tap was reported yet

Quaternion == {"3x_quat", "6x_quat"}
AnyGyro == {"raw_gyro", "cal_gyro"}
Gestures == {"tap", "orient"}
Feature == Quaternion \union AnyGyro \union Gestures
             \union {"raw_accel", "pedometer", "gyro_cal"}

Field == {"quat", "accel", "gyro", "gesture"}

(* The fields of a packet, and none is sent for the other features. *)
Sent(mask) ==
  {f \in Field :
     \/ f = "quat" /\ mask \intersect Quaternion # {}
     \/ f = "accel" /\ "raw_accel" \in mask
     \/ f = "gyro" /\ mask \intersect AnyGyro # {}
     \/ f = "gesture" /\ mask \intersect Gestures # {}}

Size == [f \in Field |-> CASE f = "quat" -> 16 [] f = "gesture" -> 4
                           [] OTHER -> 6]

Bytes(mask, f) == IF f \in Sent(mask) THEN Size[f] ELSE 0

(* len: what dmp_read adds up before it asks for FIFO_COUNT. *)
PacketLen(mask) == Bytes(mask, "quat") + Bytes(mask, "accel")
                     + Bytes(mask, "gyro") + Bytes(mask, "gesture")

ASSUME PacketAssumption ==
  /\ Reads \subseteq [mask : SUBSET Feature, packets : Nat \ {0}]
  /\ \A r \in Reads : PacketLen(r.mask) > 0
  /\ Tap \subseteq 0 .. 63 /\ Tap # {} /\ None \notin Tap

VARIABLES
  mask,   \* handle->mask
  n,      \* *l, the packets in handle->buf
  j,      \* the packet the loop is at
  i,      \* the running offset, a uint8_t
  next,   \* the field the loop comes to next, or how it ended
  took,   \* what was taken from handle->buf: field, packet and place
  tap,    \* the tap byte of the packet
  heard   \* the arguments of the last tap callback, as its parameters

vars == <<mask, n, j, i, next, took, tap, heard>>

(* The read of r.packets packets begins. *)
Begin(r) ==
  /\ mask = r.mask /\ n = r.packets
  /\ j = 0 /\ i = 0
  /\ next = "quat"
  /\ took = {}
  /\ tap = None /\ heard = None

Init == \E r \in Reads : Begin(r)

Take(f, at) == took' = took \union {[packet |-> j, field |-> f, at |-> at]}

Advance(k) == i' = (i + k) % 256

(* Quat without its i = 0 (a mutant). *)
QuatRunsOn ==
  /\ next = "quat"
  /\ IF "quat" \in Sent(mask)
       THEN Take("quat", PacketLen(mask) * j) /\ Advance(16)
       ELSE UNCHANGED <<took, i>>
  /\ next' = "accel"
  /\ UNCHANGED <<mask, n, j, tap, heard>>

(* The quaternion is taken from the packet's start, and i starts again. *)
Quat ==
  /\ next = "quat"
  /\ IF "quat" \in Sent(mask)
       THEN Take("quat", PacketLen(mask) * j) /\ i' = 16
       ELSE UNCHANGED <<took, i>>
  /\ next' = "accel"
  /\ UNCHANGED <<mask, n, j, tap, heard>>

(* Accel that forgets i += 6 (a mutant). *)
AccelStays ==
  /\ next = "accel"
  /\ IF "accel" \in Sent(mask)
       THEN Take("accel", i + PacketLen(mask) * j) ELSE UNCHANGED took
  /\ next' = "gyro"
  /\ UNCHANGED <<mask, n, j, i, tap, heard>>

Accel ==
  /\ next = "accel"
  /\ IF "accel" \in Sent(mask)
       THEN Take("accel", i + PacketLen(mask) * j) /\ Advance(6)
       ELSE UNCHANGED <<took, i>>
  /\ next' = "gyro"
  /\ UNCHANGED <<mask, n, j, tap, heard>>

Gyro ==
  /\ next = "gyro"
  /\ IF "gyro" \in Sent(mask)
       THEN Take("gyro", i + PacketLen(mask) * j) /\ Advance(6)
       ELSE UNCHANGED <<took, i>>
  /\ next' = "gesture"
  /\ UNCHANGED <<mask, n, j, tap, heard>>

(* The read returns in the middle of a packet: the quaternion's length is
   not one (the fifo is reset, see DmpFifo), or the transfer of ACCEL_CONFIG
   or GYRO_CONFIG, which every packet asks for again, fails. *)
Fails ==
  /\ \/ next = "accel" /\ "quat" \in Sent(mask)
     \/ next = "gyro" /\ "accel" \in Sent(mask)
     \/ next = "gesture" /\ "gyro" \in Sent(mask)
  /\ next' = "failed"
  /\ UNCHANGED <<mask, n, j, i, took, tap, heard>>

(* direction = tap >> 3; count = (tap % 8) + 1; and the call
   dmp_tap_callback(direction, count), whose first parameter is count. *)
Tapped(t) == heard' = [count |-> t \div 8, direction |-> (t % 8) + 1]

(* Gesture with j <= *l in the loop's condition (a mutant). *)
GestureOneMore ==
  /\ next = "gesture"
  /\ j' = j + 1
  /\ next' = IF j < n THEN "quat" ELSE "done"
  /\ UNCHANGED <<mask, n, i, took, tap, heard>>

(* The gesture bytes, and the callbacks they lead to; j++. *)
Gesture ==
  /\ next = "gesture"
  /\ IF "gesture" \in Sent(mask)
       THEN /\ Take("gesture", i + PacketLen(mask) * j)
            /\ \/ UNCHANGED <<tap, heard>>
               \/ \E t \in Tap : tap' = t /\ Tapped(t)
       ELSE UNCHANGED <<took, tap, heard>>
  /\ j' = j + 1
  /\ next' = IF j + 1 < n THEN "quat" ELSE "done"
  /\ UNCHANGED <<mask, n, i>>

Next == Quat \/ Accel \/ Gyro \/ Fails \/ Gesture

Spec == Init /\ [][Next]_vars

-----------------------------------------------------------------------------
(* Type correctness; the offset is a byte, the packets at most n. *)
TypeOK ==
  /\ [mask |-> mask, packets |-> n] \in Reads
  /\ j \in 0 .. n /\ i \in 0 .. 255
  /\ next \in Field \union {"done", "failed"}
  /\ took \subseteq [packet : 0 .. n - 1, field : Field, at : Nat]
  /\ tap \in Tap \union {None}
  /\ heard \in [count : Nat, direction : Nat] \union {None}

(* Where the chip has put a field, from the start of its packet. *)
Place(m, f) ==
  CASE f = "quat" -> 0
    [] f = "accel" -> Bytes(m, "quat")
    [] f = "gyro" -> Bytes(m, "quat") + Bytes(m, "accel")
    [] f = "gesture" -> PacketLen(m) - Bytes(m, "gesture")

(* Each field that dmp_read stores for a packet comes from that field of
   that packet, however many packets are read at once: accel_raw[j],
   gyro_raw[j] and the gesture belong to packet j. *)
FieldsOfPackets ==
  \A t \in took : t.at = t.packet * PacketLen(mask) + Place(mask, t.field)

(* The reads stay inside the bytes that were transferred for this call. *)
ReadsInBuffer == \A t \in took : t.at + Size[t.field] <= n * PacketLen(mask)

(* A tap is reported as dmp_tap_callback(count, direction): direction in the
   byte's upper three bits, count - 1 in the lower three. *)
TapReported ==
  heard # None => heard = [count |-> (tap % 8) + 1, direction |-> tap \div 8]
=============================================================================
