-------------------------- MODULE DmpPacket_proofs --------------------------
(***************************************************************************)
(* Theorems about DmpPacket, for any set of reads and any number of        *)
(* packets: its type; and that each field comes from its own place, and    *)
(* from the bytes that were transferred, whenever one packet is read at a  *)
(* time or the mask has a quaternion.                                      *)
(***************************************************************************)
EXTENDS DmpPacket, TLAPS

(* The reads for which the running offset is set back in time. *)
Ordinary == \A r \in Reads : r.packets = 1 \/ "quat" \in Sent(r.mask)

(* What each step keeps of the loop. *)
Loop == next \in Field => j < n

TInv == TypeOK /\ Loop

(* At each field the offset is where the chip has put that field. *)
Offset ==
  /\ next = "quat" /\ j = 0 => i = 0
  /\ next \in {"accel", "gyro", "gesture"} => i = Place(mask, next)

OnlyOrdinary == n = 1 \/ "quat" \in Sent(mask)

TookSent == \A t \in took : t.field \in Sent(mask)

IInv == TInv /\ Offset /\ OnlyOrdinary /\ TookSent /\ FieldsOfPackets

-----------------------------------------------------------------------------
LEMMA ByteRange == \A x \in Nat : x % 256 \in 0 .. 255
  BY SMT

LEMMA SmallByte == \A x \in 0 .. 255 : x % 256 = x
  BY SMT

LEMMA Taps == \A t \in 0 .. 63 : t \div 8 \in Nat /\ (t % 8) + 1 \in Nat
  BY SMT

(* The fields' sizes. *)
LEMMA Sizes ==
  ASSUME NEW m
  PROVE  /\ Bytes(m, "quat") = IF "quat" \in Sent(m) THEN 16 ELSE 0
         /\ Bytes(m, "accel") = IF "accel" \in Sent(m) THEN 6 ELSE 0
         /\ Bytes(m, "gyro") = IF "gyro" \in Sent(m) THEN 6 ELSE 0
         /\ Bytes(m, "gesture") = IF "gesture" \in Sent(m) THEN 4 ELSE 0
  BY DEF Bytes, Size, Field

LEMMA LenNat == ASSUME NEW m PROVE PacketLen(m) \in Nat
  BY Sizes DEF PacketLen

(* Where a field ends is within the packet. *)
LEMMA PlaceFits ==
  ASSUME NEW m, NEW f \in Sent(m)
  PROVE  /\ Place(m, f) \in Nat
         /\ Size[f] \in Nat
         /\ Place(m, f) + Size[f] <= PacketLen(m)
<1>1. f \in Field
  BY DEF Sent
<1>2. CASE f = "quat"
  BY <1>2, Sizes DEF Place, Size, Field, PacketLen
<1>3. CASE f = "accel"
  BY <1>3, Sizes DEF Place, Size, Field, PacketLen
<1>4. CASE f = "gyro"
  BY <1>4, Sizes DEF Place, Size, Field, PacketLen
<1>5. CASE f = "gesture"
  BY <1>5, Sizes DEF Place, Size, Field, PacketLen
<1> QED
  BY <1>1, <1>2, <1>3, <1>4, <1>5 DEF Field

(* The places of the fields that follow each other. *)
LEMMA PlacesInOrder ==
  ASSUME NEW m
  PROVE  /\ Place(m, "quat") = 0
         /\ Place(m, "accel") = Bytes(m, "quat")
         /\ Place(m, "gyro") = Bytes(m, "quat") + Bytes(m, "accel")
         /\ Place(m, "gesture") =
              Bytes(m, "quat") + Bytes(m, "accel") + Bytes(m, "gyro")
  BY Sizes DEF Place, PacketLen

(* Whole packets before the last one end before it does. *)
LEMMA Packets ==
  ASSUME NEW a \in Nat, NEW b \in Nat, NEW len \in Nat, a < b
  PROVE  a * len + len <= b * len
<1>1. PICK d \in Nat : b = a + 1 + d
  <2>1. b - a - 1 \in Nat
    OBVIOUS
  <2> QED
    BY <2>1
<1>2. b * len = a * len + len + d * len
  BY <1>1
<1>3. d * len \in Nat /\ a * len \in Nat
  BY <1>1
<1> QED
  BY <1>2, <1>3

-----------------------------------------------------------------------------
LEMMA TypeInit == Init => TInv
<1> SUFFICES ASSUME NEW r \in Reads, Begin(r) PROVE TInv
  BY DEF Init
<1>1. r \in [mask : SUBSET Feature, packets : Nat \ {0}]
  BY PacketAssumption
<1>2. Loop
  BY <1>1 DEF Loop, Begin
<1>3. r = [mask |-> mask, packets |-> n]
  BY <1>1 DEF Begin
<1> QED
  BY <1>1, <1>2, <1>3 DEF TInv, TypeOK, Begin, Field

(* What the typed state says of the sizes at hand. *)
LEMMA TypeFacts ==
  ASSUME TInv
  PROVE  /\ n \in Nat \ {0} /\ j \in Nat /\ i \in Nat
         /\ PacketLen(mask) \in Nat
         /\ PacketLen(mask) * j \in Nat
         /\ next \in Field => j \in 0 .. n - 1
<1>1. [mask |-> mask, packets |-> n] \in [mask : SUBSET Feature, packets : Nat \ {0}]
  BY PacketAssumption DEF TInv, TypeOK
<1>2. n \in Nat \ {0} /\ j \in Nat /\ i \in Nat /\ PacketLen(mask) \in Nat
  BY <1>1, LenNat DEF TInv, TypeOK
<1> QED
  BY <1>2 DEF TInv, TypeOK, Loop

(* Taking a field keeps what was taken typed. *)
LEMMA TakeType ==
  ASSUME TInv, next \in Field, NEW f \in Field, NEW at \in Nat, Take(f, at)
  PROVE  took' \subseteq [packet : 0 .. n - 1, field : Field, at : Nat]
  BY TypeFacts DEF TInv, TypeOK, Take

LEMMA TypeStep == TInv /\ [Next]_vars => TInv'
<1> SUFFICES ASSUME TInv, [Next]_vars PROVE TInv'
  OBVIOUS
<1> USE TypeFacts
<1>1. CASE Quat
  <2>1. took' \subseteq [packet : 0 .. n - 1, field : Field, at : Nat] /\ i' \in 0 .. 255
    <3>1. CASE "quat" \in Sent(mask)
      <4>1. Take("quat", PacketLen(mask) * j) /\ i' = 16 /\ next \in Field
        BY <1>1, <3>1 DEF Quat, Field
      <4> QED
        BY <4>1, TakeType DEF Field
    <3>2. CASE "quat" \notin Sent(mask)
      BY <1>1, <3>2 DEF Quat, TInv, TypeOK
    <3> QED
      BY <3>1, <3>2
  <2> QED
    BY <1>1, <2>1 DEF Quat, TInv, TypeOK, Loop, Field
<1>2. CASE Accel
  <2>1. took' \subseteq [packet : 0 .. n - 1, field : Field, at : Nat] /\ i' \in 0 .. 255
    <3>1. CASE "accel" \in Sent(mask)
      <4>1. Take("accel", i + PacketLen(mask) * j) /\ Advance(6) /\ next \in Field
        BY <1>2, <3>1 DEF Accel, Field
      <4> QED
        BY <4>1, TakeType, ByteRange DEF Field, Advance
    <3>2. CASE "accel" \notin Sent(mask)
      BY <1>2, <3>2 DEF Accel, TInv, TypeOK
    <3> QED
      BY <3>1, <3>2
  <2> QED
    BY <1>2, <2>1 DEF Accel, TInv, TypeOK, Loop, Field
<1>3. CASE Gyro
  <2>1. took' \subseteq [packet : 0 .. n - 1, field : Field, at : Nat] /\ i' \in 0 .. 255
    <3>1. CASE "gyro" \in Sent(mask)
      <4>1. Take("gyro", i + PacketLen(mask) * j) /\ Advance(6) /\ next \in Field
        BY <1>3, <3>1 DEF Gyro, Field
      <4> QED
        BY <4>1, TakeType, ByteRange DEF Field, Advance
    <3>2. CASE "gyro" \notin Sent(mask)
      BY <1>3, <3>2 DEF Gyro, TInv, TypeOK
    <3> QED
      BY <3>1, <3>2
  <2> QED
    BY <1>3, <2>1 DEF Gyro, TInv, TypeOK, Loop, Field
<1>4. CASE Fails
  BY <1>4 DEF Fails, TInv, TypeOK, Loop, Field
<1>5. CASE Gesture
  <2>1. took' \subseteq [packet : 0 .. n - 1, field : Field, at : Nat]
    <3>1. CASE "gesture" \in Sent(mask)
      <4>1. Take("gesture", i + PacketLen(mask) * j) /\ next \in Field
        BY <1>5, <3>1 DEF Gesture, Field
      <4> QED
        BY <4>1, TakeType DEF Field
    <3>2. CASE "gesture" \notin Sent(mask)
      BY <1>5, <3>2 DEF Gesture, TInv, TypeOK
    <3> QED
      BY <3>1, <3>2
  <2>2. tap' \in Tap \union {None} /\ heard' \in [count : Nat, direction : Nat] \union {None}
    <3>1. CASE UNCHANGED <<tap, heard>>
      BY <3>1 DEF TInv, TypeOK
    <3>2. CASE \E t \in Tap : tap' = t /\ Tapped(t)
      <4>1. PICK t \in Tap : tap' = t /\ Tapped(t)
        BY <3>2
      <4>2. t \div 8 \in Nat /\ (t % 8) + 1 \in Nat
        BY Taps, PacketAssumption
      <4> QED
        BY <4>1, <4>2 DEF Tapped
    <3> QED
      BY <1>5, <3>1, <3>2 DEF Gesture
  <2>3. j' \in 0 .. n /\ next' \in Field \union {"done", "failed"}
        /\ (next' \in Field => j' < n)
    BY <1>5 DEF Gesture, Field
  <2> QED
    BY <1>5, <2>1, <2>2, <2>3 DEF Gesture, TInv, TypeOK, Loop
<1>6. CASE UNCHANGED vars
  BY <1>6 DEF vars, TInv, TypeOK, Loop
<1> QED
  BY <1>1, <1>2, <1>3, <1>4, <1>5, <1>6 DEF Next

(* The offset stays a byte and the packets are counted to n: the state of
   mpu6050_dmp_read's loop keeps its type for any masks and packets. *)
THEOREM TypeCorrect == Spec => []TypeOK
<1>1. TInv => TypeOK
  BY DEF TInv
<1> QED
  BY TypeInit, TypeStep, <1>1, PTL DEF Spec

-----------------------------------------------------------------------------
(* A field that is taken at the offset, when that is its place. *)
LEMMA TakePlaced ==
  ASSUME TInv, FieldsOfPackets, TookSent,
         NEW f \in Field, f \in Sent(mask), mask' = mask,
         Take(f, Place(mask, f) + PacketLen(mask) * j)
  PROVE  FieldsOfPackets' /\ TookSent'
<1>1. Place(mask, f) \in Nat /\ PacketLen(mask) \in Nat /\ j \in Nat
  BY PlaceFits, TypeFacts
<1>2. Place(mask, f) + PacketLen(mask) * j = j * PacketLen(mask) + Place(mask, f)
  BY <1>1
<1>3. \A t \in took' : \/ t \in took
                       \/ /\ t.packet = j /\ t.field = f
                          /\ t.at = j * PacketLen(mask) + Place(mask, f)
  BY <1>2 DEF Take
<1> QED
  BY <1>3 DEF FieldsOfPackets, TookSent

LEMMA NothingTaken ==
  ASSUME FieldsOfPackets, TookSent, UNCHANGED <<mask, took>>
  PROVE  FieldsOfPackets' /\ TookSent'
  BY DEF FieldsOfPackets, TookSent

LEMMA InductiveInit == Ordinary /\ Init => IInv
<1> SUFFICES ASSUME Ordinary, Init, NEW r \in Reads, Begin(r) PROVE IInv
  BY DEF Init
<1>1. OnlyOrdinary
  BY DEF Ordinary, OnlyOrdinary, Begin
<1>2. Offset
  BY DEF Offset, Begin
<1>3. TookSent /\ FieldsOfPackets
  BY DEF TookSent, FieldsOfPackets, Begin
<1> QED
  BY <1>1, <1>2, <1>3, TypeInit DEF IInv

(* The offset at a field that follows, a small byte. *)
LEMMA Advances ==
  ASSUME NEW m
  PROVE  /\ "accel" \in Sent(m) =>
              (Place(m, "accel") + 6) % 256 = Place(m, "gyro")
         /\ "accel" \notin Sent(m) => Place(m, "accel") = Place(m, "gyro")
         /\ "gyro" \in Sent(m) =>
              (Place(m, "gyro") + 6) % 256 = Place(m, "gesture")
         /\ "gyro" \notin Sent(m) => Place(m, "gyro") = Place(m, "gesture")
<1>1. /\ "accel" \in Sent(m) => Place(m, "accel") + 6 = Place(m, "gyro")
      /\ "accel" \notin Sent(m) => Place(m, "accel") = Place(m, "gyro")
      /\ "gyro" \in Sent(m) => Place(m, "gyro") + 6 = Place(m, "gesture")
      /\ "gyro" \notin Sent(m) => Place(m, "gyro") = Place(m, "gesture")
  BY PlacesInOrder, Sizes
<1>2. Place(m, "gyro") \in 0 .. 255 /\ Place(m, "gesture") \in 0 .. 255
  BY PlacesInOrder, Sizes
<1> QED
  BY <1>1, <1>2, SmallByte

LEMMA InductiveStep == IInv /\ [Next]_vars => IInv'
<1> SUFFICES ASSUME IInv, [Next]_vars PROVE IInv'
  OBVIOUS
<1>1. TInv' /\ TInv
  BY TypeStep DEF IInv
<1>2. mask' = mask /\ n' = n
  BY DEF Next, Quat, Accel, Gyro, Fails, Gesture, vars
<1>3. OnlyOrdinary'
  BY <1>2 DEF IInv, OnlyOrdinary
<1>4. Offset' /\ TookSent' /\ FieldsOfPackets'
  <2>1. CASE Quat
    <3>1. CASE "quat" \in Sent(mask)
      <4>1. Take("quat", Place(mask, "quat") + PacketLen(mask) * j)
        BY <1>1, <2>1, <3>1, PlacesInOrder, TypeFacts DEF Quat
      <4>2. TookSent' /\ FieldsOfPackets'
        BY <1>1, <1>2, <3>1, <4>1, TakePlaced DEF IInv, Field
      <4>3. i' = Place(mask, "accel") /\ next' = "accel"
        BY <2>1, <3>1, PlacesInOrder, Sizes DEF Quat
      <4> QED
        BY <1>2, <4>2, <4>3 DEF Offset
    <3>2. CASE "quat" \notin Sent(mask)
      <4>1. n = 1 /\ j = 0
        BY <1>1, <2>1, <3>2, TypeFacts DEF IInv, OnlyOrdinary, Quat, TInv, Loop, Field
      <4>2. i' = 0 /\ next' = "accel" /\ UNCHANGED <<mask, took>>
        BY <2>1, <3>2, <4>1 DEF IInv, Offset, Quat
      <4>3. Place(mask, "accel") = 0
        BY <3>2, PlacesInOrder, Sizes
      <4> QED
        BY <1>2, <4>2, <4>3, NothingTaken DEF IInv, Offset
    <3> QED
      BY <3>1, <3>2
  <2>2. CASE Accel
    <3>1. i = Place(mask, "accel") /\ next' = "gyro"
      BY <2>2 DEF IInv, Offset, Accel
    <3>2. CASE "accel" \in Sent(mask)
      <4>1. TookSent' /\ FieldsOfPackets'
        BY <1>1, <1>2, <2>2, <3>1, <3>2, TakePlaced DEF IInv, Accel, Field
      <4>2. i' = Place(mask, "gyro")
        BY <2>2, <3>1, <3>2, Advances DEF Accel, Advance
      <4> QED
        BY <1>2, <3>1, <4>1, <4>2 DEF Offset
    <3>3. CASE "accel" \notin Sent(mask)
      <4>1. i' = Place(mask, "gyro") /\ UNCHANGED <<mask, took>>
        BY <2>2, <3>1, <3>3, Advances DEF Accel
      <4> QED
        BY <1>2, <3>1, <4>1, NothingTaken DEF IInv, Offset
    <3> QED
      BY <3>2, <3>3
  <2>3. CASE Gyro
    <3>1. i = Place(mask, "gyro") /\ next' = "gesture"
      BY <2>3 DEF IInv, Offset, Gyro
    <3>2. CASE "gyro" \in Sent(mask)
      <4>1. TookSent' /\ FieldsOfPackets'
        BY <1>1, <1>2, <2>3, <3>1, <3>2, TakePlaced DEF IInv, Gyro, Field
      <4>2. i' = Place(mask, "gesture")
        BY <2>3, <3>1, <3>2, Advances DEF Gyro, Advance
      <4> QED
        BY <1>2, <3>1, <4>1, <4>2 DEF Offset
    <3>3. CASE "gyro" \notin Sent(mask)
      <4>1. i' = Place(mask, "gesture") /\ UNCHANGED <<mask, took>>
        BY <2>3, <3>1, <3>3, Advances DEF Gyro
      <4> QED
        BY <1>2, <3>1, <4>1, NothingTaken DEF IInv, Offset
    <3> QED
      BY <3>2, <3>3
  <2>4. CASE Fails
    <3>1. next' = "failed" /\ UNCHANGED <<mask, took>>
      BY <2>4 DEF Fails
    <3> QED
      BY <3>1, NothingTaken DEF IInv, Offset
  <2>5. CASE Gesture
    <3>1. i = Place(mask, "gesture") /\ next' \in {"quat", "done"} /\ j' = j + 1
      BY <2>5 DEF IInv, Offset, Gesture
    <3>2. Offset'
      BY <1>1, <3>1, TypeFacts DEF Offset
    <3>3. TookSent' /\ FieldsOfPackets'
      <4>1. CASE "gesture" \in Sent(mask)
        BY <1>1, <1>2, <2>5, <3>1, <4>1, TakePlaced DEF IInv, Gesture, Field
      <4>2. CASE "gesture" \notin Sent(mask)
        BY <1>2, <2>5, <4>2, NothingTaken DEF IInv, Gesture
      <4> QED
        BY <4>1, <4>2
    <3> QED
      BY <3>2, <3>3
  <2>6. CASE UNCHANGED vars
    BY <2>6 DEF vars, IInv, Offset, TookSent, FieldsOfPackets
  <2> QED
    BY <2>1, <2>2, <2>3, <2>4, <2>5, <2>6 DEF Next
<1> QED
  BY <1>1, <1>3, <1>4 DEF IInv

(* Whenever the reads are of one packet, or of masks with a quaternion, each
   field that dmp_read stores for a packet comes from that field of that
   packet, for any number of packets and any such masks. *)
THEOREM FieldsFromTheirPackets == Ordinary => (Spec => []FieldsOfPackets)
<1> SUFFICES ASSUME Ordinary PROVE Spec => []FieldsOfPackets
  OBVIOUS
<1>1. Init => IInv
  BY InductiveInit
<1>2. IInv => FieldsOfPackets
  BY DEF IInv
<1> QED
  BY <1>1, <1>2, InductiveStep, PTL DEF Spec

(* A field that is sent and taken from its place ends within the n packets. *)
LEMMA PlacedInBuffer == IInv => ReadsInBuffer
<1> SUFFICES ASSUME IInv, NEW t \in took
             PROVE  t.at + Size[t.field] <= n * PacketLen(mask)
  BY DEF ReadsInBuffer
<1> DEFINE len == PacketLen(mask)
<1>1. TInv
  BY DEF IInv
<1>2. t.packet \in 0 .. n - 1 /\ t.field \in Sent(mask) /\ n \in Nat /\ len \in Nat
  BY <1>1, TypeFacts DEF IInv, TInv, TypeOK, TookSent
<1>3. t.at = t.packet * len + Place(mask, t.field)
  BY DEF IInv, FieldsOfPackets
<1>4. /\ Place(mask, t.field) \in Nat /\ Size[t.field] \in Nat
      /\ Place(mask, t.field) + Size[t.field] <= len
  BY <1>2, PlaceFits
<1>5. t.packet \in Nat /\ t.packet < n
  BY <1>2
<1>6. t.packet * len + len <= n * len
  BY <1>2, <1>5, Packets
<1>7. t.packet * len \in Nat /\ n * len \in Nat
  BY <1>2, <1>5
<1> HIDE DEF len
<1> QED
  BY <1>2, <1>3, <1>4, <1>6, <1>7 DEF len

(* Under the same condition no read leaves the bytes that were transferred. *)
THEOREM ReadsStayInBuffer == Ordinary => (Spec => []ReadsInBuffer)
<1> SUFFICES ASSUME Ordinary PROVE Spec => []ReadsInBuffer
  OBVIOUS
<1>1. Init => IInv
  BY InductiveInit
<1> QED
  BY <1>1, PlacedInBuffer, InductiveStep, PTL DEF Spec
=============================================================================
