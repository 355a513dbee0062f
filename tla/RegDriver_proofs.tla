-------------------------- MODULE RegDriver_proofs --------------------------
(***************************************************************************)
(* A table whose setters and getters fit together gives a store of         *)
(* independent options, whichever options share registers, whatever        *)
(* transfers fail, and for a table of any size.                            *)
(*                                                                         *)
(* What a call has read may be out of date when it writes: the chip may    *)
(* have cleared a reset bit in between.  The invariant therefore says that *)
(* the copy agrees with the register but for the bits that are being set   *)
(* and those that belong to the chip.                                      *)
(***************************************************************************)
EXTENDS RegDriver, TLAPS

(* The bits of a register that the chip may clear. *)
Chips(r) == UNION {Up(o.set[1].bits, o.set[1].up) :
                     o \in {q \in Volatile : q.set[1].reg = r}}

(* The register of piece i of an option holds that piece of a value. *)
Holds(o, i, v) ==
  \A b \in o.set[i].bits :
    b + o.set[i].up \in regs[o.set[i].reg] <=> b \in Stored(o, v)

(* What a call has read is still what the register holds, but for the bits
   it is about to set and the chip's own. *)
Fresh ==
  call # None /\ call.next = "write" /\ First(Here(call)) = "read" =>
    \A b \in BitsOf(Here(call).reg) \ Here(call).clear :
      b \notin Chips(Here(call).reg) =>
        (b \in call.prev <=> b \in regs[Here(call).reg])

(* The pieces that a call has written hold its value. *)
Done ==
  call # None /\ call.opt \notin Volatile =>
    \A i \in DOMAIN call.opt.set :
      i < call.at \/ call.next = "return" => Holds(call.opt, i, call.val)

IInv == TypeOK /\ Fresh /\ Done

-----------------------------------------------------------------------------
(* The pieces of an option of the table. *)
LEMMA PieceTypes ==
  ASSUME NEW o \in Option
  PROVE  /\ Len(o.set) \in Nat /\ Len(o.set) > 0
         /\ DOMAIN o.set = 1 .. Len(o.set)
         /\ \A i \in DOMAIN o.set : o.set[i] \in PieceType
         /\ \A i \in DOMAIN o.get : o.get[i] \in PieceType
  BY TableAssumption, Z3

(* Shifting bits up and looking for a shifted bit. *)
LEMMA UpHas ==
  ASSUME NEW n \in Nat, NEW S \in SUBSET Nat, NEW b \in Nat
  PROVE  b + n \in Up(S, n) <=> b \in S
  BY DEF Up

(* The pieces are set where the getter reads them. *)
LEMMA PieceFacts ==
  ASSUME NEW o \in Option, Agrees(o), NEW i \in DOMAIN o.set
  PROVE  /\ o.set[i] \in PieceType
         /\ i \in DOMAIN o.get
         /\ o.get[i].reg = o.set[i].reg
         /\ o.get[i].bits = o.set[i].bits
         /\ o.get[i].up = o.set[i].up
         /\ o.set[i].clear = Up(o.set[i].bits, o.set[i].up)
         /\ o.set[i].clear \subseteq BitsOf(o.set[i].reg)
         /\ o.set[i].reg \in Reg
         /\ o.set[i].bits \subseteq Nat
         /\ o.set[i].up \in Nat
<1>1. o.set[i] \in PieceType /\ DOMAIN o.set = DOMAIN o.get
  BY PieceTypes DEF Agrees
<1>2. o.get[i] = [o.set[i] EXCEPT !.clear = {}]
  BY DEF Agrees
<1>3. QED
  BY <1>1, <1>2 DEF Agrees, PieceType, Value

(* The values a setter is called with fit into its bits. *)
LEMMA ValuesFit ==
  ASSUME NEW o \in Option, NEW v \in Values(o)
  PROVE  v \subseteq Bits(o) /\ Bits(o) \in Value /\ v \in Value
<1>1. v \subseteq Bits(o)
  BY DEF Values
<1>2. \A p \in Parts(o.set) : p.bits \in Value
  BY PieceTypes DEF Parts, PieceType
<1>3. Bits(o) \in Value
  BY <1>2 DEF Bits, Value
<1>4. QED
  BY <1>1, <1>3 DEF Value

(* The bits of an option's piece are no other's, and not the chip's. *)
LEMMA OwnBits ==
  ASSUME Fits(Option), NEW o \in Option, NEW i \in DOMAIN o.set,
         NEW b \in o.set[i].bits
  PROVE  /\ b + o.set[i].up \in o.set[i].clear
         /\ b + o.set[i].up \in BitsOf(o.set[i].reg)
         /\ \A q \in Option : \A j \in DOMAIN q.set :
              (q # o \/ j # i) /\ q.set[j].reg = o.set[i].reg
                => b + o.set[i].up \notin q.set[j].clear
         /\ o \notin Volatile => b + o.set[i].up \notin Chips(o.set[i].reg)
<1>1. Agrees(o)
  BY DEF Fits
<1>2. b + o.set[i].up \in o.set[i].clear
  BY <1>1, PieceFacts, UpHas
<1>3. b + o.set[i].up \in BitsOf(o.set[i].reg)
  BY <1>1, <1>2, PieceFacts
<1>4. ASSUME NEW q \in Option, NEW j \in DOMAIN q.set,
             q # o \/ j # i, q.set[j].reg = o.set[i].reg
      PROVE  b + o.set[i].up \notin q.set[j].clear
  BY <1>2, <1>4 DEF Fits, Apart
<1>5. ASSUME o \notin Volatile
      PROVE  b + o.set[i].up \notin Chips(o.set[i].reg)
  <2>1. SUFFICES ASSUME NEW q \in Volatile, q.set[1].reg = o.set[i].reg,
                        b + o.set[i].up \in Up(q.set[1].bits, q.set[1].up)
                 PROVE  FALSE
    BY DEF Chips
  <2>2. q \in Option /\ q # o /\ Agrees(q) /\ 1 \in DOMAIN q.set
    BY <1>5, PieceTypes, TableAssumption DEF Fits
  <2>3. q.set[1].clear = Up(q.set[1].bits, q.set[1].up)
    BY <2>2, PieceFacts
  <2>4. QED
    BY <1>4, <2>1, <2>2, <2>3
<1>6. QED
  BY <1>2, <1>3, <1>4, <1>5

(* What a call writes: its value in its bits, and around them what the
   register held, but for the chip's bits. *)
LEMMA WhatIsWritten ==
  ASSUME Fits(Option), TypeOK, Fresh, call # None, call.next = "write"
  PROVE  /\ Merged(call) \subseteq BitsOf(Here(call).reg)
         /\ \A b \in Here(call).bits :
              b + Here(call).up \in Merged(call)
                <=> b \in Stored(call.opt, call.val)
         /\ \A c \in BitsOf(Here(call).reg) \ Here(call).clear :
              c \notin Chips(Here(call).reg)
                => (c \in Merged(call) <=> c \in regs[Here(call).reg])
<1> DEFINE p == Here(call)
<1>1. call.opt \in Option /\ call.at \in DOMAIN call.opt.set
  BY DEF TypeOK
<1>2. Agrees(call.opt)
  BY <1>1 DEF Fits
<1>3. /\ p.bits \subseteq Nat /\ p.up \in Nat
      /\ p.clear = Up(p.bits, p.up)
      /\ p.clear \subseteq BitsOf(p.reg)
  BY <1>1, <1>2, PieceFacts DEF Here
<1>4. Merged(call) = BitsOf(p.reg) \intersect
        ((call.prev \ p.clear) \union
           Up(p.bits \intersect Stored(call.opt, call.val), p.up))
  BY DEF Merged
<1>5. ASSUME NEW b \in p.bits
      PROVE  b + p.up \in Merged(call) <=> b \in Stored(call.opt, call.val)
  <2>1. b \in Nat /\ b + p.up \in p.clear
    BY <1>3, UpHas
  <2>2. b + p.up \in Up(p.bits \intersect Stored(call.opt, call.val), p.up)
          <=> b \in p.bits \intersect Stored(call.opt, call.val)
    BY <1>3, <2>1, UpHas
  <2>3. QED
    BY <1>3, <1>4, <2>1, <2>2
<1>6. ASSUME NEW c \in BitsOf(p.reg) \ p.clear, c \notin Chips(p.reg)
      PROVE  c \in Merged(call) <=> c \in regs[p.reg]
  <2>1. First(p) = "read"
    BY <1>6 DEF First
  <2>2. c \in call.prev <=> c \in regs[p.reg]
    BY <1>6, <2>1 DEF Fresh
  <2>3. c \notin Up(p.bits \intersect Stored(call.opt, call.val), p.up)
    BY <1>3 DEF Up
  <2>4. QED
    BY <1>4, <2>2, <2>3
<1>7. QED
  BY <1>4, <1>5, <1>6

(* Piece i of an option looks the same after the step. *)
Same(o, i) ==
  \A b \in o.set[i].bits :
    b + o.set[i].up \in regs[o.set[i].reg]
      <=> b + o.set[i].up \in regs'[o.set[i].reg]

(* A write, all of it or a part, leaves every other piece as it was. *)
LEMMA WriteKeeps ==
  ASSUME Fits(Option), TypeOK, Fresh, call # None, call.next = "write",
         NEW taken,
         regs' = [regs EXCEPT ![Here(call).reg] =
                    (@ \ taken) \union (Merged(call) \intersect taken)],
         NEW o \in Option \ Volatile, NEW i \in DOMAIN o.set,
         o # call.opt \/ i # call.at
  PROVE  Same(o, i)
<1>1. call.opt \in Option /\ call.at \in DOMAIN call.opt.set
  BY DEF TypeOK
<1>2. CASE o.set[i].reg # Here(call).reg
  <2>1. regs'[o.set[i].reg] = regs[o.set[i].reg]
    BY <1>2, PieceFacts DEF TypeOK, Fits
  <2>2. QED
    BY <2>1 DEF Same
<1>3. CASE o.set[i].reg = Here(call).reg
  <2>1. SUFFICES ASSUME NEW b \in o.set[i].bits
                 PROVE  b + o.set[i].up \in regs[Here(call).reg]
                          <=> b + o.set[i].up \in regs'[Here(call).reg]
    BY <1>3 DEF Same
  <2>2. /\ b + o.set[i].up \in BitsOf(Here(call).reg) \ Here(call).clear
        /\ b + o.set[i].up \notin Chips(Here(call).reg)
    BY <1>1, <1>3, OwnBits DEF Here
  <2>3. b + o.set[i].up \in Merged(call)
          <=> b + o.set[i].up \in regs[Here(call).reg]
    BY <2>2, WhatIsWritten
  <2>4. regs'[Here(call).reg] =
          (regs[Here(call).reg] \ taken) \union (Merged(call) \intersect taken)
    BY <1>3, PieceFacts DEF TypeOK, Fits
  <2>5. QED
    BY <2>3, <2>4
<1>4. QED
  BY <1>2, <1>3

(* The chip leaves the pieces of the driver's options as they were. *)
LEMMA ClearKeeps ==
  ASSUME Fits(Option), TypeOK, NEW v \in Volatile, ChipClears(v),
         NEW o \in Option \ Volatile, NEW i \in DOMAIN o.set
  PROVE  Same(o, i)
<1>1. v \in Option /\ 1 \in DOMAIN v.set
  BY PieceTypes, TableAssumption
<1>2. o.set[i].reg \in Reg /\ v.set[1].reg \in Reg
  BY <1>1, PieceFacts DEF Fits
<1>3. regs'[o.set[i].reg] =
        IF o.set[i].reg = v.set[1].reg
          THEN regs[o.set[i].reg] \ Up(v.set[1].bits, v.set[1].up)
          ELSE regs[o.set[i].reg]
  BY <1>2 DEF ChipClears, TypeOK
<1>4. ASSUME NEW b \in o.set[i].bits, o.set[i].reg = v.set[1].reg
      PROVE  b + o.set[i].up \notin Up(v.set[1].bits, v.set[1].up)
  <2>1. b + o.set[i].up \notin Chips(o.set[i].reg)
    BY OwnBits
  <2>2. QED
    BY <2>1, <1>4 DEF Chips
<1>5. QED
  BY <1>3, <1>4 DEF Same

(* A getter whose pieces look the same returns the same. *)
LEMMA GotSame ==
  ASSUME Fits(Option), NEW o \in Option, \A i \in DOMAIN o.set : Same(o, i)
  PROVE  Got(o)' = Got(o)
<1>1. Agrees(o)
  BY DEF Fits
<1>2. ASSUME NEW p \in Parts(o.get), NEW b \in p.bits
      PROVE  b + p.up \in regs[p.reg] <=> b + p.up \in regs'[p.reg]
  <2>1. PICK i \in DOMAIN o.get : p = o.get[i]
    BY DEF Parts
  <2>2. i \in DOMAIN o.set
    BY <1>1 DEF Agrees
  <2>3. p.reg = o.set[i].reg /\ p.bits = o.set[i].bits /\ p.up = o.set[i].up
    BY <1>1, <2>1, <2>2, PieceFacts
  <2>4. QED
    BY <2>2, <2>3 DEF Same
<1>3. UNION {{b \in p.bits : b + p.up \in regs[p.reg]} : p \in Parts(o.get)}
        = UNION {{b \in p.bits : b + p.up \in regs'[p.reg]} :
                   p \in Parts(o.get)}
  BY <1>2
<1>4. QED
  BY <1>3 DEF Got

(* When every piece of an option holds a value, its getter returns it. *)
LEMMA GotValue ==
  ASSUME Fits(Option), NEW o \in Option, NEW v, v \subseteq Bits(o),
         \A i \in DOMAIN o.set : Holds(o, i, v)
  PROVE  Got(o) = v
<1>1. Agrees(o)
  BY DEF Fits
<1> DEFINE raw == UNION {{b \in p.bits : b + p.up \in regs[p.reg]} :
                           p \in Parts(o.get)}
<1>2. ASSUME NEW b
      PROVE  b \in raw <=> b \in Stored(o, v)
  <2>1. ASSUME b \in raw PROVE b \in Stored(o, v)
    <3>1. PICK i \in DOMAIN o.get :
            b \in o.get[i].bits /\ b + o.get[i].up \in regs[o.get[i].reg]
      BY <2>1 DEF Parts
    <3>2. i \in DOMAIN o.set
      BY <1>1 DEF Agrees
    <3>3. QED
      BY <1>1, <3>1, <3>2, PieceFacts DEF Holds
  <2>2. ASSUME b \in Stored(o, v) PROVE b \in raw
    <3>1. b \in Bits(o)
      BY <2>2 DEF Stored
    <3>2. PICK i \in DOMAIN o.set : b \in o.set[i].bits
      BY <3>1 DEF Bits, Parts
    <3>3. i \in DOMAIN o.get
      BY <1>1 DEF Agrees
    <3>4. b \in o.get[i].bits /\ b + o.get[i].up \in regs[o.get[i].reg]
      BY <1>1, <2>2, <3>2, PieceFacts DEF Holds
    <3>5. QED
      BY <3>3, <3>4 DEF Parts
  <2>3. QED
    BY <2>1, <2>2
<1>3. raw = Stored(o, v)
  BY <1>2 DEF Stored
<1>4. CASE o.kind = "inverted"
  BY <1>1, <1>3, <1>4 DEF Got, Stored, Agrees
<1>5. CASE o.kind # "inverted"
  BY <1>3, <1>5 DEF Got, Stored
<1>6. QED
  BY <1>4, <1>5

-----------------------------------------------------------------------------
(* No call is running at first, so only the types are at stake. *)
LEMMA InitEstablishes == Init => IInv
<1> SUFFICES ASSUME Init PROVE IInv
  OBVIOUS
<1>1. focus \subseteq Option /\ call = None /\ result = 0
  BY DEF Init
<1>2. regs \in [Reg -> Value] /\ \A r \in Reg : regs[r] \subseteq BitsOf(r)
  BY DEF Init, BitsOf, Value
<1>3. QED
  BY <1>1, <1>2 DEF IInv, TypeOK, Fresh, Done

(* A write leaves the registers in range. *)
LEMMA WriteTypes ==
  ASSUME Fits(Option), TypeOK, Fresh, call # None, call.next = "write",
         NEW taken,
         regs' = [regs EXCEPT ![Here(call).reg] =
                    (@ \ taken) \union (Merged(call) \intersect taken)]
  PROVE  /\ regs' \in [Reg -> Value]
         /\ \A r \in Reg : regs'[r] \subseteq BitsOf(r)
<1>1. Merged(call) \subseteq BitsOf(Here(call).reg)
  BY WhatIsWritten
<1>2. \A r \in Reg : regs'[r] \subseteq BitsOf(r)
  BY <1>1 DEF TypeOK
<1>3. \A r \in Reg : regs'[r] \in Value
  BY <1>2 DEF BitsOf, Value
<1>4. QED
  BY <1>2, <1>3 DEF TypeOK

(* A write of everything is a partial write that takes every bit. *)
LEMMA WriteIsWhole ==
  ASSUME Fits(Option), TypeOK, Fresh, Write
  PROVE  regs' = [regs EXCEPT ![Here(call).reg] =
                    (@ \ (0 .. 15)) \union (Merged(call) \intersect (0 .. 15))]
<1>1. call # None /\ call.next = "write"
  BY DEF Write
<1>2. Merged(call) \subseteq 0 .. 15
  BY <1>1, WhatIsWritten DEF BitsOf
<1>3. Here(call).reg \in Reg
  BY <1>1, PieceFacts DEF TypeOK, Fits, Here
<1>4. regs[Here(call).reg] \subseteq 0 .. 15
  BY <1>3 DEF TypeOK, Value
<1>5. (regs[Here(call).reg] \ (0 .. 15)) \union (Merged(call) \intersect (0 .. 15))
        = Merged(call)
  BY <1>2, <1>4
<1>6. QED
  BY <1>5 DEF Write

(* A call begins at its first piece, with nothing written yet. *)
LEMMA CallKeeps ==
  ASSUME IInv, NEW o \in focus, NEW v \in Values(o), Call(o, v)
  PROVE  IInv'
<1>1. o \in Option /\ 1 \in DOMAIN o.set
  BY PieceTypes DEF IInv, TypeOK
<1>2. v \subseteq Bits(o) /\ v \in Value
  BY <1>1, ValuesFit
<1>3. call' = [opt |-> o, val |-> v, at |-> 1, prev |-> {},
               next |-> First(o.set[1])]
  BY DEF Call
<1>4. TypeOK'
  BY <1>1, <1>2, <1>3 DEF IInv, TypeOK, Call, CallType, First, Value, Here, BitsOf
<1>5. Fresh'
  BY <1>3 DEF Fresh, Here
<1>6. Done'
  BY <1>1, <1>3, PieceTypes DEF Done, First
<1>7. QED
  BY <1>4, <1>5, <1>6 DEF IInv

(* A read only fills in the copy and makes the write the next step. *)
LEMMA ReadMoves ==
  ASSUME IInv, Fits(Option), Read
  PROVE  /\ call' \in CallType
         /\ call'.opt = call.opt /\ call'.val = call.val /\ call'.at = call.at
         /\ call'.prev = regs[Here(call).reg] /\ call'.next = "write"
         /\ Here(call).reg \in Reg /\ Here(call') = Here(call)
<1>1. call \in CallType /\ call # None /\ call.next = "read"
  BY DEF Read, IInv, TypeOK
<1>2. call' = [call EXCEPT !.prev = regs[Here(call).reg], !.next = "write"]
  BY DEF Read
<1>3. Here(call).reg \in Reg
  BY <1>1, PieceFacts DEF IInv, TypeOK, Fits, Here
<1>4. QED
  BY <1>1, <1>2, <1>3 DEF CallType, IInv, TypeOK, Here

(* Right after the read the copy is what the register holds. *)
LEMMA ReadKeeps ==
  ASSUME IInv, Fits(Option), Read
  PROVE  IInv'
<1>1. /\ call \in CallType /\ call # None
      /\ UNCHANGED <<focus, regs, result>>
  BY DEF Read, IInv, TypeOK
<1>2. TypeOK'
  BY <1>1, ReadMoves DEF IInv, TypeOK
<1>3. Fresh'
  BY <1>1, ReadMoves DEF Fresh, Chips
<1>4. Done'
  BY <1>1, ReadMoves DEF Read, IInv, Done, Holds
<1>5. QED
  BY <1>2, <1>3, <1>4 DEF IInv

(* A write moves the call on to its next piece, or to its return. *)
LEMMA WriteMoves ==
  ASSUME IInv, Fits(Option), Write
  PROVE  /\ call' \in CallType
         /\ call'.opt = call.opt /\ call'.val = call.val
         /\ call'.at \in DOMAIN call.opt.set /\ call'.prev = {}
         /\ call'.next = "return" => call'.at = call.at /\ call.at = Len(call.opt.set)
         /\ call'.next # "return" => call'.at = call.at + 1
         /\ call'.next = "write" => First(Here(call')) = "write"
<1>1. /\ call \in CallType /\ call # None /\ call.next = "write"
      /\ call.opt \in Option /\ call.at \in DOMAIN call.opt.set
  BY DEF Write, IInv, TypeOK
<1>2. call' = Advanced(call)
  BY DEF Write
<1>3. DOMAIN call.opt.set = 1 .. Len(call.opt.set) /\ Len(call.opt.set) \in Nat
  BY <1>1, PieceTypes
<1>4. CASE call.at < Len(call.opt.set)
  <2> DEFINE next == First(call.opt.set[call.at + 1])
  <2>1. call' = [call EXCEPT !.at = call.at + 1, !.prev = {}, !.next = next]
    BY <1>2, <1>4 DEF Advanced
  <2>2. next \in {"read", "write"}
    BY DEF First
  <2>3. call.at + 1 \in DOMAIN call.opt.set
    BY <1>1, <1>3, <1>4
  <2>4. /\ call'.opt = call.opt /\ call'.val = call.val
        /\ call'.at = call.at + 1 /\ call'.prev = {} /\ call'.next = next
    BY <1>1, <2>1 DEF CallType
  <2>5. call' \in CallType
    <3>1. call.at + 1 \in Nat /\ {} \in Value
      BY <1>1 DEF CallType, Value
    <3>2. next \in {"read", "write", "return"}
      BY <2>2
    <3> HIDE DEF next
    <3>3. QED
      BY <1>1, <2>1, <3>1, <3>2 DEF CallType
  <2>6. Here(call') = call.opt.set[call.at + 1]
    BY <2>4 DEF Here
  <2>7. QED
    BY <2>2, <2>3, <2>4, <2>5, <2>6
<1>5. CASE ~(call.at < Len(call.opt.set))
  <2>1. call' = [call EXCEPT !.prev = {}, !.next = "return"]
    BY <1>2, <1>5 DEF Advanced
  <2>2. call' \in CallType
    BY <1>1, <2>1 DEF CallType, Value
  <2>3. call.at = Len(call.opt.set)
    BY <1>1, <1>3, <1>5
  <2>4. QED
    BY <1>1, <2>1, <2>2, <2>3 DEF CallType
<1>6. QED
  BY <1>4, <1>5

(* The piece that is written holds the value; those before it still do. *)
LEMMA WriteKeepsInv ==
  ASSUME IInv, Fits(Option), Write
  PROVE  IInv'
<1>1. /\ call \in CallType /\ call # None /\ call.next = "write"
      /\ call.opt \in Option /\ call.at \in DOMAIN call.opt.set
  BY DEF Write, IInv, TypeOK
<1>2. DOMAIN call.opt.set = 1 .. Len(call.opt.set) /\ Len(call.opt.set) \in Nat
  BY <1>1, PieceTypes
<1>3. /\ call' \in CallType
      /\ call'.opt = call.opt /\ call'.val = call.val
      /\ call'.at \in DOMAIN call.opt.set /\ call'.prev = {}
      /\ call'.next = "return" => call'.at = call.at /\ call.at = Len(call.opt.set)
      /\ call'.next # "return" => call'.at = call.at + 1
      /\ call'.next = "write" => First(Here(call')) = "write"
  BY WriteMoves
<1>4. regs' = [regs EXCEPT ![Here(call).reg] =
                 (@ \ (0 .. 15)) \union (Merged(call) \intersect (0 .. 15))]
  BY WriteIsWhole DEF IInv
<1>5. TypeOK'
  <2>1. focus' = focus /\ result' = result
    BY DEF Write
  <2>2. regs' \in [Reg -> Value] /\ \A r \in Reg : regs'[r] \subseteq BitsOf(r)
    BY <1>1, <1>4, WriteTypes DEF IInv
  <2>3. QED
    BY <1>1, <1>3, <2>1, <2>2 DEF IInv, TypeOK
<1>6. Fresh'
  BY <1>3 DEF Fresh
<1>7. Done'
  <2>1. SUFFICES ASSUME call.opt \notin Volatile,
                        NEW i \in DOMAIN call.opt.set,
                        i < call'.at \/ call'.next = "return"
                 PROVE  Holds(call.opt, i, call.val)'
    BY <1>3 DEF Done
  <2>2. CASE i = call.at
    <3>1. Here(call).reg \in Reg
      BY <1>1, PieceFacts DEF Fits, Here
    <3>2. regs'[Here(call).reg] = Merged(call)
      BY <3>1 DEF Write, IInv, TypeOK
    <3>3. \A b \in Here(call).bits :
            b + Here(call).up \in Merged(call)
              <=> b \in Stored(call.opt, call.val)
      BY <1>1, WhatIsWritten DEF IInv
    <3>4. QED
      BY <1>3, <2>2, <3>2, <3>3 DEF Holds, Here, Stored, Bits
  <2>3. CASE i # call.at
    <3>1. i < call.at
      BY <1>1, <1>2, <1>3, <2>1, <2>3 DEF CallType
    <3>2. Holds(call.opt, i, call.val)
      BY <1>1, <2>1, <3>1 DEF IInv, Done
    <3>3. Same(call.opt, i)
      BY <1>1, <1>4, <2>1, <2>3, WriteKeeps DEF IInv
    <3>4. QED
      BY <1>3, <3>2, <3>3 DEF Holds, Same, Stored, Bits
  <2>4. QED
    BY <2>2, <2>3
<1>8. QED
  BY <1>5, <1>6, <1>7 DEF IInv

(* Both failures end the call; the invariant then asks only for the types. *)
LEMMA FailsKeeps ==
  ASSUME IInv, Fits(Option), Fails \/ WriteFails
  PROVE  IInv'
<1>1. focus' = focus /\ call' = None /\ result' = 1
  BY DEF Fails, WriteFails
<1>2. regs' \in [Reg -> Value] /\ \A r \in Reg : regs'[r] \subseteq BitsOf(r)
  <2>1. CASE Fails
    BY <2>1 DEF Fails, IInv, TypeOK
  <2>2. CASE WriteFails
    <3>1. call # None /\ call.next = "write"
      BY <2>2 DEF WriteFails
    <3>2. PICK taken \in {0 .. 15, 8 .. 15} :
            regs' = [regs EXCEPT ![Here(call).reg] =
                       (@ \ taken) \union (Merged(call) \intersect taken)]
      BY <2>2 DEF WriteFails
    <3>3. QED
      BY <3>1, <3>2, WriteTypes DEF IInv
  <2>3. QED
    BY <2>1, <2>2
<1>3. QED
  BY <1>1, <1>2 DEF IInv, TypeOK, Fresh, Done

(* A call that returns leaves nothing to be said of it. *)
LEMMA ReturnKeeps ==
  ASSUME IInv, Return
  PROVE  IInv'
  BY DEF Return, IInv, TypeOK, Fresh, Done

(* The chip clears its own bits, which no copy is expected to know. *)
LEMMA ClearsKeepsInv ==
  ASSUME IInv, Fits(Option), NEW v \in Volatile, ChipClears(v)
  PROVE  IInv'
<1>1. v \in Option /\ 1 \in DOMAIN v.set /\ v.set[1].reg \in Reg
  BY PieceTypes, PieceFacts, TableAssumption DEF Fits
<1>2. UNCHANGED <<focus, call, result>>
  BY DEF ChipClears
<1>3. regs' = [regs EXCEPT ![v.set[1].reg] = @ \ Up(v.set[1].bits, v.set[1].up)]
  BY DEF ChipClears
<1>4. TypeOK'
  <2>1. \A r \in Reg : regs'[r] \subseteq regs[r]
    BY <1>3 DEF IInv, TypeOK
  <2>2. \A r \in Reg : regs'[r] \in Value /\ regs'[r] \subseteq BitsOf(r)
    BY <2>1 DEF IInv, TypeOK, Value
  <2>3. regs' \in [Reg -> Value]
    BY <1>3, <2>2 DEF IInv, TypeOK
  <2>4. Here(call') = Here(call)
    BY <1>2
  <2>5. QED
    BY <1>2, <2>2, <2>3, <2>4 DEF IInv, TypeOK
<1>5. Fresh'
  <2>1. SUFFICES ASSUME call # None, call.next = "write",
                        First(Here(call)) = "read",
                        NEW b \in BitsOf(Here(call).reg) \ Here(call).clear,
                        b \notin Chips(Here(call).reg)
                 PROVE  b \in call.prev <=> b \in regs'[Here(call).reg]
    BY <1>2 DEF Fresh, Chips
  <2>2. b \in call.prev <=> b \in regs[Here(call).reg]
    BY <2>1 DEF IInv, Fresh
  <2>3. Here(call).reg \in Reg
    BY <2>1, PieceFacts DEF IInv, TypeOK, Fits, Here
  <2>4. b \in regs'[Here(call).reg] <=> b \in regs[Here(call).reg]
    <3>1. CASE Here(call).reg # v.set[1].reg
      BY <1>3, <2>3, <3>1 DEF IInv, TypeOK
    <3>2. CASE Here(call).reg = v.set[1].reg
      <4>1. b \notin Up(v.set[1].bits, v.set[1].up)
        BY <2>1, <3>2 DEF Chips
      <4>2. QED
        BY <1>1, <1>3, <3>2, <4>1 DEF IInv, TypeOK
    <3>3. QED
      BY <3>1, <3>2
  <2>5. QED
    BY <2>2, <2>4
<1>6. Done'
  <2>1. SUFFICES ASSUME call # None, call.opt \notin Volatile,
                        NEW i \in DOMAIN call.opt.set,
                        i < call.at \/ call.next = "return"
                 PROVE  Holds(call.opt, i, call.val)'
    BY <1>2 DEF Done
  <2>2. Holds(call.opt, i, call.val)
    BY <2>1 DEF IInv, Done
  <2>3. Same(call.opt, i)
    BY <2>1, ClearKeeps DEF IInv, TypeOK
  <2>4. QED
    BY <1>2, <2>2, <2>3 DEF Holds, Same, Stored, Bits
<1>7. QED
  BY <1>4, <1>5, <1>6 DEF IInv

(* One case for each action. *)
LEMMA NextKeeps ==
  ASSUME IInv, Fits(Option), [Next]_vars
  PROVE  IInv'
<1>1. CASE \E o \in focus : \E v \in Values(o) : Call(o, v)
  BY <1>1, CallKeeps
<1>2. CASE Read
  BY <1>2, ReadKeeps
<1>3. CASE Write
  BY <1>3, WriteKeepsInv
<1>4. CASE Fails \/ WriteFails
  BY <1>4, FailsKeeps
<1>5. CASE Return
  BY <1>5, ReturnKeeps
<1>6. CASE \E o \in Volatile \intersect focus : ChipClears(o)
  BY <1>6, ClearsKeepsInv
<1>7. CASE UNCHANGED vars
  <2>1. UNCHANGED <<focus, regs, call, result>>
    BY <1>7 DEF vars
  <2>2. TypeOK'
    BY <2>1 DEF IInv, TypeOK
  <2>3. Fresh'
    BY <2>1 DEF IInv, Fresh, Chips
  <2>4. Done'
    BY <2>1 DEF IInv, Done, Holds
  <2>5. QED
    BY <2>2, <2>3, <2>4 DEF IInv
<1>8. QED
  BY <1>1, <1>2, <1>3, <1>4, <1>5, <1>6, <1>7 DEF Next

(* For a table that fits together, the invariant holds in every state. *)
THEOREM Invariance ==
  ASSUME Fits(Option)
  PROVE  Spec => []IInv
<1>1. Init => IInv
  BY InitEstablishes
<1>2. IInv /\ [Next]_vars => IInv'
  BY NextKeeps
<1>3. QED
  BY <1>1, <1>2, PTL DEF Spec

(* Registers hold bytes (or words), and a running call is always at one of
   the pieces of its option, in any table that fits together. *)
THEOREM TypeCorrect ==
  ASSUME Fits(Option)
  PROVE  Spec => []TypeOK
<1>1. IInv => TypeOK
  BY DEF IInv
<1>2. QED
  BY <1>1, Invariance, PTL

-----------------------------------------------------------------------------
(* The state of the store that a state of the driver stands for. *)
store == [o \in focus |-> Got(o)]

pending == IF call = None THEN None ELSE [opt |-> call.opt, val |-> call.val]

LEMMA GotIsValue ==
  ASSUME NEW o \in Option
  PROVE  Got(o) \in Value /\ Got(o)' \in Value
<1>1. ASSUME NEW p \in Parts(o.get) PROVE p.bits \subseteq 0 .. 15
  <2>1. p \in PieceType
    BY PieceTypes DEF Parts
  <2>2. QED
    BY <2>1 DEF PieceType, Value
<1>2. ASSUME NEW r
      PROVE  UNION {{b \in p.bits : b + p.up \in r[p.reg]} : p \in Parts(o.get)}
               \subseteq 0 .. 15
  BY <1>1
<1>3. /\ UNION {{b \in p.bits : b + p.up \in regs[p.reg]} : p \in Parts(o.get)}
            \subseteq 0 .. 15
      /\ UNION {{b \in p.bits : b + p.up \in regs'[p.reg]} : p \in Parts(o.get)}
            \subseteq 0 .. 15
  BY <1>2
<1>4. QED
  BY <1>3 DEF Got, Value

(* No record of a call is None, the mark of no call. *)
LEMMA PendingIsNone ==
  ASSUME TypeOK
  PROVE  /\ pending = None <=> call = None
         /\ call # None => /\ pending = [opt |-> call.opt, val |-> call.val]
                           /\ pending \in [opt : focus, val : Value]
                           /\ pending.opt = call.opt /\ pending.val = call.val
<1>1. CASE call = None
  BY <1>1 DEF pending
<1>2. CASE call # None
  <2>1. call.opt \in focus /\ focus \subseteq Option /\ call.val \in Value
    BY <1>2 DEF TypeOK, CallType
  <2>2. [opt |-> call.opt, val |-> call.val] \in [opt : Option, val : Value]
    BY <2>1
  <2>3. QED
    BY <1>2, <2>1, <2>2, TableAssumption DEF pending
<1>3. QED
  BY <1>1, <1>2

(* Two states of the registers in which every option but the one in hand and
   the chip's own looks the same are a change of the store. *)
LEMMA StoreChange ==
  ASSUME TypeOK, TypeOK', Fits(Option), UNCHANGED focus,
         \A o \in focus \ Volatile :
           call = None \/ o # call.opt => \A i \in DOMAIN o.set : Same(o, i)
  PROVE  Store!Change
<1>1. store' = [o \in focus |-> Got(o)']
  BY DEF store
<1>2. focus \subseteq Option
  BY DEF TypeOK
<1>3. ASSUME NEW o \in focus
      PROVE  /\ Got(o)' \in Value
             /\ \/ o \in Store!InDoubt \union Volatile
                \/ Got(o)' = Got(o)
  <2>1. Got(o)' \in Value
    BY <1>2, GotIsValue
  <2>2. CASE o \in Volatile
    BY <2>1, <2>2
  <2>3. CASE o \notin Volatile /\ (call = None \/ o # call.opt)
    <3>1. \A i \in DOMAIN o.set : Same(o, i)
      BY <2>3
    <3>2. QED
      BY <1>2, <2>1, <3>1, GotSame
  <2>4. CASE call # None /\ o = call.opt
    BY <2>1, <2>4, PendingIsNone DEF Store!InDoubt, pending
  <2>5. QED
    BY <2>2, <2>3, <2>4
<1>4. QED
  BY <1>1, <1>3 DEF Store!Change, store

(* Whatever the registers hold at first, the getters return values. *)
LEMMA InitImplements == Init /\ TypeOK => Store!Init
  BY GotIsValue DEF Init, TypeOK, Store!Init

(* Each step of the driver is a step of the store, or changes none of it. *)
LEMMA NextImplements ==
  ASSUME IInv, IInv', Fits(Option), [Next]_vars
  PROVE  Store!Next \/ UNCHANGED <<store, pending, result>>
<1>1. CASE \E o \in focus : \E v \in Values(o) : Call(o, v)
  <2>1. PICK o \in focus : \E v \in Values(o) : Call(o, v)
    BY <1>1
  <2>2. PICK v \in Values(o) : Call(o, v)
    BY <2>1
  <2>3. o \in Option /\ v \in Value /\ 1 \in Nat /\ {} \in Value
    BY ValuesFit DEF IInv, TypeOK, Value
  <2>4. call = None /\ call' # None /\ call'.opt = o /\ call'.val = v
    <3>1. call = None /\ call' = [opt |-> o, val |-> v, at |-> 1, prev |-> {},
                                 next |-> First(o.set[1])]
      BY <2>2 DEF Call
    <3>2. First(o.set[1]) \in {"read", "write", "return"}
      BY DEF First
    <3>3. call' \in CallType
      BY <2>3, <3>1, <3>2 DEF CallType
    <3>4. QED
      BY <3>1, <3>3, TableAssumption
  <2>5. pending = None /\ pending' \in [opt : focus, val : Value]
    BY <2>3, <2>4 DEF pending
  <2>6. store' = store /\ result' = result
    BY <2>2 DEF Call, store, Got
  <2>7. Store!Call
    BY <2>5, <2>6 DEF Store!Call, store, pending
  <2>8. QED
    BY <2>7 DEF Store!Next
<1>2. CASE Read
  <2>1. UNCHANGED <<focus, regs, result>> /\ call # None
    BY <1>2 DEF Read
  <2>2. store' = store
    BY <2>1 DEF store, Got
  <2>3. pending' = pending
    BY <1>2, <2>1, ReadMoves, TableAssumption DEF pending
  <2>4. QED
    BY <2>1, <2>2, <2>3
<1>3. CASE Write
  <2>1. UNCHANGED <<focus, result>> /\ call # None /\ call.next = "write"
    BY <1>3 DEF Write
  <2>2. pending' = pending
    BY <1>3, <2>1, WriteMoves, TableAssumption DEF pending
  <2>3. ASSUME NEW o \in focus \ Volatile, o # call.opt,
               NEW i \in DOMAIN o.set
        PROVE  Same(o, i)
    BY <1>3, <2>1, <2>3, WriteIsWhole, WriteKeeps DEF IInv, TypeOK
  <2>4. Store!Change
    BY <2>1, <2>3, StoreChange DEF IInv
  <2>5. QED
    BY <2>1, <2>2, <2>4 DEF Store!Next, Store!Work, pending
<1>4. CASE Fails \/ WriteFails
  <2>1. call # None /\ focus' = focus /\ call' = None /\ result' = 1
    BY <1>4 DEF Fails, WriteFails
  <2>2. pending # None /\ pending' = None
    BY <2>1, PendingIsNone DEF IInv, pending
  <2>3. ASSUME NEW o \in focus \ Volatile, o # call.opt,
               NEW i \in DOMAIN o.set
        PROVE  Same(o, i)
    <3>1. CASE Fails
      BY <3>1 DEF Fails, Same
    <3>2. CASE WriteFails
      <4>1. call.next = "write"
        BY <3>2 DEF WriteFails
      <4>2. PICK taken \in {0 .. 15, 8 .. 15} :
              regs' = [regs EXCEPT ![Here(call).reg] =
                         (@ \ taken) \union (Merged(call) \intersect taken)]
        BY <3>2 DEF WriteFails
      <4>3. QED
        BY <2>1, <2>3, <4>1, <4>2, WriteKeeps DEF IInv, TypeOK
    <3>3. QED
      BY <1>4, <3>1, <3>2
  <2>4. Store!Change
    BY <2>1, <2>3, StoreChange DEF IInv
  <2>5. QED
    BY <2>1, <2>2, <2>4 DEF Store!Next, Store!Fail, pending
<1>5. CASE Return
  <2>1. /\ call # None /\ call.next = "return" /\ call' = None /\ result' = 0
        /\ UNCHANGED <<focus, regs>>
    BY <1>5 DEF Return
  <2>2. pending # None /\ pending' = None
    BY <2>1, PendingIsNone DEF IInv, pending
  <2>3. pending.opt = call.opt /\ pending.val = call.val /\ call.opt \in focus
    BY <2>1, PendingIsNone DEF IInv, TypeOK
  <2>4. call.opt \in Volatile \/ store[call.opt] = call.val
    <3>1. SUFFICES ASSUME call.opt \notin Volatile
                   PROVE  Got(call.opt) = call.val
      BY <2>3 DEF store
    <3>2. \A i \in DOMAIN call.opt.set : Holds(call.opt, i, call.val)
      BY <2>1, <3>1 DEF IInv, Done
    <3>3. call.opt \in Option /\ call.val \subseteq Bits(call.opt)
      BY <2>1 DEF IInv, TypeOK
    <3>4. QED
      BY <3>2, <3>3, GotValue
  <2>5. store' = store
    BY <2>1 DEF store, Got
  <2>6. QED
    BY <2>1, <2>2, <2>3, <2>4, <2>5 DEF Store!Next, Store!Succeed, pending, store
<1>6. CASE \E o \in Volatile \intersect focus : ChipClears(o)
  <2>1. PICK v \in Volatile \intersect focus : ChipClears(v)
    BY <1>6
  <2>2. UNCHANGED <<focus, call, result>>
    BY <2>1 DEF ChipClears
  <2>3. ASSUME NEW o \in focus \ Volatile, NEW i \in DOMAIN o.set
        PROVE  Same(o, i)
    BY <2>1, ClearKeeps DEF IInv, TypeOK
  <2>4. Store!Change
    BY <2>2, <2>3, StoreChange DEF IInv
  <2>5. QED
    BY <2>2, <2>4 DEF Store!Next, Store!Work, pending
<1>7. CASE UNCHANGED vars
  BY <1>7 DEF vars, store, pending, Got
<1>8. QED
  BY <1>1, <1>2, <1>3, <1>4, <1>5, <1>6, <1>7 DEF Next

(* The driver implements the store of independent options: whatever
   transfers fail, and whichever options share registers, a setter that
   returns 0 has set its option, and none changes what another getter
   returns.  It holds for every table that fits together. *)
THEOREM StoreImplemented ==
  ASSUME Fits(Option)
  PROVE  Spec => Implements
<1>1. Init /\ TypeOK => Store!Init
  BY InitImplements DEF store, pending
<1>2. IInv /\ IInv' /\ [Next]_vars
        => [Store!Next]_<<store, pending, result>>
  BY NextImplements
<1>3. IInv => TypeOK
  BY DEF IInv
<1>4. QED
  BY <1>1, <1>2, <1>3, Invariance, PTL
     DEF Spec, Implements, Store!Spec, store, pending

=============================================================================
