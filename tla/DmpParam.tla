----------------------------- MODULE DmpParam ------------------------------
(***************************************************************************)
(* The parameters of the DMP.  Each lives in one or more cells of the      *)
(* DMP's memory, big-endian, and has a setter that converts its argument   *)
(* and a getter that converts back, both by hand.  a_mpu6050_write_mem     *)
(* selects bank and address in one transfer and sends the bytes in another *)
(* and refuses bytes that would leave the bank.                            *)
(*                                                                         *)
(* driver_mpu6050.cpp and driver_mpu9250.cpp each have their own copy of   *)
(* these functions; Mpu6050Dmp and Mpu9250Dmp list what they say, in the   *)
(* terms of DmpCells.                                                      *)
(* Conversions that use float are exact here: for the values they take,    *)
(* rounding never carries a product across an integer.                     *)
(***************************************************************************)
EXTENDS DmpCells, Integers, Sequences

CONSTANTS
  Param,   \* the table
  Try,     \* bound: the arguments that are tried, for each parameter
  Ranges,  \* bound: the accelerometer's ranges, 0 for 2g to 3 for 16g
  None     \* no call is running

CellsOf(p) == {p.cells[i] : i \in DOMAIN p.cells}

Addresses(c) == c.addr .. c.addr + c.len - 1

PAddresses(p) == UNION {Addresses(c) : c \in CellsOf(p)}

(* What write_mem accepts: tmp[1] + len <= 256. *)
InBank(c) == (c.addr % 256) + c.len <= 256

(* Two bits of one byte for each axis, the rest of which others use. *)
AxisBit(p) == IF p.idx = 0 THEN 1 ELSE IF p.idx = 1 THEN 4 ELSE 16

(* The finer ranges' factor of a threshold. *)
Finer(r) ==
  CASE r = 0 -> 8 [] r = 1 -> 4 [] r = 2 -> 2 [] OTHER -> 1

CallType == [par : Param, val : Nat, at : Nat, prev : Nat]

ASSUME ParamAssumption ==
  /\ \A p \in Param : p.cells # <<>> /\ Try[p] \subseteq Nat
  /\ Ranges \subseteq 0 .. 3 /\ Ranges # {}
  /\ None \notin CallType \union [opt : Param, val : Nat]

VARIABLES
  focus,   \* bound: the parameters that are set; the same in all states
  range,   \* ACCEL_CONFIG's range; the same in all states
  mem,     \* the bytes of the cells of focus
  call,    \* None, or the setter that is running: parameter, argument, the
           \* byte read before (tap axes), the cell it is at
  result   \* what the last call returned

vars == <<focus, range, mem, call, result>>

(* Parameters are set in pairs that have cells next to each other. *)
Neighbours(pair) ==
  \A p, q \in pair :
    \E a \in PAddresses(p), b \in PAddresses(q) : b - a \in -1 .. 1

Init ==
  /\ focus \in {{p, q} : p \in Param, q \in Param} /\ Neighbours(focus)
  /\ range \in Ranges
  /\ mem = [a \in UNION {PAddresses(p) : p \in focus} |-> 0]
  /\ call = None
  /\ result = 0

-----------------------------------------------------------------------------
(* A byte that keeps what is above it (a mutant). *)
ByteAtWide(c, n, a) ==
  LET k == c.addr + c.len - 1 - a IN IF k > 3 THEN 0 ELSE n \div 256 ^ k

(* Bytes, most significant first; a value of 1 << 8 * len or more does not
   fit and loses its upper part. *)
ByteAt(c, n, a) ==
  LET k == c.addr + c.len - 1 - a
  IN  CASE k = 0 -> n % 256
        [] k = 1 -> (n \div 256) % 256
        [] k = 2 -> (n \div 65536) % 256
        [] k = 3 -> (n \div 16777216) % 256
        [] OTHER -> 0

(* And back: of one byte, of two or of four. *)
Join(m, a, len) ==
  CASE len = 1 -> m[a]
    [] len = 2 -> 256 * m[a] + m[a + 1]
    [] OTHER -> 16777216 * m[a] + 65536 * m[a + 1] + 256 * m[a + 2] + m[a + 3]

Factor(p, c, r) == IF p.kind = "scaled" THEN c.mul * Finer(r) ELSE c.mul

(* Encode that stores the count itself (a mutant). *)
EncodeCount(p, c, v, r) ==
  CASE p.kind = "rate" -> IF c.mul = 0 THEN 0 ELSE (c.div \div v) - 1
    [] p.kind = "count" -> v
    [] OTHER -> (v * Factor(p, c, r)) \div c.div

(* The number a setter puts into a cell at range r. *)
Encode(p, c, v, r) ==
  CASE p.kind = "rate" -> IF c.mul = 0 THEN 0 ELSE (c.div \div v) - 1
    [] p.kind = "count" -> v - 1
    [] OTHER -> (v * Factor(p, c, r)) \div c.div

(* What the getter makes of what is in the first cell. *)
Decode(p, n, r) ==
  CASE p.kind = "rate" -> p.div \div (n + 1)
    [] p.kind = "count" -> n + 1
    [] p.kind = "axis" -> IF (n \div AxisBit(p)) % 4 = 3 THEN 1 ELSE 0
    [] p.kind = "scaled" -> (n * p.mul) \div (p.div * Finer(r))
    [] OTHER -> (n * p.mul) \div p.div

(* Sent for an axis where disabling clears the byte (a mutant). *)
SentWhole(p, i, v, prev) ==
  LET c == p.cells[i] IN
  [a \in Addresses(c) |->
     CASE p.kind = "axis" -> (IF v = 1 THEN 3 ELSE 0) * AxisBit(p)
       [] p.kind = "block" -> v
       [] OTHER -> ByteAt(c, Encode(p, c, v, range), a)]

(* The bytes a setter sends to its i-th cell. *)
Sent(p, i, v, prev) ==
  LET c == p.cells[i] IN
  [a \in Addresses(c) |->
     CASE p.kind = "axis" ->
            prev - ((prev \div AxisBit(p)) % 4) * AxisBit(p)
              + (IF v = 1 THEN 3 ELSE 0) * AxisBit(p)
       [] p.kind = "block" -> v
       [] OTHER -> ByteAt(c, Encode(p, c, v, range), a)]

First(p) == p.cells[1]

Got(p) ==
  IF p.kind = "block" THEN mem[First(p).addr]
  ELSE Decode(p, Join(mem, First(p).addr, First(p).len), range)

-----------------------------------------------------------------------------
(* The setter is called, with an argument it accepts; that of the tap axes
   reads its byte. *)
Call(p, v) ==
  /\ call = None
  /\ call' = [par |-> p, val |-> v, at |-> 1,
              prev |-> IF p.kind = "axis" THEN mem[First(p).addr] ELSE 0]
  /\ UNCHANGED <<focus, range, mem, result>>

Merge(new) == [a \in DOMAIN mem |-> IF a \in DOMAIN new THEN new[a] ELSE mem[a]]

Here == call.par.cells[call.at]

(* write_mem of a cell. *)
Write ==
  /\ call # None /\ call.at \in DOMAIN call.par.cells /\ InBank(Here)
  /\ mem' = Merge(Sent(call.par, call.at, call.val, call.prev))
  /\ call' = [call EXCEPT !.at = @ + 1]
  /\ UNCHANGED <<focus, range, result>>

(* It fails: at once, or when the chip has taken some of the bytes. *)
WriteFails ==
  /\ call # None /\ call.at \in DOMAIN call.par.cells
  /\ \E n \in 0 .. IF InBank(Here) THEN Here.len ELSE 0 :
       LET new == Sent(call.par, call.at, call.val, call.prev)
       IN  mem' = Merge([a \in Here.addr .. Here.addr + n - 1 |-> new[a]])
  /\ call' = None
  /\ result' = 1
  /\ UNCHANGED <<focus, range>>

Return ==
  /\ call # None /\ call.at > Len(call.par.cells)
  /\ call' = None
  /\ result' = 0
  /\ UNCHANGED <<focus, range, mem>>

Next ==
  \/ \E p \in focus : \E v \in Try[p] : Call(p, v)
  \/ Write \/ WriteFails \/ Return

Spec == Init /\ [][Next]_vars
-----------------------------------------------------------------------------
(* Bytes are bytes, and a call is at one of its cells or past the last. *)
TypeOK ==
  /\ focus \subseteq Param /\ range \in Ranges /\ result \in {0, 1}
  /\ \A a \in DOMAIN mem : mem[a] \in 0 .. 255
  /\ call # None =>
       /\ call.par \in focus /\ call.val \in Try[call.par]
       /\ call.at \in 1 .. Len(call.par.cells) + 1

Apart(some) ==
  \A p \in some, q \in Param : \A i \in DOMAIN p.cells, j \in DOMAIN q.cells :
    \/ p = q /\ i = j
    \/ p.kind = "axis" /\ q.kind = "axis" /\ p.idx # q.idx
    \/ Addresses(p.cells[i]) \intersect Addresses(q.cells[j]) = {}

(* The addresses, written by hand all over the driver, fit together: no two
   cells overlap, of one parameter or of two (the axes share their byte), and
   none crosses the end of its bank, which write_mem would refuse. *)
CellsApart ==
  /\ Apart(focus)
  /\ \A p \in focus : \A c \in CellsOf(p) : InBank(c)

Returning == call # None /\ call.at > Len(call.par.cells)

(* How far below its argument a parameter may read back: the rest of the
   division of its unit, or of its threshold's. *)
Slack(p) ==
  CASE p.kind = "scaled" -> 1
    [] p.kind = "linear" -> IF First(p).mul = 1 THEN p.mul - 1 ELSE 1
    [] OTHER -> 0

(* A setter that returns 0 has stored its argument: the getter returns it up
   to the parameter's unit.  (A fifo rate is rounded up to one the DMP has.) *)
ReadsBack ==
  Returning =>
    IF call.par.kind = "rate"
      THEN Got(call.par) >= call.val
             /\ Encode(call.par, First(call.par), Got(call.par), range)
                  = Encode(call.par, First(call.par), call.val, range)
      ELSE Got(call.par) \in call.val - Slack(call.par) .. call.val

(* The thresholds that set_tap_thresh accepts are stored in the 16 bits that
   the DMP has for them. *)
ThresholdFits ==
  Returning /\ call.par.kind = "scaled" => Got(call.par) >= call.val - 1

-----------------------------------------------------------------------------
(* What the theorems take for granted of a table, and TLC has looked up in the
   tables of both chips.  A parameter is made of cells, the first of which the
   getter can read; *)
CellType == [addr : Nat, len : Nat \ {0}, mul : Nat, div : Nat \ {0}]

Regular(p) ==
  /\ p.kind \in {"axis", "block", "count", "rate", "scaled", "linear"}
  /\ p.cells \in Seq(CellType) /\ p.mul \in Nat /\ p.div \in Nat \ {0}
  /\ p.kind # "block" => First(p).len \in {1, 2, 4}
  /\ p.kind = "axis" => p.idx \in 0 .. 2 /\ Len(p.cells) = 1 /\ First(p).len = 1

(* the factors of setter and getter are each other's inverse; *)
Invertible(p) ==
  LET c == First(p) IN
  CASE p.kind = "rate" -> c.mul # 0 /\ p.div = c.div
    [] p.kind = "scaled" ->
         p.mul = c.div /\ p.div = c.mul /\ c.mul \in Nat \ {0} /\ c.div <= c.mul
    [] p.kind = "linear" ->
         \/ c.mul = 1 /\ p.mul = c.div /\ p.div = 1
         \/ c.div = 1 /\ c.mul # 1 /\ c.mul * p.mul <= p.div
    [] OTHER -> TRUE

(* an argument fits into the bytes of the first cell, *)
Short(n, len) ==
  CASE len = 1 -> n < 256 [] len = 2 -> n < 65536
    [] OTHER -> n \div 65536 < 65536

Storable(p, v, r) ==
  CASE p.kind = "axis" -> v \in {0, 1}
    [] p.kind = "block" -> v \in 0 .. 255
    [] OTHER -> /\ p.kind = "rate" => v # 0
                /\ \A c \in CellsOf(p) : Encode(p, c, v, r) \in Nat
                /\ Short(Encode(p, First(p), v, r), First(p).len)

(* and, where the factors are not quite inverse, is small enough for the
   difference not to matter. *)
Exact(p, v) ==
  p.kind = "linear" /\ First(p).mul # 1 =>
    v * (p.div - First(p).mul * p.mul) <= p.div

Convertible(accepted) ==
  \A p \in Param :
    /\ Regular(p) /\ Invertible(p)
    /\ \A v \in accepted[p] : \A r \in Ranges : Storable(p, v, r) /\ Exact(p, v)

Sound(accepted) == Apart(Param) /\ Convertible(accepted)
-----------------------------------------------------------------------------
Store == INSTANCE OptionStore WITH
  store <- [p \in focus |-> Got(p)],
  pending <- IF call = None THEN None
             ELSE [opt |-> call.par,
                   val |-> IF call.par.kind \in {"axis", "block"}
                             THEN call.val
                             ELSE Decode(call.par,
                                    Encode(call.par, First(call.par),
                                           call.val, range), range)],
  Value <- Nat,
  Volatile <- {}

(* The parameters behave as a store of independent values, rounded as the
   conversions do: a setter that returns 0 has set its own parameter, and none
   changes what the getter of another returns, whatever transfers fail. *)
Implements == Store!Spec
=============================================================================
