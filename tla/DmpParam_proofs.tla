-------------------------- MODULE DmpParam_proofs ---------------------------
(***************************************************************************)
(* A table whose cells lie apart and whose conversions are each other's    *)
(* inverse gives a store of independent parameters: for any number of      *)
(* parameters and cells, any addresses, factors and arguments, and         *)
(* whatever transfers fail, of a cell as a whole or in the middle.         *)
(*                                                                         *)
(* The invariant says of a running call that the cells it is past hold     *)
(* what it sends, and that the byte which the tap axes share is still what *)
(* the call has read of it.                                                *)
(***************************************************************************)
EXTENDS DmpParam, TLAPS

Now(p) == First(p).addr

Memory == UNION {PAddresses(p) : p \in focus}

Types ==
  /\ focus \subseteq Param /\ range \in Ranges /\ result \in {0, 1}
  /\ mem \in [Memory -> 0 .. 255]
  /\ call # None =>
       /\ call \in CallType /\ call.par \in focus /\ call.val \in Try[call.par]
       /\ call.at \in 1 .. Len(call.par.cells) + 1
       /\ call.prev \in 0 .. 255

(* What an axis has read before it writes. *)
Read ==
  call # None /\ call.par.kind = "axis" /\ call.at = 1 =>
    call.prev = mem[First(call.par).addr]

(* The first cell holds what was sent to it. *)
Done ==
  call # None /\ call.at > 1 =>
    \A a \in Addresses(First(call.par)) :
      mem[a] = Sent(call.par, 1, call.val, call.prev)[a]

IInv == Types /\ Read /\ Done

-----------------------------------------------------------------------------
(* Bytes: a name of their own keeps the numeral out of the steps that do not
   count. *)
Octet == 0 .. 255

LEMMA Byte ==
  ASSUME NEW n \in Nat
  PROVE  /\ n % 256 \in 0 .. 255 /\ (n \div 256) % 256 \in 0 .. 255
         /\ (n \div 65536) % 256 \in 0 .. 255 /\ (n \div 16777216) % 256 \in 0 .. 255
OBVIOUS

LEMMA BytesOf ==
  ASSUME NEW c \in CellType, NEW n \in Nat, NEW a \in Int
  PROVE  ByteAt(c, n, a) \in Octet
<1>1. ByteAt(c, n, a) \in {n % 256, (n \div 256) % 256, (n \div 65536) % 256,
                           (n \div 16777216) % 256, 0}
  BY DEF ByteAt, CellType
<1>2. /\ n % 256 \in 0 .. 255 /\ (n \div 256) % 256 \in 0 .. 255
      /\ (n \div 65536) % 256 \in 0 .. 255 /\ (n \div 16777216) % 256 \in 0 .. 255
  BY Byte
<1> QED
  BY <1>1, <1>2 DEF Octet

(* Two bits of a byte. *)
Mixed(n, b, x) == n - ((n \div b) % 4) * b + x * b

LEMMA MixedByte ==
  ASSUME NEW b \in {1, 4, 16}, NEW n \in Octet, NEW x \in {0, 3}
  PROVE  Mixed(n, b, x) \in Octet
<1>1. b = 1 \/ b = 4 \/ b = 16
  OBVIOUS
<1> QED
  BY <1>1 DEF Mixed, Octet

LEMMA MixedSelf ==
  ASSUME NEW b \in {1, 4, 16}, NEW n \in Octet, NEW x \in {0, 3}
  PROVE  (Mixed(n, b, x) \div b) % 4 = x
<1>1. b = 1 \/ b = 4 \/ b = 16
  OBVIOUS
<1> QED
  BY <1>1 DEF Mixed, Octet

LEMMA MixedOther ==
  ASSUME NEW b \in {1, 4, 16}, NEW n \in Octet, NEW x \in {0, 3},
         NEW d \in {1, 4, 16}, d # b
  PROVE  (Mixed(n, b, x) \div d) % 4 = (n \div d) % 4
<1>1. CASE b = 1
  BY <1>1 DEF Mixed, Octet
<1>2. CASE b = 4
  BY <1>2 DEF Mixed, Octet
<1>3. CASE b = 16
  BY <1>3 DEF Mixed, Octet
<1> QED
  BY <1>1, <1>2, <1>3

(* A number that fits is read back from its bytes. *)
LEMMA Word4 ==
  ASSUME NEW n \in Nat, n \div 65536 < 65536
  PROVE  16777216 * ((n \div 16777216) % 256) + 65536 * ((n \div 65536) % 256)
           + 256 * ((n \div 256) % 256) + (n % 256) = n
OBVIOUS

LEMMA Word2 ==
  ASSUME NEW n \in Nat, n < 65536
  PROVE  256 * ((n \div 256) % 256) + (n % 256) = n
OBVIOUS

LEMMA Word1 == ASSUME NEW n \in Nat, n < 256 PROVE n % 256 = n
OBVIOUS

(* What was put into a cell of one, two or four bytes. *)
LEMMA Joins ==
  ASSUME NEW c \in CellType, c.len \in {1, 2, 4}, NEW n \in Nat, Short(n, c.len),
         NEW m, \A a \in Addresses(c) : m[a] = ByteAt(c, n, a)
  PROVE  Join(m, c.addr, c.len) = n
<1> DEFINE a == c.addr
<1>1. a \in Nat
  BY DEF CellType
<1>2. CASE c.len = 1
  <2>1. m[a] = n % 256
    BY <1>1, <1>2 DEF Addresses, ByteAt
  <2> QED
    BY <1>2, <2>1, Word1 DEF Join, Short
<1>3. CASE c.len = 2
  <2>1. m[a] = (n \div 256) % 256 /\ m[a + 1] = n % 256
    BY <1>1, <1>3 DEF Addresses, ByteAt
  <2> QED
    BY <1>3, <2>1, Word2 DEF Join, Short
<1>4. CASE c.len = 4
  <2>1. /\ m[a] = (n \div 16777216) % 256 /\ m[a + 1] = (n \div 65536) % 256
        /\ m[a + 2] = (n \div 256) % 256 /\ m[a + 3] = n % 256
    BY <1>1, <1>4 DEF Addresses, ByteAt
  <2> QED
    BY <1>4, <2>1, Word4 DEF Join, Short
<1> QED
  BY <1>2, <1>3, <1>4

-----------------------------------------------------------------------------
(* The table. *)
LEMMA Table ==
  ASSUME Sound(Try), NEW p \in Param
  PROVE  /\ Regular(p) /\ Invertible(p)
         /\ Len(p.cells) \in Nat \ {0} /\ DOMAIN p.cells = 1 .. Len(p.cells)
         /\ \A i \in DOMAIN p.cells : p.cells[i] \in CellType /\ p.cells[i] \in CellsOf(p)
         /\ 1 \in DOMAIN p.cells /\ First(p) \in CellType /\ First(p) \in CellsOf(p)
         /\ Now(p) \in Addresses(First(p))
         /\ Addresses(First(p)) \subseteq PAddresses(p)
         /\ PAddresses(p) \subseteq Nat
<1>1. Regular(p) /\ Invertible(p) /\ p.cells # <<>>
  BY ParamAssumption DEF Sound, Convertible
<1>2. p.cells \in Seq(CellType)
  BY <1>1 DEF Regular
<1>3. Len(p.cells) \in Nat \ {0} /\ DOMAIN p.cells = 1 .. Len(p.cells)
  BY <1>1, <1>2
<1>4. \A i \in DOMAIN p.cells : p.cells[i] \in CellType /\ p.cells[i] \in CellsOf(p)
  BY <1>2, <1>3 DEF CellsOf
<1>5. 1 \in DOMAIN p.cells /\ First(p) \in CellType /\ First(p) \in CellsOf(p)
  BY <1>3, <1>4 DEF First
<1>6. Now(p) \in Addresses(First(p))
  BY <1>5 DEF Now, Addresses, CellType
<1>7. Addresses(First(p)) \subseteq PAddresses(p)
  BY <1>5 DEF PAddresses
<1>8. \A c \in CellType : Addresses(c) \subseteq Nat
  BY DEF CellType, Addresses
<1>9. CellsOf(p) \subseteq CellType
  BY <1>4 DEF CellsOf
<1>10. PAddresses(p) \subseteq Nat
  BY <1>8, <1>9 DEF PAddresses
<1> QED
  BY <1>1, <1>3, <1>4, <1>5, <1>6, <1>7, <1>10

(* A setter sends bytes. *)
LEMMA SendsBytes ==
  ASSUME Sound(Try), NEW p \in Param, NEW v \in Try[p], range \in Ranges,
         NEW i \in DOMAIN p.cells, NEW prev \in Octet
  PROVE  /\ DOMAIN Sent(p, i, v, prev) = Addresses(p.cells[i])
         /\ \A a \in Addresses(p.cells[i]) : Sent(p, i, v, prev)[a] \in Octet
<1> DEFINE c == p.cells[i]
<1>1. c \in CellType /\ c \in CellsOf(p) /\ Regular(p)
  BY Table
<1>2. Storable(p, v, range)
  BY DEF Sound, Convertible
<1>3. DOMAIN Sent(p, i, v, prev) = Addresses(c)
  BY DEF Sent
<1> SUFFICES ASSUME NEW a \in Addresses(c) PROVE Sent(p, i, v, prev)[a] \in Octet
  BY <1>3
<1>4. a \in Int
  BY <1>1 DEF Addresses, CellType
<1>5. CASE p.kind = "axis"
  <2>1. AxisBit(p) \in {1, 4, 16}
    BY DEF AxisBit
  <2> DEFINE x == IF v = 1 THEN 3 ELSE 0
             m == Sent(p, i, v, prev)[a]
             b == AxisBit(p)
  <2>2. m = Mixed(prev, b, x)
    BY <1>5 DEF Sent, Mixed
  <2>3. x = 0 \/ x = 3
    BY Zenon
  <2>4. b \in {1, 4, 16} /\ x \in {0, 3}
    BY <2>1, <2>3
  <2> HIDE DEF c, x, m, b
  <2>5. Mixed(prev, b, x) \in Octet
    BY <2>4, MixedByte, Zenon
  <2>6. m \in Octet
    BY <2>2, <2>5, Zenon
  <2> QED
    BY <2>6 DEF m
<1>6. CASE p.kind = "block"
  BY <1>2, <1>6 DEF Sent, Storable, Octet
<1>7. CASE p.kind \notin {"axis", "block"}
  <2>1. Sent(p, i, v, prev)[a] = ByteAt(c, Encode(p, c, v, range), a)
    BY <1>7 DEF Sent
  <2>2. Encode(p, c, v, range) \in Nat
    BY <1>1, <1>2, <1>7 DEF Storable
  <2> DEFINE e == Encode(p, c, v, range)
  <2>3. e \in Nat /\ c \in CellType /\ Sent(p, i, v, prev)[a] = ByteAt(c, e, a)
    BY <1>1, <2>1, <2>2
  <2> HIDE DEF c, e
  <2>4. ByteAt(c, e, a) \in Octet
    BY <1>4, <2>3, BytesOf
  <2> QED
    BY <2>3, <2>4, Zenon
<1> QED
  BY <1>5, <1>6, <1>7

-----------------------------------------------------------------------------
(* What the getters return. *)
LEMMA JoinIs ==
  ASSUME NEW m, NEW a
  PROVE  /\ Join(m, a, 1) = m[a]
         /\ Join(m, a, 2) = 256 * m[a] + m[a + 1]
         /\ Join(m, a, 4) = 16777216 * m[a] + 65536 * m[a + 1] + 256 * m[a + 2] + m[a + 3]
BY SMT DEF Join

LEMMA Reach ==
  ASSUME Sound(Try), NEW p \in Param, p.kind # "block"
  PROVE  LET a == First(p).addr
         IN  /\ a \in Addresses(First(p))
             /\ First(p).len = 2 => a + 1 \in Addresses(First(p))
             /\ First(p).len = 4 => {a + 1, a + 2, a + 3} \subseteq Addresses(First(p))
             /\ First(p).len \in {1, 2, 4}
<1>1. First(p) \in CellType /\ First(p).len \in {1, 2, 4}
  BY Table DEF Regular
<1> QED
  BY <1>1 DEF Addresses, CellType

LEMMA SameGot ==
  ASSUME Sound(Try), NEW p \in Param, range' = range,
         \A a \in Addresses(First(p)) : mem'[a] = mem[a]
  PROVE  Got(p)' = Got(p)
<1>1. CASE p.kind = "block"
  BY <1>1, Table DEF Got, Now
<1>2. CASE p.kind # "block"
  <2>1. Join(mem', First(p).addr, First(p).len) = Join(mem, First(p).addr, First(p).len)
    BY <1>2, Reach DEF Join
  <2> QED
    BY <1>2, <2>1, Zenon DEF Got
<1> QED
  BY <1>1, <1>2

LEMMA DecodesNat ==
  ASSUME Sound(Try), NEW p \in Param, NEW n \in Nat, range \in Ranges
  PROVE  Decode(p, n, range) \in Nat
<1>1. p.mul \in Nat /\ p.div \in Nat \ {0} /\ n * p.mul \in Nat
  BY Table DEF Regular
<1>2. Finer(range) \in {1, 2, 4, 8}
  BY DEF Finer
<1>3. p.div * Finer(range) \in Nat \ {0}
  BY <1>1, <1>2
<1>4. \A x \in Nat : \A y \in Nat \ {0} : x \div y \in Nat
  OBVIOUS
<1>5. p.kind = "rate" => Decode(p, n, range) = p.div \div (n + 1)
  BY Zenon DEF Decode
<1>6. p.kind = "count" => Decode(p, n, range) = n + 1
  BY DEF Decode
<1>7. p.kind = "axis" => Decode(p, n, range) \in {0, 1}
  BY DEF Decode
<1>8. p.kind = "scaled" =>
        Decode(p, n, range) = (n * p.mul) \div (p.div * Finer(range))
  BY DEF Decode
<1>9. p.kind \notin {"rate", "count", "axis", "scaled"} =>
        Decode(p, n, range) = (n * p.mul) \div p.div
  BY DEF Decode
<1>10. p.kind = "rate" => Decode(p, n, range) \in Nat
  BY <1>1, <1>5
<1>11. p.kind = "scaled" => Decode(p, n, range) \in Nat
  BY <1>1, <1>3, <1>4, <1>8
<1>12. p.kind \notin {"rate", "count", "axis", "scaled"} => Decode(p, n, range) \in Nat
  BY <1>1, <1>4, <1>9
<1> QED
  BY <1>6, <1>7, <1>10, <1>11, <1>12

LEMMA GotNat ==
  ASSUME Sound(Try), Types, NEW p \in focus
  PROVE  Got(p) \in Nat
<1>1. p \in Param /\ range \in Ranges
  BY DEF Types
<1>2. \A a \in Addresses(First(p)) : mem[a] \in 0 .. 255
  <2>1. Addresses(First(p)) \subseteq Memory
    BY <1>1, Table DEF Memory
  <2> QED
    BY <2>1 DEF Types
<1>3. CASE p.kind = "block"
  <2>1. Got(p) = mem[Now(p)]
    BY <1>3 DEF Got, Now
  <2>2. Now(p) \in Addresses(First(p))
    BY <1>1, Table
  <2> QED
    BY <1>2, <2>1, <2>2
<1>4. CASE p.kind # "block"
  <2> DEFINE a == First(p).addr
             c == First(p)
             n == Join(mem, a, c.len)
  <2>1. ASSUME c.len = 1 PROVE n \in Nat
    <3>1. mem[a] \in 0 .. 255
      BY <1>1, <1>2, <1>4, Reach
    <3>2. n = mem[a]
      BY <2>1, JoinIs
    <3> QED
      BY <3>1, <3>2
  <2> DEFINE w == mem[a]
             x == mem[a + 1]
             y == mem[a + 2]
             z == mem[a + 3]
  <2>2. ASSUME c.len = 2 PROVE n \in Nat
    <3>1. w \in 0 .. 255 /\ x \in 0 .. 255
      BY <1>1, <1>2, <1>4, <2>2, Reach
    <3>2. n = 256 * w + x
      BY <2>2, JoinIs
    <3> HIDE DEF n, w, x
    <3> QED
      BY <3>1, <3>2
  <2>3. ASSUME c.len = 4 PROVE n \in Nat
    <3>1. w \in 0 .. 255 /\ x \in 0 .. 255 /\ y \in 0 .. 255 /\ z \in 0 .. 255
      BY <1>1, <1>2, <1>4, <2>3, Reach
    <3>2. n = 16777216 * w + 65536 * x + 256 * y + z
      BY <2>3, JoinIs
    <3> HIDE DEF n, w, x, y, z
    <3> QED
      BY <3>1, <3>2, SMT
  <2>4. c.len \in {1, 2, 4}
    BY <1>1, <1>4, Reach
  <2>5. n \in Nat
    BY <2>1, <2>2, <2>3, <2>4
  <2>6. Got(p) = Decode(p, n, range)
    BY <1>4, Zenon DEF Got
  <2> HIDE DEF n
  <2> QED
    BY <1>1, <2>5, <2>6, DecodesNat
<1> QED
  BY <1>3, <1>4

(* What is stored of an argument. *)
Kept(p, v) ==
  IF p.kind \in {"axis", "block"} THEN v
  ELSE Decode(p, Encode(p, First(p), v, range), range)

LEMMA AxisBits ==
  /\ \A p : AxisBit(p) \in {1, 4, 16}
  /\ \A p, q : p.idx \in 0 .. 2 /\ q.idx \in 0 .. 2 /\ p.idx # q.idx =>
       AxisBit(p) # AxisBit(q)
BY DEF AxisBit

LEMMA GotKept ==
  ASSUME Sound(Try), Types, Done, call # None, call.at > 1
  PROVE  Got(call.par) = Kept(call.par, call.val)
<1> DEFINE p == call.par
           v == call.val
           c == First(p)
<1>1. p \in Param /\ v \in Try[p] /\ range \in Ranges /\ call.prev \in 0 .. 255
  BY DEF Types
<1>2. Storable(p, v, range) /\ Regular(p) /\ c \in CellType /\ c \in CellsOf(p)
  BY <1>1, Table DEF Sound, Convertible
<1>3. \A a \in Addresses(c) : mem[a] = Sent(p, 1, v, call.prev)[a]
  BY DEF Done
<1>4. c = p.cells[1]
  BY DEF First
<1>5. CASE p.kind = "axis"
  <2> DEFINE a == c.addr
             x == IF v = 1 THEN 3 ELSE 0
             b == AxisBit(p)
             m == mem[a]
  <2>1. a \in Addresses(c) /\ c.len = 1
    BY <1>1, <1>2, <1>5, Reach DEF Regular
  <2>2. m = Mixed(call.prev, b, x)
    BY <1>3, <1>4, <1>5, <2>1 DEF Sent, Mixed
  <2>3. x \in {0, 3} /\ b \in {1, 4, 16}
    BY AxisBits
  <2>4. v \in {0, 1}
    BY <1>2, <1>5 DEF Storable
  <2>5. Got(p) = IF (m \div b) % 4 = 3 THEN 1 ELSE 0
    <3>1. Join(mem, a, c.len) = m
      BY <2>1 DEF Join
    <3>2. \A n : Decode(p, n, range) = IF (n \div b) % 4 = 3 THEN 1 ELSE 0
      BY <1>5 DEF Decode
    <3>3. Got(p) = Decode(p, Join(mem, a, c.len), range)
      BY <1>5 DEF Got
    <3> HIDE DEF m, b
    <3> QED
      BY <3>1, <3>2, <3>3
  <2> HIDE DEF m, b
  <2>6. (m \div b) % 4 = x
    <3> HIDE DEF x
    <3>1. (Mixed(call.prev, b, x) \div b) % 4 = x
      <4>1. call.prev \in Octet
        BY <1>1 DEF Octet
      <4> HIDE DEF c
      <4> QED
        BY <2>3, <4>1, MixedSelf, Zenon
    <3> QED
      BY <2>2, <3>1
  <2>7. Got(p) = v
    BY <2>4, <2>5, <2>6
  <2> QED
    BY <1>5, <2>7 DEF Kept
<1>6. CASE p.kind = "block"
  <2>1. c.addr \in Addresses(c)
    BY <1>1, Table DEF Now
  <2>2. mem[c.addr] = v
    BY <1>3, <1>4, <1>6, <2>1 DEF Sent
  <2> QED
    BY <1>6, <2>2 DEF Got, Kept
<1>7. CASE p.kind \notin {"axis", "block"}
  <2>1. Encode(p, c, v, range) \in Nat /\ Short(Encode(p, c, v, range), c.len)
    BY <1>2, <1>7 DEF Storable
  <2>2. \A a \in Addresses(c) : mem[a] = ByteAt(c, Encode(p, c, v, range), a)
    BY <1>3, <1>4, <1>7 DEF Sent
  <2>3. c.len \in {1, 2, 4}
    BY <1>2, <1>7 DEF Regular
  <2>4. Join(mem, c.addr, c.len) = Encode(p, c, v, range)
    BY <1>2, <2>1, <2>2, <2>3, Joins
  <2> QED
    BY <1>7, <2>4, Zenon DEF Got, Kept
<1> QED
  BY <1>5, <1>6, <1>7

-----------------------------------------------------------------------------
(* A write, of the bytes A of the cell that the call is at. *)
Wrote(A) ==
  mem' = Merge([a \in A |-> Sent(call.par, call.at, call.val, call.prev)[a]])

LEMMA WroteBytes ==
  ASSUME Sound(Try), Types, call # None, call.at \in DOMAIN call.par.cells,
         NEW A \in SUBSET Addresses(Here), Wrote(A)
  PROVE  /\ mem' \in [DOMAIN mem -> 0 .. 255]
         /\ \A a \in DOMAIN mem :
              mem'[a] = IF a \in A THEN Sent(call.par, call.at, call.val, call.prev)[a]
                        ELSE mem[a]
<1>1. \A a \in DOMAIN mem :
        mem'[a] = IF a \in A THEN Sent(call.par, call.at, call.val, call.prev)[a]
                  ELSE mem[a]
  BY DEF Wrote, Merge
<1>2. /\ call.par \in Param /\ call.val \in Try[call.par] /\ range \in Ranges
      /\ call.prev \in Octet
  BY DEF Types, Octet
<1>3. \A a \in A : Sent(call.par, call.at, call.val, call.prev)[a] \in Octet
  <2>1. A \subseteq Addresses(call.par.cells[call.at])
    BY DEF Here
  <2>2. \A a \in Addresses(call.par.cells[call.at]) :
          Sent(call.par, call.at, call.val, call.prev)[a] \in Octet
    BY <1>2, SendsBytes, Zenon
  <2> QED
    BY <2>1, <2>2, Zenon
<1>4. \A a \in DOMAIN mem : mem[a] \in Octet
  BY DEF Types, Octet
<1>5. DOMAIN mem' = DOMAIN mem
  BY DEF Wrote, Merge
<1>6. \A a \in DOMAIN mem : mem'[a] \in Octet
  BY <1>1, <1>3, <1>4
<1>7. mem' = [a \in DOMAIN mem |-> mem'[a]]
  BY <1>5 DEF Wrote, Merge
<1> QED
  BY <1>1, <1>6, <1>7 DEF Octet

(* No other parameter is touched: its cells are elsewhere, or its bits of the
   byte are. *)
LEMMA OthersStay ==
  ASSUME Sound(Try), Types, Read, call # None, call.at \in DOMAIN call.par.cells,
         NEW A \in SUBSET Addresses(Here), Wrote(A), range' = range,
         NEW q \in focus, q # call.par
  PROVE  Got(q)' = Got(q)
<1> DEFINE p == call.par
<1>1. /\ p \in Param /\ q \in Param /\ p \in focus /\ p # q
      /\ call.prev \in Octet
  BY DEF Types, Octet
<1>2. /\ First(q) = q.cells[1] /\ 1 \in DOMAIN q.cells
      /\ Addresses(First(q)) \subseteq DOMAIN mem
  BY <1>1, Table DEF First, Types, Memory
<1>3. CASE Addresses(Here) \intersect Addresses(First(q)) = {}
  <2>1. \A a \in Addresses(First(q)) : mem'[a] = mem[a]
    BY <1>2, <1>3, WroteBytes
  <2> QED
    BY <1>1, <2>1, SameGot
<1>4. CASE ~ (Addresses(Here) \intersect Addresses(First(q)) = {})
  <2>1. p.kind = "axis" /\ q.kind = "axis" /\ p.idx # q.idx
    <3>1. Apart(Param)
      BY DEF Sound
    <3>2. ~ (Addresses(p.cells[call.at]) \intersect Addresses(q.cells[1]) = {})
      BY <1>2, <1>4 DEF Here
    <3> QED
      BY <1>1, <1>2, <3>1, <3>2 DEF Apart
  <2>2. /\ Regular(p) /\ Regular(q) /\ DOMAIN p.cells = 1 .. Len(p.cells)
        /\ First(q) \in CellType /\ First(p) \in CellType
    BY <1>1, Table
  <2>3. call.at = 1 /\ Here = First(p) /\ First(p).len = 1 /\ First(q).len = 1
    <3>1. Len(p.cells) = 1 /\ First(p).len = 1 /\ First(q).len = 1
      BY <2>1, <2>2 DEF Regular
    <3>2. call.at = 1
      BY <2>2, <3>1
    <3> QED
      BY <3>1, <3>2 DEF Here, First
  <2>4. /\ Addresses(First(p)) = {First(p).addr}
        /\ Addresses(First(q)) = {First(q).addr}
    BY <2>2, <2>3 DEF Addresses, CellType
  <2> DEFINE a == First(q).addr
             b == AxisBit(p)
             d == AxisBit(q)
             x == IF call.val = 1 THEN 3 ELSE 0
  <2>5. First(p).addr = a /\ a \in DOMAIN mem /\ A \subseteq {a}
    BY <1>2, <1>4, <2>3, <2>4
  <2>6. CASE a \notin A
    <3>1. \A e \in Addresses(First(q)) : mem'[e] = mem[e]
      BY <2>4, <2>5, <2>6, WroteBytes
    <3> QED
      BY <1>1, <3>1, SameGot
  <2>7. CASE a \in A
    <3>1. mem'[a] = Sent(p, call.at, call.val, call.prev)[a]
      BY <2>5, <2>7, WroteBytes
    <3>2. mem'[a] = Mixed(call.prev, b, x)
      BY <2>1, <2>3, <2>4, <2>5, <3>1 DEF Sent, First, Mixed
    <3>3. call.prev = mem[a]
      BY <2>1, <2>3, <2>5 DEF Read
    <3>4. b \in {1, 4, 16} /\ d \in {1, 4, 16} /\ d # b
      BY <2>1, <2>2, AxisBits DEF Regular
    <3>5. x \in {0, 3}
      OBVIOUS
    <3>6. /\ Got(q) = IF (mem[a] \div d) % 4 = 3 THEN 1 ELSE 0
          /\ Got(q)' = IF (mem'[a] \div d) % 4 = 3 THEN 1 ELSE 0
      BY <2>1, <2>3 DEF Got, Decode, Join
    <3> HIDE DEF a, b, d, x
    <3>7. (Mixed(call.prev, b, x) \div d) % 4 = (call.prev \div d) % 4
      BY <1>1, <3>4, <3>5, MixedOther
    <3> QED
      BY <3>2, <3>3, <3>6, <3>7
  <2> QED
    BY <2>6, <2>7
<1> QED
  BY <1>3, <1>4

(* A whole write, and a part of one. *)
LEMMA WriteWrites ==
  ASSUME Sound(Try), Types, Write
  PROVE  Wrote(Addresses(Here))
<1> DEFINE s == Sent(call.par, call.at, call.val, call.prev)
<1>1. DOMAIN s = Addresses(Here)
  BY DEF Sent, Here
<1>2. s = [a \in Addresses(Here) |-> s[a]]
  BY DEF Sent, Here
<1> QED
  BY <1>1, <1>2 DEF Write, Wrote

LEMMA FailureWrites ==
  ASSUME Sound(Try), Types, WriteFails
  PROVE  \E A \in SUBSET Addresses(Here) : Wrote(A)
<1>1. /\ call # None /\ call.at \in DOMAIN call.par.cells
      /\ call.par \in Param
  BY DEF WriteFails, Types
<1>2. Here \in CellType
  BY <1>1, Table DEF Here
<1>3. PICK n \in 0 .. IF InBank(Here) THEN Here.len ELSE 0 :
        LET new == Sent(call.par, call.at, call.val, call.prev)
        IN  mem' = Merge([a \in Here.addr .. Here.addr + n - 1 |-> new[a]])
  BY DEF WriteFails
<1>4. n <= Here.len /\ n \in Nat
  BY <1>2 DEF CellType
<1>5. Here.addr .. Here.addr + n - 1 \subseteq Addresses(Here)
  BY <1>2, <1>4 DEF Addresses, CellType
<1> QED
  BY <1>3, <1>5 DEF Wrote

-----------------------------------------------------------------------------
(* A call is not None. *)
LEMMA CallsAreNot == \A c \in CallType : c # None
BY ParamAssumption

LEMMA SameMemory == focus' = focus => Memory' = Memory
BY DEF Memory

LEMMA InitTypes == ASSUME Init PROVE IInv
<1>1. call = None /\ range \in Ranges /\ result = 0
  BY DEF Init
<1>2. focus \subseteq Param
  BY DEF Init
<1>3. mem = [a \in Memory |-> 0]
  BY DEF Init, Memory
<1>4. mem \in [Memory -> 0 .. 255]
  BY <1>3
<1> QED
  BY <1>1, <1>2, <1>4 DEF IInv, Types, Read, Done

(* The cells of the running call are in the memory. *)
LEMMA HereInMemory ==
  ASSUME Sound(Try), Types, call # None, NEW i \in DOMAIN call.par.cells
  PROVE  Addresses(call.par.cells[i]) \subseteq DOMAIN mem
<1>1. call.par \in focus /\ call.par \in Param
  BY DEF Types
<1>2. call.par.cells[i] \in CellsOf(call.par)
  BY <1>1, Table
<1> QED
  BY <1>1, <1>2 DEF Types, PAddresses, Memory

LEMMA CallKeeps ==
  ASSUME Sound(Try), IInv, NEW p \in focus, NEW v \in Try[p], Call(p, v)
  PROVE  IInv' /\ call' \in CallType
<1>1. p \in Param /\ v \in Nat /\ v \in Try[p]
  BY ParamAssumption DEF IInv, Types
<1>2. /\ call' = [par |-> p, val |-> v, at |-> 1,
                  prev |-> IF p.kind = "axis" THEN mem[First(p).addr] ELSE 0]
      /\ UNCHANGED <<focus, range, mem, result>>
  BY DEF Call
<1>3. Addresses(First(p)) \subseteq DOMAIN mem /\ First(p).addr \in Addresses(First(p))
  BY <1>1, Table DEF IInv, Types, Now, Memory
<1>4. mem[First(p).addr] \in 0 .. 255
  BY <1>3 DEF IInv, Types
<1>5. call'.prev \in 0 .. 255
  BY <1>2, <1>4
<1>6. call' \in CallType
  BY <1>1, <1>2, <1>4 DEF CallType
<1>7. Types'
  <2>1. Len(p.cells) \in Nat
    BY <1>1, Table
  <2>2. call'.at \in 1 .. Len(call'.par.cells) + 1
    BY <1>2, <2>1
  <2> QED
    BY <1>1, <1>2, <1>5, <1>6, <2>2, SameMemory DEF IInv, Types
<1>8. Read'
  BY <1>2 DEF Read
<1>9. Done'
  BY <1>2 DEF Done
<1> QED
  BY <1>6, <1>7, <1>8, <1>9 DEF IInv

(* A write leaves the first cell alone, unless it is at the first cell. *)
LEMMA WriteKeeps ==
  ASSUME Sound(Try), IInv, Write
  PROVE  IInv' /\ call' \in CallType
<1> DEFINE p == call.par
           s == Sent(p, call.at, call.val, call.prev)
<1>1. /\ call # None /\ call.at \in DOMAIN p.cells
      /\ call' = [call EXCEPT !.at = @ + 1]
      /\ UNCHANGED <<focus, range, result>>
  BY DEF Write
<1>2. /\ call \in CallType /\ p \in focus /\ p \in Param /\ call.val \in Try[p]
      /\ call.prev \in 0 .. 255 /\ focus \subseteq Param /\ range \in Ranges
      /\ result \in {0, 1}
      /\ mem \in [Memory -> 0 .. 255]
  BY <1>1 DEF IInv, Types
<1>3. /\ call'.par = p /\ call'.val = call.val /\ call'.prev = call.prev
      /\ call'.at = call.at + 1 /\ call' \in CallType
  BY <1>1, <1>2 DEF CallType
<1>4. /\ Len(p.cells) \in Nat \ {0} /\ DOMAIN p.cells = 1 .. Len(p.cells)
      /\ First(p) = p.cells[1] /\ 1 \in DOMAIN p.cells
      /\ Here = p.cells[call.at]
  BY <1>2, Table DEF First, Here
<1>5. /\ mem' \in [DOMAIN mem -> 0 .. 255]
      /\ \A a \in DOMAIN mem : mem'[a] = IF a \in Addresses(Here) THEN s[a] ELSE mem[a]
  <2>1. Wrote(Addresses(Here)) /\ Types
    BY WriteWrites DEF IInv
  <2> QED
    BY <1>1, <2>1, WroteBytes
<1>6. call'.at \in 1 .. Len(p.cells) + 1 /\ call'.at > 1
  BY <1>1, <1>3, <1>4
<1>7. Types'
  BY <1>1, <1>2, <1>3, <1>5, <1>6, SameMemory DEF Types
<1>8. Read'
  BY <1>3, <1>6 DEF Read
<1>9. Addresses(First(p)) \subseteq DOMAIN mem
  BY <1>1, <1>4, HereInMemory DEF IInv
<1>10. ASSUME NEW a \in Addresses(First(p))
       PROVE  mem'[a] = Sent(p, 1, call.val, call.prev)[a]
  <2>1. CASE call.at = 1
    BY <1>4, <1>5, <1>9, <1>10, <2>1
  <2>2. CASE call.at # 1
    <3>1. DOMAIN p.cells # {1}
      BY <1>1, <2>2
    <3>2. Addresses(Here) \intersect Addresses(First(p)) = {}
      BY <1>1, <1>2, <1>4, <2>2 DEF Sound, Apart
    <3>3. call.at > 1
      BY <1>1, <1>4, <2>2
    <3>4. mem[a] = Sent(p, 1, call.val, call.prev)[a]
      BY <1>1, <1>10, <3>3 DEF IInv, Done
    <3> QED
      BY <1>5, <1>9, <1>10, <3>2, <3>4
  <2> QED
    BY <2>1, <2>2
<1>11. Sent(p, 1, call.val, call.prev)' = Sent(p, 1, call.val, call.prev)
  BY <1>1, <1>3 DEF Sent
<1>12. Done'
  BY <1>3, <1>10, <1>11 DEF Done
<1> QED
  BY <1>3, <1>7, <1>8, <1>12 DEF IInv

LEMMA EndKeeps ==
  ASSUME Sound(Try), IInv, WriteFails \/ Return
  PROVE  IInv'
<1>1. call' = None /\ UNCHANGED <<focus, range>> /\ result' \in {0, 1}
  BY DEF WriteFails, Return
<1>2. mem' \in [Memory -> 0 .. 255]
  <2>1. CASE Return
    BY <2>1 DEF Return, IInv, Types
  <2>2. CASE WriteFails
    <3>1. call # None /\ call.at \in DOMAIN call.par.cells
      BY <2>2 DEF WriteFails
    <3>2. PICK A \in SUBSET Addresses(Here) : Wrote(A)
      BY <2>2, FailureWrites DEF IInv
    <3>3. mem' \in [DOMAIN mem -> 0 .. 255]
      BY <3>1, <3>2, WroteBytes DEF IInv
    <3> QED
      BY <3>3 DEF IInv, Types
  <2> QED
    BY <2>1, <2>2
<1> QED
  BY <1>1, <1>2, SameMemory DEF IInv, Types, Read, Done

LEMMA StepKeeps ==
  ASSUME Sound(Try), IInv, [Next]_vars
  PROVE  IInv'
<1>1. CASE \E p \in focus : \E v \in Try[p] : Call(p, v)
  BY <1>1, CallKeeps
<1>2. CASE Write
  BY <1>2, WriteKeeps
<1>3. CASE WriteFails \/ Return
  BY <1>3, EndKeeps
<1>4. CASE UNCHANGED vars
  <2>1. focus' = focus /\ range' = range /\ mem' = mem /\ call' = call /\ result' = result
    BY <1>4 DEF vars
  <2>2. Types'
    BY <2>1, SameMemory DEF IInv, Types
  <2>3. Read'
    BY <2>1 DEF IInv, Read
  <2>4. Done'
    BY <2>1 DEF IInv, Done, Sent
  <2> QED
    BY <2>2, <2>3, <2>4 DEF IInv
<1> QED
  BY <1>1, <1>2, <1>3, <1>4 DEF Next

LEMMA Invariance ==
  ASSUME Sound(Try)
  PROVE  Spec => []IInv
<1>1. Init => IInv
  BY InitTypes
<1>2. IInv /\ [Next]_vars => IInv'
  BY StepKeeps
<1> QED
  BY <1>1, <1>2, PTL DEF Spec

(* Bytes are bytes, and a call is at one of its cells or past the last. *)
THEOREM TypeCorrect ==
  ASSUME Sound(Try)
  PROVE  Spec => []TypeOK
<1>1. IInv => TypeOK
  BY DEF IInv, Types, TypeOK
<1> QED
  BY <1>1, Invariance, PTL

-----------------------------------------------------------------------------
(* The store that the parameters implement, by name: what the getters return,
   and the call in terms of what it is to store. *)
store == [p \in focus |-> Got(p)]

pending ==
  IF call = None THEN None ELSE [opt |-> call.par, val |-> Kept(call.par, call.val)]

LEMMA PendingIs ==
  pending = IF call = None THEN None
            ELSE [opt |-> call.par,
                  val |-> IF call.par.kind \in {"axis", "block"} THEN call.val
                          ELSE Decode(call.par,
                                 Encode(call.par, First(call.par), call.val, range),
                                 range)]
BY DEF pending, Kept

LEMMA KeptIsNat ==
  ASSUME Sound(Try), NEW p \in Param, NEW v \in Try[p], range \in Ranges
  PROVE  Kept(p, v) \in Nat
<1>1. v \in Nat
  BY ParamAssumption
<1>2. CASE p.kind \in {"axis", "block"}
  BY <1>1, <1>2 DEF Kept
<1>3. CASE p.kind \notin {"axis", "block"}
  <2>1. Storable(p, v, range) /\ First(p) \in CellsOf(p)
    BY Table DEF Sound, Convertible
  <2>2. Encode(p, First(p), v, range) \in Nat
    BY <1>3, <2>1 DEF Storable
  <2> QED
    BY <1>3, <2>2, DecodesNat, Zenon DEF Kept
<1> QED
  BY <1>2, <1>3

LEMMA PendingIsNot ==
  ASSUME Sound(Try), Types, call # None
  PROVE  pending # None /\ pending.opt = call.par /\ pending.val = Kept(call.par, call.val)
<1>1. /\ call.par \in Param /\ call.val \in Try[call.par] /\ range \in Ranges
  BY DEF Types
<1>2. Kept(call.par, call.val) \in Nat
  BY <1>1, KeptIsNat
<1>3. pending = [opt |-> call.par, val |-> Kept(call.par, call.val)]
  BY DEF pending
<1>4. pending \in [opt : Param, val : Nat]
  BY <1>1, <1>2, <1>3
<1>5. pending # None
  BY <1>4, ParamAssumption
<1> QED
  BY <1>3, <1>5

(* And in the next state. *)
LEMMA NextGotNat ==
  ASSUME Sound(Try)
  PROVE  Types' => (\A p \in focus : Got(p) \in Nat)'
<1>1. Types => \A p \in focus : Got(p) \in Nat
  BY GotNat
<1> QED
  BY <1>1, PTL

(* Two states in which every parameter but the one in hand looks the same are
   a change of the store. *)
LEMMA StoreChange ==
  ASSUME Sound(Try), Types, Types', focus' = focus, call # None,
         \A p \in focus : p # call.par => Got(p)' = Got(p)
  PROVE  Store!Change
<1>1. store' = [p \in focus |-> Got(p)']
  BY DEF store
<1>2. DOMAIN store' = DOMAIN store /\ DOMAIN store = focus
  BY <1>1 DEF store
<1>3. ASSUME NEW p \in focus
      PROVE  store'[p] \in Nat /\ (p \in Store!InDoubt \/ store'[p] = store[p])
  <2>1. Got(p)' \in Nat
    BY <1>3, NextGotNat
  <2>2. store'[p] = Got(p)' /\ store[p] = Got(p)
    BY <1>1 DEF store
  <2>3. p = call.par => p \in Store!InDoubt
    BY PendingIsNot DEF Store!InDoubt, pending, Kept
  <2> QED
    BY <2>1, <2>2, <2>3
<1> QED
  BY <1>2, <1>3 DEF Store!Change, store

LEMMA InitImplements ==
  ASSUME Sound(Try), Init
  PROVE  Store!Init
<1>1. Types
  BY InitTypes DEF IInv
<1>2. \A p \in focus : store[p] \in Nat
  BY <1>1, GotNat DEF store
<1>3. DOMAIN store = focus
  BY DEF store
<1> QED
  BY <1>2, <1>3 DEF Store!Init, Init, store

LEMMA CallImplements ==
  ASSUME Sound(Try), IInv, NEW p \in focus, NEW v \in Try[p], Call(p, v)
  PROVE  Store!Call
<1>1. /\ call = None
      /\ call' = [par |-> p, val |-> v, at |-> 1,
                  prev |-> IF p.kind = "axis" THEN mem[First(p).addr] ELSE 0]
      /\ UNCHANGED <<focus, range, mem, result>>
  BY DEF Call
<1>2. p \in Param /\ range \in Ranges
  BY DEF IInv, Types
<1>3. call' # None /\ call'.par = p /\ call'.val = v
  BY <1>1, CallKeeps, CallsAreNot
<1>4. pending = None
  BY <1>1 DEF pending
<1>5. pending' = [opt |-> p, val |-> Kept(p, v)]
  BY <1>1, <1>3 DEF pending, Kept
<1>6. pending' \in [opt : focus, val : Nat]
  BY <1>2, <1>5, KeptIsNat
<1>7. store' = store /\ DOMAIN store = focus
  BY <1>1 DEF store, Got
<1> QED
  BY <1>1, <1>4, <1>6, <1>7 DEF Store!Call, store, pending, Kept

LEMMA WriteImplements ==
  ASSUME Sound(Try), IInv, IInv', Write
  PROVE  Store!Work
<1>1. /\ call # None /\ call.at \in DOMAIN call.par.cells
      /\ call' = [call EXCEPT !.at = @ + 1]
      /\ UNCHANGED <<focus, range, result>>
  BY DEF Write
<1>2. Types /\ Types' /\ Read
  BY DEF IInv
<1>3. call \in CallType
  BY <1>1, <1>2 DEF Types
<1>4. call' # None /\ call'.par = call.par /\ call'.val = call.val
  BY <1>1, <1>3, WriteKeeps, CallsAreNot DEF CallType
<1>5. pending' = pending
  BY <1>1, <1>4 DEF pending, Kept
<1>6. Wrote(Addresses(Here))
  BY <1>2, WriteWrites
<1>7. \A q \in focus : q # call.par => Got(q)' = Got(q)
  BY <1>1, <1>2, <1>6, OthersStay
<1>8. Store!Change
  BY <1>1, <1>2, <1>7, StoreChange
<1> QED
  BY <1>1, <1>5, <1>8 DEF Store!Work, pending, Kept

LEMMA FailureImplements ==
  ASSUME Sound(Try), IInv, IInv', WriteFails
  PROVE  Store!Fail
<1>1. /\ call # None /\ call.at \in DOMAIN call.par.cells
      /\ call' = None /\ result' = 1 /\ UNCHANGED <<focus, range>>
  BY DEF WriteFails
<1>2. Types /\ Types' /\ Read
  BY DEF IInv
<1>3. PICK A \in SUBSET Addresses(Here) : Wrote(A)
  BY <1>2, FailureWrites
<1>4. \A q \in focus : q # call.par => Got(q)' = Got(q)
  BY <1>1, <1>2, <1>3, OthersStay
<1>5. Store!Change
  BY <1>1, <1>2, <1>4, StoreChange
<1>6. pending # None /\ pending' = None
  BY <1>1, <1>2, PendingIsNot DEF pending
<1> QED
  BY <1>1, <1>5, <1>6 DEF Store!Fail, pending, Kept

LEMMA ReturnImplements ==
  ASSUME Sound(Try), IInv, Return
  PROVE  Store!Succeed
<1>1. /\ call # None /\ call.at > Len(call.par.cells)
      /\ call' = None /\ result' = 0 /\ UNCHANGED <<focus, range, mem>>
  BY DEF Return
<1>2. Types /\ Done
  BY DEF IInv
<1>3. call.par \in focus /\ call.par \in Param /\ call.at \in Nat
  BY <1>1, <1>2 DEF Types
<1>4. call.at > 1
  BY <1>1, <1>3, Table
<1>5. Got(call.par) = Kept(call.par, call.val)
  BY <1>1, <1>2, <1>4, GotKept
<1>6. /\ pending # None /\ pending.opt = call.par
      /\ pending.val = Kept(call.par, call.val)
  BY <1>1, <1>2, PendingIsNot
<1>7. store[pending.opt] = pending.val
  BY <1>3, <1>5, <1>6 DEF store
<1>8. pending' = None
  BY <1>1 DEF pending
<1>9. store' = store
  BY <1>1 DEF store, Got
<1> QED
  BY <1>1, <1>6, <1>7, <1>8, <1>9 DEF Store!Succeed, store, pending, Kept

LEMMA StepImplements ==
  ASSUME Sound(Try), IInv, IInv', [Next]_vars
  PROVE  Store!Next \/ UNCHANGED <<store, pending, result>>
<1>1. CASE \E p \in focus : \E v \in Try[p] : Call(p, v)
  BY <1>1, CallImplements DEF Store!Next
<1>2. CASE Write
  BY <1>2, WriteImplements DEF Store!Next
<1>3. CASE WriteFails
  BY <1>3, FailureImplements DEF Store!Next
<1>4. CASE Return
  BY <1>4, ReturnImplements DEF Store!Next
<1>5. CASE UNCHANGED vars
  BY <1>5 DEF vars, store, pending, Kept, Got
<1> QED
  BY <1>1, <1>2, <1>3, <1>4, <1>5 DEF Next

(* The parameters behave as a store of independent values, rounded as the
   conversions of set and get round them: a setter that returns 0 has set its own
   parameter, and none changes what the getter of another returns, whatever
   transfers fail.  It holds of every table that is sound. *)
THEOREM StoreImplemented ==
  ASSUME Sound(Try)
  PROVE  Spec => Implements
<1>1. Init => Store!Init
  BY InitImplements
<1>2. IInv /\ IInv' /\ [Next]_vars => [Store!Next]_<<store, pending, result>>
  BY StepImplements
<1> QED
  BY <1>1, <1>2, Invariance, PTL
     DEF Spec, Implements, Store!Spec, store, pending, Kept

-----------------------------------------------------------------------------
(* Division. *)
LEMMA MulMono ==
  ASSUME NEW a \in Int, NEW b \in Int, NEW k \in Nat, a <= b
  PROVE  a * k <= b * k
OBVIOUS

LEMMA DivBounds ==
  ASSUME NEW n \in Nat, NEW k \in Nat \ {0}
  PROVE  n \div k \in Nat /\ (n \div k) * k <= n /\ n < (n \div k) * k + k
OBVIOUS

LEMMA DivAtLeast ==
  ASSUME NEW n \in Nat, NEW k \in Nat \ {0}, NEW q \in Int, q * k <= n
  PROVE  q <= n \div k
<1> DEFINE d == n \div k
<1>1. d \in Nat /\ n < d * k + k
  BY DivBounds
<1> HIDE DEF d
<1> SUFFICES ASSUME d + 1 <= q PROVE FALSE
  BY <1>1 DEF d
<1>2. (d + 1) * k <= q * k
  BY <1>1, MulMono
<1>3. (d + 1) * k = d * k + k
  BY <1>1
<1>4. d * k \in Int /\ q * k \in Int
  BY <1>1
<1> QED
  BY <1>1, <1>2, <1>3, <1>4

LEMMA DivAtMost ==
  ASSUME NEW n \in Nat, NEW k \in Nat \ {0}, NEW q \in Int, n < q * k + k
  PROVE  n \div k <= q
<1> DEFINE d == n \div k
<1>1. d \in Nat /\ d * k <= n
  BY DivBounds
<1> HIDE DEF d
<1> SUFFICES ASSUME q + 1 <= d PROVE FALSE
  BY <1>1 DEF d
<1>2. (q + 1) * k <= d * k
  BY <1>1, MulMono
<1>3. (q + 1) * k = q * k + k
  OBVIOUS
<1>4. d * k \in Int /\ q * k \in Int
  BY <1>1
<1> QED
  BY <1>1, <1>2, <1>3, <1>4

(* A period that is divided twice is the longest that gives the same. *)
LEMMA Twice ==
  ASSUME NEW D \in Nat, NEW v \in Nat \ {0}, NEW q \in Nat \ {0}, q = D \div v,
         NEW k, k = D \div q
  PROVE  k \in Nat /\ k >= v /\ D \div k = q
<1>1. q * v <= D /\ D < q * v + v
  BY DivBounds
<1>2. k \in Nat /\ k * q <= D /\ D < k * q + q
  BY DivBounds
<1>3. v * q <= D
  BY <1>1
<1>4. v <= k
  BY <1>3, DivAtLeast
<1>5. k \in Nat \ {0}
  BY <1>2, <1>4
<1>6. q * k <= D
  BY <1>2
<1>7. q <= D \div k
  BY <1>5, <1>6, DivAtLeast
<1>8. v * q + v <= k * q + k
  BY <1>2, <1>4, MulMono
<1>9. D < q * k + k
  <2>1. q * v = v * q /\ q * k = k * q /\ q * v \in Int /\ q * k \in Int
    BY <1>2
  <2> QED
    BY <1>1, <1>2, <1>8, <2>1
<1>10. D \div k <= q
  BY <1>5, <1>9, DivAtMost
<1>11. D \div k \in Nat
  BY <1>5, DivBounds
<1> QED
  BY <1>2, <1>4, <1>7, <1>10, <1>11

(* What is at least (v - 1) * f and at most v * f counts v - 1 or v times f. *)
LEMMA Nearly ==
  ASSUME NEW n \in Nat, NEW f \in Nat \ {0}, NEW v \in Nat,
         n <= v * f, v * f <= n + f
  PROVE  n \div f \in v - 1 .. v
<1>1. v * f \in Nat /\ (v - 1) * f = v * f - f
  OBVIOUS
<1>2. n < v * f + f
  BY <1>1
<1>3. n \div f <= v
  BY <1>2, DivAtMost
<1>4. (v - 1) * f <= n
  BY <1>1
<1>5. v - 1 <= n \div f
  BY <1>4, DivAtLeast
<1>6. n \div f \in Nat
  BY DivBounds
<1> QED
  BY <1>3, <1>5, <1>6

-----------------------------------------------------------------------------
(* What is kept of an argument is close to it. *)
Near(p, v) ==
  IF p.kind = "rate"
    THEN Kept(p, v) >= v /\ Encode(p, First(p), Kept(p, v), range)
                            = Encode(p, First(p), v, range)
    ELSE Kept(p, v) \in v - Slack(p) .. v

LEMMA RateNear ==
  ASSUME Sound(Try), NEW p \in Param, NEW v \in Try[p], range \in Ranges,
         p.kind = "rate"
  PROVE  Near(p, v)
<1> DEFINE c == First(p)
           q == c.div \div v
           k == c.div \div q
<1>1. /\ Storable(p, v, range) /\ Invertible(p) /\ c \in CellsOf(p)
      /\ c.div \in Nat \ {0} /\ v \in Nat
  BY Table, ParamAssumption DEF Sound, Convertible, CellType
<1>2. c.mul # 0 /\ p.div = c.div
  BY <1>1 DEF Invertible
<1>3. \A w : Encode(p, c, w, range) = (c.div \div w) - 1
  BY <1>2 DEF Encode
<1>4. v # 0 /\ Encode(p, c, v, range) \in Nat
  BY <1>1 DEF Storable
<1>5. q \in Nat \ {0}
  <2>1. q - 1 \in Nat
    BY <1>3, <1>4
  <2>2. q \in Nat
    BY <1>1, <1>4, DivBounds
  <2> HIDE DEF q
  <2> QED
    BY <2>1, <2>2
<1>6. Kept(p, v) = Decode(p, Encode(p, c, v, range), range)
  BY DEF Kept
<1>7. \A n : Decode(p, n, range) = c.div \div (n + 1)
  BY <1>2 DEF Decode
<1>8. Kept(p, v) = k
  <2>1. Kept(p, v) = c.div \div ((q - 1) + 1)
    BY <1>3, <1>6, <1>7
  <2>2. (q - 1) + 1 = q
    BY <1>5
  <2> QED
    BY <2>1, <2>2
<1>9. k >= v /\ c.div \div k = q
  <2> DEFINE d == c.div
  <2>1. d \in Nat /\ v \in Nat \ {0} /\ q \in Nat \ {0}
    BY <1>1, <1>4, <1>5
  <2>2. q = d \div v /\ k = d \div q
    OBVIOUS
  <2> HIDE DEF d, q, k
  <2>3. k >= v /\ d \div k = q
    BY <2>1, <2>2, Twice, SMT
  <2> QED
    BY <2>3 DEF d
<1>10. Encode(p, c, k, range) = Encode(p, c, v, range)
  <2>1. Encode(p, c, k, range) = (c.div \div k) - 1
    BY <1>3, Zenon
  <2>2. Encode(p, c, v, range) = q - 1
    BY <1>3, Zenon
  <2>3. c.div \div k = q
    BY <1>9
  <2> QED
    BY <2>1, <2>2, <2>3, Zenon
<1> QED
  BY <1>8, <1>9, <1>10 DEF Near

LEMMA LinearNear ==
  ASSUME Sound(Try), NEW p \in Param, NEW v \in Try[p], range \in Ranges,
         p.kind = "linear"
  PROVE  Near(p, v)
<1> DEFINE c == First(p)
<1>1. /\ Exact(p, v) /\ Invertible(p) /\ c.mul \in Nat /\ c.div \in Nat \ {0}
      /\ p.mul \in Nat /\ p.div \in Nat \ {0} /\ v \in Nat
  BY Table, ParamAssumption DEF Sound, Convertible, CellType, Regular
<1>2. Encode(p, c, v, range) = (v * c.mul) \div c.div
  BY DEF Encode, Factor
<1>3. Kept(p, v) = (((v * c.mul) \div c.div) * p.mul) \div p.div
  <2>1. Kept(p, v) = Decode(p, (v * c.mul) \div c.div, range)
    BY <1>2 DEF Kept
  <2>2. \A n : Decode(p, n, range) = (n * p.mul) \div p.div
    BY DEF Decode
  <2> QED
    BY <2>1, <2>2
<1>4. CASE c.mul = 1 /\ p.mul = c.div /\ p.div = 1
  <2> DEFINE d == v \div c.div
             u == c.div
  <2>1. d \in Nat /\ d * u <= v /\ v < d * u + u
    BY <1>1, DivBounds
  <2>2. v * c.mul = v
    BY <1>1, <1>4
  <2>3. Kept(p, v) = (d * u) \div 1
    BY <1>3, <1>4, <2>2
  <2>4. Slack(p) = u - 1
    BY <1>4 DEF Slack
  <2>5. u \in Nat \ {0}
    BY <1>1
  <2> HIDE DEF d, u
  <2>6. d * u \in Nat
    BY <2>1, <2>5
  <2>7. (d * u) \div 1 = d * u
    BY <2>6
  <2>8. d * u \in v - (u - 1) .. v
    BY <1>1, <2>1, <2>5, <2>6
  <2> QED
    BY <2>3, <2>4, <2>7, <2>8 DEF Near
<1>5. CASE c.div = 1 /\ c.mul # 1 /\ c.mul * p.mul <= p.div
  <2> DEFINE m == c.mul
             t == m * p.mul
             f == p.div
  <2>1. /\ v \in Nat /\ m \in Nat /\ f \in Nat \ {0} /\ p.mul \in Nat
        /\ t <= f /\ v * (f - t) <= f
    BY <1>1, <1>5 DEF Exact
  <2>2. Kept(p, v) = (((v * m) \div 1) * p.mul) \div f
    BY <1>3, <1>5
  <2>3. Slack(p) = 1
    BY <1>5 DEF Slack
  <2>4. t = m * p.mul
    OBVIOUS
  <2> HIDE DEF m, t, f
  <2>5. v * m \in Nat /\ t \in Nat
    BY <2>1, <2>4
  <2>6. (v * m) \div 1 = v * m
    BY <2>5
  <2>7. (v * m) * p.mul = t * v
    BY <2>1, <2>4
  <2>8. v * (f - t) = v * f - t * v
    BY <2>1, <2>5
  <2>9. t * v <= f * v
    BY <2>1, <2>5, MulMono
  <2>10. f * v = v * f /\ v * f \in Nat /\ t * v \in Nat
    BY <2>1, <2>5
  <2>11. t * v <= v * f /\ v * f <= t * v + f
    BY <2>1, <2>8, <2>9, <2>10
  <2>12. (t * v) \div f \in v - 1 .. v
    BY <2>1, <2>10, <2>11, Nearly
  <2> QED
    BY <2>2, <2>3, <2>6, <2>7, <2>12 DEF Near
<1> QED
  BY <1>1, <1>4, <1>5 DEF Invertible

LEMMA ScaledNear ==
  ASSUME Sound(Try), NEW p \in Param, NEW v \in Try[p], range \in Ranges,
         p.kind = "scaled"
  PROVE  Near(p, v)
<1> DEFINE c == First(p)
           f == c.mul * Finer(range)
           d == c.div
           e == (v * f) \div d
<1>1. /\ Invertible(p) /\ d \in Nat \ {0} /\ v \in Nat
  BY Table, ParamAssumption DEF Sound, Convertible, CellType
<1>2. p.mul = d /\ p.div = c.mul /\ c.mul \in Nat \ {0} /\ d <= c.mul
  BY <1>1 DEF Invertible
<1>3. Finer(range) \in {1, 2, 4, 8}
  BY DEF Finer
<1>4. f \in Nat \ {0} /\ c.mul <= f
  BY <1>2, <1>3
<1>5. Encode(p, c, v, range) = e
  BY DEF Encode, Factor
<1>6. \A n : Decode(p, n, range) = (n * d) \div f
  BY <1>2 DEF Decode
<1>7. Kept(p, v) = (e * d) \div f
  BY <1>5, <1>6 DEF Kept
<1>8. Slack(p) = 1
  BY DEF Slack
<1>9. d <= f
  BY <1>1, <1>2, <1>4
<1> HIDE DEF f, d
<1>10. v * f \in Nat
  BY <1>1, <1>4
<1>11. e \in Nat /\ e * d <= v * f /\ v * f < e * d + d
  BY <1>1, <1>10, DivBounds
<1> HIDE DEF e
<1>12. e * d \in Nat
  BY <1>1, <1>11
<1>13. v * f <= e * d + f
  BY <1>1, <1>4, <1>9, <1>10, <1>11, <1>12
<1>14. (e * d) \div f \in v - 1 .. v
  BY <1>1, <1>4, <1>11, <1>12, <1>13, Nearly
<1> QED
  BY <1>7, <1>8, <1>14 DEF Near

LEMMA KeptIsNear ==
  ASSUME Sound(Try), NEW p \in Param, NEW v \in Try[p], range \in Ranges
  PROVE  Near(p, v)
<1>1. /\ p.kind \in {"axis", "block", "count", "rate", "scaled", "linear"}
      /\ v \in Nat
  BY Table, ParamAssumption DEF Regular
<1>2. CASE p.kind \in {"axis", "block"}
  <2>1. Slack(p) = 0 /\ Kept(p, v) = v
    BY <1>2 DEF Slack, Kept
  <2> QED
    BY <1>1, <1>2, <2>1 DEF Near
<1>3. CASE p.kind = "count"
  <2>1. Slack(p) = 0
    BY <1>3 DEF Slack
  <2>2. Encode(p, First(p), v, range) = v - 1
    BY <1>3 DEF Encode
  <2>3. Kept(p, v) = (v - 1) + 1
    BY <1>3, <2>2 DEF Kept, Decode
  <2> QED
    BY <1>1, <1>3, <2>1, <2>3 DEF Near
<1>4. CASE p.kind = "rate"
  BY <1>4, RateNear
<1>5. CASE p.kind = "scaled"
  BY <1>5, ScaledNear
<1>6. CASE p.kind = "linear"
  BY <1>6, LinearNear
<1> QED
  BY <1>1, <1>2, <1>3, <1>4, <1>5, <1>6

(* A setter that returns 0 has stored its argument: the getter returns it up
   to the parameter's unit.  It holds of every table that is sound, at every
   range, of every argument that the cells have room for. *)
THEOREM ReadsWhatWasSet ==
  ASSUME Sound(Try)
  PROVE  Spec => []ReadsBack
<1>1. ASSUME IInv PROVE ReadsBack
  <2> SUFFICES ASSUME Returning PROVE
        IF call.par.kind = "rate"
          THEN Got(call.par) >= call.val
                 /\ Encode(call.par, First(call.par), Got(call.par), range)
                      = Encode(call.par, First(call.par), call.val, range)
          ELSE Got(call.par) \in call.val - Slack(call.par) .. call.val
    BY Zenon DEF ReadsBack
  <2>1. Types /\ Done /\ call # None /\ call.at > Len(call.par.cells)
    BY <1>1 DEF IInv, Returning
  <2>2. /\ call.par \in Param /\ call.val \in Try[call.par] /\ range \in Ranges
        /\ call.at \in Nat
    BY <2>1 DEF Types
  <2>3. call.at > 1
    BY <2>1, <2>2, Table
  <2>4. Got(call.par) = Kept(call.par, call.val)
    BY <2>1, <2>3, GotKept
  <2>5. Near(call.par, call.val)
    BY <2>2, KeptIsNear
  <2> QED
    BY <2>4, <2>5, Zenon DEF Near
<1> QED
  BY <1>1, Invariance, PTL
=============================================================================
