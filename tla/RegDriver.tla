----------------------------- MODULE RegDriver -----------------------------
(***************************************************************************)
(* How driver_mpu6050.cpp and driver_mpu9250.cpp set an option of the      *)
(* chip: read the register over I2C, clear the option's bits, put the      *)
(* value in, write the register; a few options are spread over two         *)
(* registers, one read and one write each.  Each transfer can fail, and    *)
(* the call then returns at once, with what it had written left as it is.  *)
(*                                                                         *)
(* Every setter and every getter spells out its register, its mask and its *)
(* shift for itself; the tables of Mpu6050Regs and Mpu9250Regs list what   *)
(* each of them says, in the terms of RegTable.  The argument checks (a NULL handle, one that is not        *)
(* initialised, a value out of range) return before the first transfer     *)
(* and change nothing: a call is one that has passed them.                 *)
(***************************************************************************)
EXTENDS RegTable, Naturals, Sequences

CONSTANTS
  Option,    \* the table: a set of Opt and Split
  Volatile,  \* the options whose bits the chip clears by itself
  Wide,      \* the registers of two bytes, written in one transfer
  Sampled,   \* bound: wider values than this are tried only if all ones
  None       \* no call is running

Parts(f) == {f[i] : i \in DOMAIN f}

Pieces(o) == Parts(o.set) \union Parts(o.get)

Bits(o) == UNION {p.bits : p \in Parts(o.set)}

Reg == {p.reg : p \in UNION {Pieces(o) : o \in Option}}

BitsOf(r) == IF r \in Wide THEN 0 .. 15 ELSE 0 .. 7

Value == SUBSET (0 .. 15)

Values(o) ==
  CASE o.kind = "command" -> {Bits(o)}
    [] o.kind = "switch" -> {{}, Bits(o)}
    [] OTHER -> {Bits(o)} \union SUBSET (Bits(o) \intersect Low(Sampled))

(* The table is one of setters and getters with pieces of the kinds above. *)
PieceType == [reg : Reg, clear : SUBSET Nat, bits : Value, up : Nat]

CallType == [opt : Option, val : Value, at : Nat, prev : Value,
             next : {"read", "write", "return"}]

ASSUME TableAssumption ==
  /\ \A o \in Option :
       /\ o.set \in Seq(PieceType) /\ o.set # <<>>
       /\ o.get \in Seq(PieceType)
  /\ Volatile \subseteq Option
  /\ None \notin CallType \union [opt : Option, val : Value]

-----------------------------------------------------------------------------
VARIABLES
  focus,   \* bound: the options that are called; the same in all states
  regs,    \* the chip's registers
  call,    \* None, or the call that is running: its option and value, the
           \* piece it is at, what it has read, and what comes next
  result   \* what the last call returned

vars == <<focus, regs, call, result>>

(* Options are called in pairs that share a register, and every register
   holds all zeros or all ones before the first call. *)
Init ==
  /\ focus \in {{o, q} : o \in Option, q \in Option}
  /\ \E r \in Reg : \A o \in focus : \E p \in Pieces(o) : p.reg = r
  /\ regs \in {[r \in Reg |-> {}], [r \in Reg |-> BitsOf(r)]}
  /\ call = None
  /\ result = 0

(* How a value looks in the chip. *)
Stored(o, v) == IF o.kind = "inverted" THEN Bits(o) \ v ELSE v

(* What the getter of an option returns. *)
Got(o) ==
  LET raw == UNION {{b \in p.bits : b + p.up \in regs[p.reg]} :
                      p \in Parts(o.get)}
  IN  IF o.kind = "inverted" THEN {0} \ raw ELSE raw

(* A piece that is the whole register is written without a read. *)
First(p) == IF BitsOf(p.reg) \subseteq p.clear THEN "write" ELSE "read"

Call(o, v) ==
  /\ call = None
  /\ call' = [opt |-> o, val |-> v, at |-> 1, prev |-> {},
              next |-> First(o.set[1])]
  /\ UNCHANGED <<focus, regs, result>>

Here(c) == c.opt.set[c.at]

Read ==
  /\ call # None /\ call.next = "read"
  /\ call' = [call EXCEPT !.prev = regs[Here(call).reg], !.next = "write"]
  /\ UNCHANGED <<focus, regs, result>>

(* A transfer fails before the chip has taken anything. *)
Fails ==
  /\ call # None /\ call.next \in {"read", "write"}
  /\ call' = None
  /\ result' = 1
  /\ UNCHANGED <<focus, regs>>

(* What is written: a byte, or two; bits that are shifted out are lost. *)
Merged(c) ==
  LET p == Here(c)
  IN  BitsOf(p.reg) \intersect
        ((c.prev \ p.clear) \union
           Up(p.bits \intersect Stored(c.opt, c.val), p.up))

(* A slip of Advanced: it counts on after the last piece. *)
AdvancedPast(c) ==
  [c EXCEPT !.at = @ + 1, !.prev = {},
            !.next = IF c.at < Len(c.opt.set)
                       THEN First(c.opt.set[c.at + 1]) ELSE "return"]

(* After the write of a piece: the next one, or return 0. *)
Advanced(c) ==
  IF c.at < Len(c.opt.set)
    THEN [c EXCEPT !.at = @ + 1, !.prev = {},
                   !.next = First(c.opt.set[c.at + 1])]
    ELSE [c EXCEPT !.prev = {}, !.next = "return"]

Write ==
  /\ call # None /\ call.next = "write"
  /\ regs' = [regs EXCEPT ![Here(call).reg] = Merged(call)]
  /\ call' = Advanced(call)
  /\ UNCHANGED <<focus, result>>

(* The write fails after the chip has taken all of it, or the first byte. *)
WriteFails ==
  /\ call # None /\ call.next = "write"
  /\ \E taken \in {0 .. 15, 8 .. 15} :
       regs' = [regs EXCEPT ![Here(call).reg] =
                  (@ \ taken) \union (Merged(call) \intersect taken)]
  /\ call' = None
  /\ result' = 1
  /\ UNCHANGED focus

Return ==
  /\ call # None /\ call.next = "return"
  /\ call' = None
  /\ result' = 0
  /\ UNCHANGED <<focus, regs>>

(* The chip has done what it was told to and clears the bits. *)
ChipClears(o) ==
  /\ regs' = [regs EXCEPT ![o.set[1].reg] =
                          @ \ Up(o.set[1].bits, o.set[1].up)]
  /\ UNCHANGED <<focus, call, result>>

Next ==
  \/ Read \/ Fails \/ Write \/ WriteFails \/ Return
  \/ \E o \in focus : \E v \in Values(o) : Call(o, v)
  \/ \E o \in Volatile \intersect focus : ChipClears(o)

Spec == Init /\ [][Next]_vars

-----------------------------------------------------------------------------
(* Registers hold bytes, and a call that is running is at one of the pieces
   of its option: the steps of a setter never run past its last write. *)
TypeOK ==
  /\ focus \subseteq Option
  /\ regs \in [Reg -> Value]
  /\ \A r \in Reg : regs[r] \subseteq BitsOf(r)
  /\ result \in {0, 1}
  /\ \/ call = None
     \/ /\ call \in CallType
        /\ call.opt \in focus
        /\ call.val \subseteq Bits(call.opt)
        /\ call.at \in DOMAIN call.opt.set
        /\ call.prev \subseteq BitsOf(Here(call).reg)

(* A setter clears exactly the bits that its argument is then shifted to,
   and the getter takes them from the same place. *)
Agrees(o) ==
  /\ DOMAIN o.set = DOMAIN o.get
  /\ \A i \in DOMAIN o.set :
       /\ o.get[i] = [o.set[i] EXCEPT !.clear = {}]
       /\ o.set[i].clear = Up(o.set[i].bits, o.set[i].up)
       /\ o.set[i].clear \subseteq BitsOf(o.set[i].reg)
  /\ o.kind = "inverted" => Bits(o) = {0}

(* No two pieces of the options lie on the same bits. *)
Apart(options) ==
  \A o, q \in options : \A i \in DOMAIN o.set, j \in DOMAIN q.set :
    \/ o = q /\ i = j
    \/ o.set[i].reg # q.set[j].reg
    \/ o.set[i].clear \intersect q.set[j].clear = {}

Fits(options) == (\A o \in options : Agrees(o)) /\ Apart(options)

(* The hand-written masks and shifts of the setters and getters fit
   together: each getter reads what its setter writes, and no setter
   touches the bits of an option it shares a register with. *)
TableFits == Fits(focus)

Store == INSTANCE OptionStore WITH
  store <- [o \in focus |-> Got(o)],
  pending <- IF call = None THEN None ELSE [opt |-> call.opt, val |-> call.val]

(* The options behave as a store of independent values: whatever transfers
   fail, and whichever options share registers, a setter that returns 0 has
   set its own option, and no setter changes what another getter returns. *)
Implements == Store!Spec
=============================================================================
