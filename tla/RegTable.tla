----------------------------- MODULE RegTable ------------------------------
(***************************************************************************)
(* What a setter and a getter of driver_mpu6050.cpp or driver_mpu9250.cpp  *)
(* say of their option: registers, masks and shifts.  A byte, and a value, *)
(* is the set of the bits in it that are 1.                                *)
(***************************************************************************)
EXTENDS Naturals

Low(n) == 0 .. n - 1

Up(S, n) == {b + n : b \in S}

(* A piece of an option: its register, the bits of the value that are in
   it, how far they are shifted, and (setter only) the bits cleared first. *)
Piece(reg, clear, bits, up) ==
  [reg |-> reg, clear |-> clear, bits |-> bits, up |-> up]

(* prev &= ~(mask << at); prev |= arg << at, each given by its width. *)
Set(reg, mask, at, arg) == <<Piece(reg, Up(Low(mask), at), Low(arg), at)>>

(* (prev >> at) & mask *)
Get(reg, at, mask) == <<Piece(reg, {}, Low(mask), at)>>

(* An option as its setter and its getter have it.  A "value" is stored as
   it is, an "inverted" one as its negation; a "command" is always all
   ones, a "switch" all ones or all zeros. *)
Split(name, idx, kind, set, get) ==
  [name |-> name, idx |-> idx, kind |-> kind, set |-> set, get |-> get]

Opt(name, set, get) == Split(name, 0, "value", set, get)
Inverted(name, set, get) == Split(name, 0, "inverted", set, get)
Command(name, set, get) == Split(name, 0, "command", set, get)

(* An option that exists once for each i: an axis, a slave, a source. *)
At(i, name, set, get) == Split(name, i, "value", set, get)

(* A register that is read and written whole, with nothing masked. *)
Whole(name, set, get) == Opt(name, Set(set, 8, 0, 8), Get(get, 0, 8))
WholeAt(i, name, set, get) == At(i, name, Set(set, 8, 0, 8), Get(get, 0, 8))
Word(name, set, get) == Opt(name, Set(set, 16, 0, 16), Get(get, 0, 16))

(* One that has no getter is read by the chip alone, where it was put. *)
Unread(set) ==
  [i \in DOMAIN set |-> Piece(set[i].reg, {}, set[i].bits, set[i].up)]

(* The registers of the slaves, which the driver chooses by an if for each. *)
SLV_ADDR(slave) == <<"I2C_SLV0_ADDR", "I2C_SLV1_ADDR", "I2C_SLV2_ADDR",
                     "I2C_SLV3_ADDR", "I2C_SLV4_ADDR">>[slave + 1]
SLV_REG(slave) == <<"I2C_SLV0_REG", "I2C_SLV1_REG", "I2C_SLV2_REG",
                    "I2C_SLV3_REG", "I2C_SLV4_REG">>[slave + 1]
SLV_CTRL(slave) == <<"I2C_SLV0_CTRL", "I2C_SLV1_CTRL", "I2C_SLV2_CTRL",
                     "I2C_SLV3_CTRL">>[slave + 1]
SLV_DO(slave) == <<"I2C_SLV0_DO", "I2C_SLV1_DO", "I2C_SLV2_DO",
                   "I2C_SLV3_DO">>[slave + 1]
=============================================================================
