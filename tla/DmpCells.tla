----------------------------- MODULE DmpCells ------------------------------
(***************************************************************************)
(* What the setter and the getter of a DMP parameter say of it: the cells  *)
(* of the DMP's memory that it lives in, and how its value is converted.   *)
(***************************************************************************)
EXTENDS Naturals

(* A cell: its address, its length, and the factor mul / div of its value. *)
Cell(addr, len, mul, div) == [addr |-> addr, len |-> len, mul |-> mul,
                              div |-> div]

(* A parameter with the getter's factor.  The "scaled" are thresholds in mg:
   their cells' factors are those of 16g and double with each finer range.
   The getter reads the first cell. *)
Kind(name, idx, kind, cells, mul, div) ==
  [name |-> name, idx |-> idx, kind |-> kind, cells |-> cells, mul |-> mul,
   div |-> div]

(* Milliseconds in units of so many, and a plain number. *)
Millis(name, addr, len, unit) ==
  Kind(name, 0, "linear", <<Cell(addr, len, 1, unit)>>, unit, 1)
Number(name, addr, len) == Millis(name, addr, len, 1)

(* Constant bytes, one set of them for each value: 0, 1, ... *)
Block(name, cells) == Kind(name, 0, "block", cells, 1, 1)
Bytes(addr, len) == Cell(addr, len, 1, 1)
=============================================================================
