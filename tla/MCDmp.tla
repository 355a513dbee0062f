------------------------------- MODULE MCDmp --------------------------------
(* The tables of both chips' drivers, which must agree, for the runs of
   DmpParam, and the arguments that they try. *)
EXTENDS DmpParam

M6050 == INSTANCE Mpu6050Dmp
M9250 == INSTANCE Mpu9250Dmp

EveryParam == M6050!Mpu6050Param \union M9250!Mpu9250Param

(* Arguments on both sides of the units' boundaries and at the limits that
   the setters check. *)
Arguments ==
  [p \in EveryParam |->
     CASE p.kind = "block" -> {0, 1}
       [] p.kind = "axis" -> {0, 1}
       [] p.kind = "count" -> {1, 4}
       [] p.kind = "rate" -> {1, 51, 200}
       [] p.kind = "scaled" -> {0, 260, 799}
       [] p.name = "shake_reject_thresh" -> {0, 1, 200}
       [] p.name = "walk_time" -> {19, 20, 1000039}
       [] p.name = "step_count" -> {0, 2147483647}
       [] OTHER -> {4, 5, 65535}]

(* The tables are what the theorems of DmpParam_proofs ask of one: this, and
   that the cells are apart, which CellsApart says of the focus of each state
   and so of them all. *)
ASSUME TablesAreConvertible == Convertible(Arguments)

(* Every threshold that set_tap_thresh accepts, in steps. *)
Accepted ==
  [p \in EveryParam |->
     IF p.kind = "scaled" THEN {0, 400, 800, 1200, 1600} ELSE Arguments[p]]
=============================================================================
