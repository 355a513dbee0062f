------------------------------- MODULE MCRegs -------------------------------
(* The tables of both chips for one run of RegDriver, which tries the pairs
   of options of each. *)
EXTENDS RegDriver

M6050 == INSTANCE Mpu6050Regs
M9250 == INSTANCE Mpu9250Regs

Tables == {M6050!Mpu6050Option, M9250!Mpu9250Option}

EveryOption == UNION Tables
EveryVolatile == M6050!Mpu6050Volatile \union M9250!Mpu9250Volatile
EveryWide == M9250!Mpu9250Wide

(* The options that are called belong to one chip. *)
MCInit == Init /\ \E table \in Tables : focus \subseteq table

MCSpec == MCInit /\ [][Next]_vars
=============================================================================
