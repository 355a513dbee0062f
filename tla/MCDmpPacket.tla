---------------------------- MODULE MCDmpPacket ----------------------------
(* The reads that the runs of DmpPacket try. *)
EXTENDS DmpPacket

(* Every mask that sends something. *)
EveryMask == {m \in SUBSET Feature : PacketLen(m) > 0}

(* Those that send a quaternion; pedometer and gyro_cal send nothing. *)
QuatMask == {m \in SUBSET (Feature \ {"pedometer", "gyro_cal"}) :
               m \intersect Quaternion # {}}

(* One packet of any mask, which is all that GetEulerQuat looks at, and of
   those with a quaternion more than the offset could count through. *)
OrdinaryRead == [mask : EveryMask, packets : {1}]
                  \union [mask : QuatMask, packets : {2, 3, 12}]

(* Two packets of a mask without a quaternion. *)
OtherRead == [mask : {m \in EveryMask : m \intersect Quaternion = {}},
              packets : {2}]

(* A packet of the mask that mpu6050_dmp_init and mpu9250_dmp_init pass to
   set_feature. *)
DefaultRead == [mask : {{"6x_quat", "tap", "pedometer", "orient", "raw_accel",
                         "cal_gyro", "gyro_cal"}},
                packets : {1}]
=============================================================================
