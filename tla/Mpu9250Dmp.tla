---------------------------- MODULE Mpu9250Dmp -----------------------------
(* The parameters of an MPU9250's DMP as driver_mpu9250.cpp has them, in the
   order of the file. *)
EXTENDS DmpCells

walk_time == Millis("walk_time", 964, 4, 20)
step_count == Number("step_count", 768 + 96, 4)
shake_reject_timeout == Millis("shake_reject_timeout", 256 + 88, 2, 5)
shake_reject_time == Millis("shake_reject_time", 256 + 90, 2, 5)

(* MPU9250_DMP_GYRO_SF / 1000 is 46850, but the getter divides by 46850.825. *)
shake_reject_thresh ==
  Kind("shake_reject_thresh", 0, "linear",
       <<Cell(256 + 92, 4, 46850, 1)>>, 40, 1874033)

tap_time_multi == Millis("tap_time_multi", 256 + 218, 2, 5)

(* tap_time one byte too low (a mutant). *)
tap_timeLow == Millis("tap_time", 477, 2, 5)

tap_time == Millis("tap_time", 478, 2, 5)
min_tap_count ==
  Kind("min_tap_count", 0, "count", <<Cell(256 + 79, 1, 1, 1)>>, 1, 1)
gyro_calibrate == Block("gyro_calibrate", <<Bytes(1208, 9)>>)
quaternion_3x == Block("3x_quaternion", <<Bytes(2712, 4)>>)
quaternion_6x == Block("6x_quaternion", <<Bytes(2718, 4)>>)
interrupt_mode == Block("interrupt_mode", <<Bytes(2690, 11)>>)
gyro_bias ==
  Block("gyro_bias", <<Bytes(61 * 16, 4), Bytes(61 * 16 + 4, 4),
                       Bytes(61 * 16 + 8, 4)>>)
accel_bias == Block("accel_bias", <<Bytes(660, 12)>>)
orientation ==
  Block("orientation", <<Bytes(1062, 3), Bytes(1066, 3), Bytes(1088, 3),
                         Bytes(1073, 3)>>)

(* 200 / rate - 1, and then twelve constant bytes. *)
fifo_rate ==
  Kind("fifo_rate", 0, "rate",
       <<Cell(512 + 22, 2, 1, 200), Cell(2753, 12, 0, 1)>>, 1, 200)

(* axis is 0 for x to 2 for z, in the code 5 to 7. *)
tap_axes(axis) ==
  Kind("tap_axes", axis, "axis", <<Cell(256 + 72, 1, 1, 1)>>, 1, 1)
tap_thresh_cells(axis) ==
  <<Cell(468 + 4 * axis, 2, 2048, 200),
    Cell(256 + 36 + 4 * axis, 2, 1536, 200)>>
tap_thresh(axis) ==
  Kind("tap_thresh", axis, "scaled", tap_thresh_cells(axis), 200, 2048)

Mpu9250Param ==
  {walk_time, step_count, shake_reject_timeout, shake_reject_time,
   shake_reject_thresh, tap_time_multi, tap_time, min_tap_count,
   gyro_calibrate, quaternion_3x, quaternion_6x, interrupt_mode, gyro_bias,
   accel_bias, orientation, fifo_rate}
    \union {tap_axes(i) : i \in 0 .. 2}
    \union {tap_thresh(i) : i \in 0 .. 2}
=============================================================================
