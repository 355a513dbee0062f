\* The mask of mpu6050_dmp_init; a tap with direction 1 and count 3.
CONSTANTS
  Reads <- DefaultRead
  Tap = {10}
  None = None
SPECIFICATION Spec
INVARIANTS TapReported
CHECK_DEADLOCK FALSE
