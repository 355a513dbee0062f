\* The layouts differ in the quaternion, in the other fields, and in neither.
CONSTANTS
  Masks = {{"6x_quat", "accel", "gyro", "gesture", "gyro_cal"}, {"accel", "gesture"}}
  DefaultMask = {"6x_quat", "accel", "gyro", "gesture", "gyro_cal"}
  Firmware = {{}, {"6x_quat", "gyro"}}
  MaxSlips = 2
SPECIFICATION Spec
INVARIANTS TypeOK LayoutAgrees Running InitFailsClosed
