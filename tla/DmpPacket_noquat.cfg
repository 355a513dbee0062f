\* Masks without a quaternion, two packets.
CONSTANTS
  Reads <- OtherRead
  Tap = {10}
  None = None
SPECIFICATION Spec
INVARIANTS FieldsOfPackets
CHECK_DEADLOCK FALSE
