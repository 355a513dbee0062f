\* Any mask, and with a quaternion many packets; periods and duty cycles of a
\* pwm; lines of which two or three fill the log; the functions' inputs.
CONSTANTS
  Reads <- OrdinaryRead
  Tap = {10}
  None = None
  Times = {0, 1, 2, 20}
  Lengths = {3, 5}
  MaxSize = 9
  MaxDeaths = 2
  MaxCalls = 5
  SampleInputs <- EdgeInputs
  ChipBiases <- SomeBiases
  WireInputs <- SomeBytes
  AccessInputs <- SomeCalls
  Width = 16
  Height = 12
  Spare = 384
  DrawInputs <- SomeDrawings
SPECIFICATION PartsSpec
INVARIANTS TypeOK FieldsOfPackets ReadsInBuffer FieldsOfSamples SelfTestRight Oriented Carried HandedThrough DrawnInPlace PwmAsAsked LogEndsWithNewest
CHECK_DEADLOCK FALSE
