\* GetEulerQuat: packets of 3 bytes, 4 of them and a byte in the fifo, 3 in the
\* caller's arrays; a DMP that these keep up with, and one that fills the fifo
\* between two reads; one failed transfer anywhere.
CONSTANTS
  Len = 3
  FifoSize = 13
  BufLen = 3
  Paces = {7, 14}
  Slack = 2
  MaxFail = 1
  Caller = "GetEulerQuat"
SPECIFICATION Spec
INVARIANTS TypeOK ReadInBounds SkewNoticed KeepsUp
PROPERTIES TakesAllThatFits
CHECK_DEADLOCK FALSE
