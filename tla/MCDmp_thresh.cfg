\* The thresholds that set_tap_thresh accepts.
CONSTANTS
  Param <- EveryParam
  Try <- Accepted
  Ranges = {0, 3}
  None = None
SPECIFICATION Spec
INVARIANTS ThresholdFits
