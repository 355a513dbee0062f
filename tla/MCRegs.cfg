\* Every pair of options of a chip that share a register.
CONSTANTS
  Option <- EveryOption
  Volatile <- EveryVolatile
  Wide <- EveryWide
  Sampled = 2
  None = None
SPECIFICATION MCSpec
INVARIANTS TypeOK TableFits
PROPERTIES Implements
