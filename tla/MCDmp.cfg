\* Every pair of neighbouring parameters, at the finest and the coarsest range.
CONSTANTS
  Param <- EveryParam
  Try <- Arguments
  Ranges = {0, 3}
  None = None
SPECIFICATION Spec
INVARIANTS TypeOK CellsApart ReadsBack
PROPERTIES Implements
