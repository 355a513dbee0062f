\* One descriptor number, first of an object that is destroyed, then of
\* another.
CONSTANTS
  Fd = {f1}
  Obj = {timer, touch}
  Scoped = {timer}
  Fatal = {}
  Greedy = {}
  Deaf = {}
  Interruptible = FALSE
  MaxEvents = 1
  MaxInput = 1
  None = None
SPECIFICATION Spec
INVARIANTS DispatchesOwner
CHECK_DEADLOCK FALSE
