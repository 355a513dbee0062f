\* Objects destroyed while the loop runs, a descriptor number used again, and
\* a loop that EINTR can stop.
CONSTANTS
  Fd = {f1, f2}
  Obj = {timer, touch}
  Scoped = {timer}
  Fatal = {}
  Greedy = {}
  Deaf = {}
  Interruptible = TRUE
  MaxEvents = 2
  MaxInput = 1
  None = None
SPECIFICATION Spec
INVARIANTS ListenerAlive WatchedHasListener EventNamesSource
CHECK_DEADLOCK FALSE
