\* Objects built and kept, as in main.cc; exit from a constructor; two
\* descriptors that compete for one slot of events_, and a callback that
\* consumes nothing; no EINTR.
CONSTANTS
  Fd = {f1, f2}
  Obj = {inotify, socket}
  Scoped = {}
  Fatal = {inotify}
  Greedy = {}
  Deaf = {socket}
  Interruptible = FALSE
  MaxEvents = 1
  MaxInput = 1
  None = None
SPECIFICATION FairSpec
INVARIANTS TypeOK ExitAfterLoop
PROPERTIES SigintEnds InputServed
CHECK_DEADLOCK FALSE
