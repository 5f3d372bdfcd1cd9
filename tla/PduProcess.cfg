SPECIFICATION Spec
CONSTANTS
  NofWorkers = 2
  HarqDelay = 1
  RingSize = 4
  Period = 4
  Users = {1}
  NofBufs = 2
INVARIANT OneOwner
INVARIANT DecodesIntoOwn
INVARIANT ReadInTime
PROPERTY QueuedIsRead
PROPERTY StopReturns
CHECK_DEADLOCK FALSE
