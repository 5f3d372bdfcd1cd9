SPECIFICATION Spec
CONSTANTS
  MaxRnti = 2
  MaxQueue = 1
  Connecting = {1}
  MaxEvents = 1
INVARIANT LayersAgree
INVARIANT RegisteredIsComplete
INVARIANT NoConnectedOrphan
PROPERTY EveryUserLeaves
CHECK_DEADLOCK FALSE
