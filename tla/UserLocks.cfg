SPECIFICATION Spec
CONSTANTS
  MaxRnti = 2
  MaxQueue = 1
  Connecting = {}
  MaxEvents = 0
PROPERTY UpdUserReturns
CHECK_DEADLOCK FALSE
