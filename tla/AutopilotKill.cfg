SPECIFICATION AutopilotSpec
CONSTANTS
  NLoops = 2
  Calls = {k1}
  Sizes = {1, 2}
  MaxOrders = 2
  MaxDaily = 3
  Ceiling = 1
INVARIANT KillHolds
CHECK_DEADLOCK FALSE
