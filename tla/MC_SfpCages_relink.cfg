SPECIFICATION SfpSpec
CONSTANTS
  SfpModules = {"g1", "x10"}
  SfpRequests <- MCRequests
  SfpDeadline = 2
  MaxSwap = 2
  MaxBusFault = 0
  None = None
PROPERTY RelinkFollows
CHECK_DEADLOCK FALSE
