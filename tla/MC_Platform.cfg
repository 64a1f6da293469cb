SPECIFICATION MCSpec
CONSTANTS
  MaxJobs = 2
  RstMaxFaults = 1
  FlowKey = {1, 2, 3}
  FlowHome <- MCFlowHome
  FragKey = {3}
  FlowN = 4
  Window = 2
  FlowIdle = 1
  FlowBudget = 3
  Engines = TRUE
  Scans = 1
  Policies <- FlowBanks
  Routes <- MCRoutes
  FlowFree = FlowFree
  BdeMaxIrq = 2
  BdeMaxOff = 1
  Page = {1, 2, 3, 4, 5, 6}
  PageKind <- MCPageKind
  Pools <- MCPools
  SfpModules = {"g1", "bad"}
  SfpRequests <- MCSfpRequests
  SfpDeadline = 2
  MaxSwap = 1
  MaxBusFault = 1
  None = None
INVARIANTS
  RstSafe
  FlowSafe
  BdeSafe
  SfpTypeOK
PROPERTIES
  ConvictionSticks
  SfpSteps
  PlatformProgress
CHECK_DEADLOCK FALSE
