SPECIFICATION MCSpec
CONSTANTS
  FibW = 2
  Prefixes <- MCPrefixes
  FibOffers <- MCFibOffers
  Groups = {1}
  FibN = 4
  FibHome <- MCFibHome
  Zero = 0
  FibFree = FibFree
  ArpAddr = {1, 2, 3}
  Mac = {"m"}
  Null = "null"
  ArpN = 4
  ArpHome <- MCArpHome
  MaxProbes = 2
  Dead = 2
  ArpFree = ArpFree
  Core = {"c1", "c2"}
  InitCore = "c1"
  Buffer = {"b1", "b2"}
  Ports = {1}
  BufBurst = 2
  Passes = 1
  Byte = {1, 2}
  Sigs <- MCSigs
  Rules <- MCRules
  Payload <- MCPayload
  MaxPat = 4
  ScanMax = 3
  NPort = 1
  Commands <- PrtCmds
  Descs = 1
  Banks = {0}
  TrunkBlock = {1, 2}
  TrunkGroup = {0, 1}
  TrunkSlots = 1
  TrunkBudget = 1
  NetN = 2
  NetW = 4
  MaxFrames = 4
  NetMaxFaults = 1
  CpdpN = 2
  CpdpW = 4
  MaxCalls = 5
  MaxSessions = 2
  MaxRestarts = 1
  FabDeployments <- MCFabDeployments
  FabBoots = {1, 2}
  FabMaxFaults = 2
  PcnN = 2
  PcnFrames = 3
  PcnForeign = {2}
  PcnMaxFaults = 1
  None = None
INVARIANTS
  FibSafe
  ArpSafe
  BufSafe
  ScanSafe
  PrtSafe
  TrunkSafe
  NetSafe
  CpdpSafe
  FabSafe
  PcnSafe
PROPERTIES
  PublishedKept
  FifoSpec
  NeverBridged
  
  DataplaneProgress
CHECK_DEADLOCK FALSE
