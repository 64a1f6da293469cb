SPECIFICATION MCSpec
CONSTANTS
  Sid = {s1, s2}
  Key = {ka, kb}
  Rev = {1}
  LastFid = 5
  MaxFaults = 2
  NoRow = NoRow
  First = 1
  Last = 5
  MaxBoot = 3
  NsMaxFaults = 3
  ObsId = {1}
  ObsVersion = 2
  QueueCap = 2
  ChanCap = 1
  MaxEvents = 3
  ObsMaxFaults = 1
  FlowMem = {"fdt"}
  MaxBoots = 2
  ComMaxFaults = 2
  GrdStarts = 2
  GrdMaxFaults = 2
  None = None
INVARIANTS
  SessionsSafe
  NsSafe
  ObsSafe
  ComSafe
  GrdSafe
PROPERTIES
  ForeignPreserved
  NoLiveTraining
  Fe100Progress
CHECK_DEADLOCK FALSE
