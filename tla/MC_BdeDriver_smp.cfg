SPECIFICATION BdeSpec
CONSTANTS
  BdeMaxIrq = 2
  BdeMaxOff = 1
  Page = {1, 2, 3}
  PageKind <- MCPageKind
  Pools <- MCPools
  None = None
INVARIANT MaskBalanced
CHECK_DEADLOCK FALSE
