SPECIFICATION RstSpec
CONSTANTS
  MaxJobs = 2
  RstMaxFaults = 0
  None = None
INVARIANT RestoreListRetained
CHECK_DEADLOCK FALSE
