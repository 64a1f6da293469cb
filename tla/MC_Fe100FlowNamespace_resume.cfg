SPECIFICATION NsFairSpec
CONSTANTS
  First = 1
  Last = 5
  MaxBoot = 1
  NsMaxFaults = 1
  None = None
PROPERTY SameBootResumes
CHECK_DEADLOCK FALSE
