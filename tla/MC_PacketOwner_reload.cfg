SPECIFICATION PktSpec
CONSTANTS
  Worker = {1, 2}
  Engine = {1, 2}
  PktLease = 1
  None = None
INVARIANT EngineAlive
CHECK_DEADLOCK FALSE
