SPECIFICATION CpdpSpec
CONSTANTS
  CpdpN = 2
  CpdpW = 8
  MaxCalls = 4
  MaxSessions = 2
  MaxRestarts = 0
  None = None
INVARIANT AnswersMatch
CHECK_DEADLOCK FALSE
