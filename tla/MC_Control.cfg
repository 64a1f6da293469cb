SPECIFICATION MCSpec
CONSTANTS
  AdmSid = {s1, s2}
  MaxRev = 2
  Plan = {p1}
  Bind = {b1, b2}
  Index = {1, 2}
  Capacity = 2
  AdmMaxFaults = 2
  CpbUps = {"up", "boot618"}
  CpbAlt = {"boot618"}
  CpbStarts = 1
  CpbMaxFaults = 1
  None = None
INVARIANTS
  AdmSafe
  CpbSafe
SYMMETRY Symmetry
CHECK_DEADLOCK FALSE
