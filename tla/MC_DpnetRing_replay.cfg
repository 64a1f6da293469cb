SPECIFICATION NetSpec
CONSTANTS
  NetN = 2
  NetW = 8
  MaxFrames = 3
  NetMaxFaults = 1
INVARIANT NetAtMostOnce
