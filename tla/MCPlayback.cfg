SPECIFICATION Spec
CONSTANTS
  s1 = s1
  s2 = s2
  p1 = p1
  None = None
  Sales <- MCSales
  PumpIds <- MCPumpIds
  PumpIdOf <- MCPumpIdOf
  Pumps <- MCPumps
  PumpMatching <- MCPumpMatching
  LatestRows = 2
  DedupMax = 1
  MaxExpiries = 1
  MaxFailures = 1
  MaxModes = 2
  MaxBreaks = 1
INVARIANTS
  PlaybackHasTimer
PROPERTIES
  CacheConverges
CHECK_DEADLOCK FALSE
