SPECIFICATION FairSpec
CONSTANTS
  SlowTx = 2
  Microsecond = 1
  WireModulus = 16
  Discrs = {1, 2}
  Nodes <- Ends
  NodeConfig <- BriefConfig
  Jitters = {0}
  MaxDelay = 0
  MaxInFlight = 1
  Faults = {"cut"}
  Drainable = {}
  Mortal = {"a"}
INVARIANTS
  UpIsTwoWay
PROPERTIES
  Converges
  CutIsDetected
