SPECIFICATION FairSpec
CONSTANTS
  SlowTx = 1
  Microsecond = 1
  WireModulus = 16
  Discrs = {1}
  Config <- ControlConfig
  Inputs <- ControlInputs
  Jitters = {0}
  RecvChSize = 1
  CtrlChSize = 2
  NotifyChSize = 0
INVARIANTS
  SentDecodable
  MirrorLag
  HandshakeAgrees
PROPERTIES
  
  AdminDownStays
  AdminDownAnnounced
CHECK_DEADLOCK FALSE
