SPECIFICATION Spec
CONSTANTS
  SlowTx = 6
  Microsecond = 2
  WireModulus = 16
  Discrs = {1}
  Config <- TimerConfig
  Inputs <- TimerInputs
  Jitters = {0, 25}
  RecvChSize = 1
  CtrlChSize = 1
  NotifyChSize = 1
INVARIANTS
  ConsumersTrack
PROPERTIES
  SlowUnlessUp
CONSTRAINT BeforeOverflow
CHECK_DEADLOCK FALSE
