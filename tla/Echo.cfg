SPECIFICATION Spec
CONSTANTS
  SlowTx = 1
  Microsecond = 1
  WireModulus = 16
  Discrs = {1, 2}
  Keys = {"a", "x"}
  TxInterval <- Interval
  DetectMult = 3
  Jitters = {0}
  echoRecvChSize = 1
  MaxDelay = 1
  Reloaders = {"hup"}
  Clients = {"rpc"}
  Declared <- Files
  MaxAdds = 1
INVARIANTS
  DownWhenCut
  UpWhenGood
  DiscrsReturned
PROPERTIES
  ReconcileConverges
