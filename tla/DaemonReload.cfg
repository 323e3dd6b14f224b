SPECIFICATION FairSpec
CONSTANTS
  MaxWireInterval = 4294967
  Keys = {"a", "b"}
  Discrs = {1, 2, 3, 4, 5}
  Ports = {1, 2, 3}
  FileSet <- ReloadFiles
  Clients = {"rpc"}
  MaxEdits = 1
  MaxCalls = 2
  MaxSignals = 2
INVARIANTS
  LiveSenders
  
  ReloadConverges
  
PROPERTIES
  DeclaredKept
  ShutdownCompletes
CONSTRAINT TwoAtATime
