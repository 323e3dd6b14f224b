SPECIFICATION Spec
CONSTANTS
  MaxWireInterval = 4294967
  Keys = {"a", "b"}
  Discrs = {1, 2, 3}
  Ports = {1, 2, 3, 4}
  FileSet <- MixedFiles
  Clients = {}
  MaxEdits = 0
  MaxCalls = 0
  MaxSignals = 0
INVARIANT DeclaredRunning
