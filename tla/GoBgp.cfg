SPECIFICATION GoBgpSpec
CONSTANTS
  eth0 = eth0
  eth1 = eth1
  peer = peer
  Sessions = {eth0, eth1}
  Peers = {peer}
  PeerOf <- OnePeer
  Enabled = TRUE
  Down = 2
  SuppressThreshold = 6
  ReuseThreshold = 4
  MaxSuppressTime = 2
  MaxPenalty = 10
  QueueSize = 2
  Faults = {"drop", "fail", "restart"}
  NoSession = NoSession
INVARIANTS
  PeerFollows
  
