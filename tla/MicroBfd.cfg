SPECIFICATION Spec
CONSTANTS
  bond0 = bond0
  bond1 = bond1
  eth0 = eth0
  eth1 = eth1
  Absent = Absent
  Lags = {bond0, bond1}
  Links = {eth0, eth1}
  GroupConfigs <- TwoLags
  Mode = "enforce"
  UpAction = "add-member"
  DownAction = "remove-member"
  Dynamic = TRUE
  NotifyChSize = 1
INVARIANTS
  GroupCounts
  LagFollows
