SPECIFICATION Spec
CONSTANTS
  Keys = {k1, k2}
  Discrs = {d1, d2}
  Procs = {p1, p2}
  Permitted = {k1}
  MaxSessions = 1
  NotifyChSize = 1
  MaxCleanups = 1
  MaxCount = 3
  Absent = Absent
SYMMETRY Symmetry
INVARIANTS
  MapsAgree
  DiscrsOwned
  GoroutinesOwned
  QuotaHolds
PROPERTY RefinesRegistry
