SPECIFICATION ManagedSpec
CONSTANTS
  web = web
  Keys = {k1}
  Services = {web}
  ServiceOf <- MCServiceOf
  Sessions = {a}
  Instances = {m1}
  Operations = {op}
  ClaimIds = {c1, c2, c3}
  Threads = {t1, t2}
  Readers = {t1, t2}
  Backends = {"group"}
  Children = {"child"}
  HostMayDie = FALSE
  MaxActiveRuns = 1
  MaxOpenSessions = 1
  MaxSessionRecords = 1
  MaxPendingPrunes = 1
  MaxTombstones = 2
  None = None
SYMMETRY ThreadSymmetry
INVARIANTS
  NoOrphans
CHECK_DEADLOCK FALSE
