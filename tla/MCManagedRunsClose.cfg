SPECIFICATION FairSpec
CONSTANTS
  web = web
  Keys = {k1}
  Services = {web}
  ServiceOf <- MCServiceOf
  Sessions = {a}
  Instances = {m1}
  Operations = {op}
  ClaimIds = {c1, c2}
  Threads = {t1, t2}
  Readers = {t1, t2}
  Backends = {"cgroup", "group"}
  Children = {}
  HostMayDie = TRUE
  MaxActiveRuns = 1
  MaxOpenSessions = 1
  MaxSessionRecords = 1
  MaxPendingPrunes = 1
  MaxTombstones = 2
  None = None
PROPERTIES
  UndisturbedSessionsClose
CHECK_DEADLOCK FALSE
