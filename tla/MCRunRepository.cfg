SPECIFICATION Spec
CONSTANTS
  web = web
  Keys = {k1, k2}
  Services = {web}
  ServiceOf <- MCServiceOf
  Sessions = {a}
  Instances = {m1, m2}
  Operations = {op}
  ClaimIds = {c1, c2}
  Readers = {}
  MaxActiveRuns = 2
  MaxOpenSessions = 1
  MaxSessionRecords = 1
  MaxPendingPrunes = 1
  MaxTombstones = 2
  None = None
INVARIANTS
  TypeOK
  StateValid
  TombstonesBounded
PROPERTIES
  TerminalIsFinal
  ClosingSessionDrains
  GenerationSeesWork
  KeepsIntake
CHECK_DEADLOCK FALSE
