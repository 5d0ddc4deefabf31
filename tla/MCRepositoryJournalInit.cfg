SPECIFICATION Spec
CONSTANTS
  Keys = {k1}
  Sessions = {a}
  manager = manager
  client = client
  Processes = {manager, client}
  None = None
  MaxRevision = 3
  Settings <- OnlyFresh
PROPERTY
  ActsAtomically
CHECK_DEADLOCK FALSE
