SPECIFICATION Spec
CONSTANTS
  Keys = {k1}
  Sessions = {a}
  manager = manager
  client = client
  Processes = {manager, client}
  None = None
  MaxRevision = 3
  Settings <- SharedOrSpoilt
INVARIANTS
  FilesAgree
PROPERTIES
  ActsAtomically
  ReadsAreMonotone
CHECK_DEADLOCK FALSE
