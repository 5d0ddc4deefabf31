SPECIFICATION FairSpec
CONSTANTS
  s1 = s1  s2 = s2  v1 = v1  v2 = v2  p1 = p1  p2 = p2  x1 = x1  x2 = x2
  Stages = {s1, s2}
  Validations = {v1, v2}
  Criteria = {x1, x2}
  Paths = {p1, p2}
  Contracts <- MCContracts
  Terms <- MCTerms
  Authorizations = {TRUE}
  MaxVersion = 1
  MaxEdited = 1
  MaxAttempts = 2
  MaxRevision = 2
  MaxFaults = 1
  None = None
CHECK_DEADLOCK FALSE
INVARIANTS ReceiptTrue OneReviewer EvidenceStands CompletedProved
PROPERTIES NothingLost AcceptedWork TaskEnds DriftRepaired
