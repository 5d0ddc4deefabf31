SPECIFICATION FairSpec
CONSTANTS
  q1 = q1
  q2 = q2
  r1 = r1
  Requests = {q1, q2}
  Runs = {r1}
  Payload <- MCPayload
  HistoryLimit = 2
  MaxCrashes = 1
  None = None
INVARIANT
  OutcomesHonest
PROPERTIES
  NeverReplayed
  FinishedRunStays
  OperationsEnd
