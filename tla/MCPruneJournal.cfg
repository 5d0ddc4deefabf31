SPECIFICATION Spec
CONSTANTS
  Runs = {k1, k2}
  Sessions = {s1}
  Threads = {t1, t2}
  MaxTombstones = 2
  MaxPendingPrunes = 2
  MaxFaults = 1
  None = None
INVARIANT CommittedHasEvidence
PROPERTIES IndexedRunsHaveFiles NeverResurrected RepositorySteps JournalsDrain ClosingSessionsCompact
