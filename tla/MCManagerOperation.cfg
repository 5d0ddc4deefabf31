SPECIFICATION FairSpec
CONSTANTS
  Managers = {m1, m2}
  MaxReceipts = 2
  MaxGeneration = 1
  MaxVersion = 2
  MaxFaults = 2
  None = None
CHECK_DEADLOCK FALSE
INVARIANTS FenceHasReceipt CheckpointsHold ServingIsNamed
PROPERTIES StoppedIsStopped RestartReplaces WorkIsSpared EnsureAndStopFinish FenceLifted
