SPECIFICATION FairSpec
CONSTANTS
  Managers = {m1, m2}
  MaxReceipts = 2
  MaxGeneration = 0
  MaxVersion = 1
  MaxFaults = 1
  None = None
CHECK_DEADLOCK FALSE

PROPERTIES RestartsFinish
