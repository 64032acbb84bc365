SPECIFICATION FairSpec
CONSTANTS
  Objects = 2
  Initially = 1
  MaxVersion = 3
  MaxFaults = 1
  MaxLists = 2
  MaxRuns = 1
INVARIANTS NoLostWakeup
PROPERTIES QueueSettles
