SPECIFICATION FairSpec
CONSTANTS
  Inventories <- All
  FirstInventory <- Nobody
  Edits <- Moving
  MaxAmountOfHosts = 1
  MaxConcurrentRuns = 2
  Workers = {w1}
  Env = {"fault", "cancel", "drift"}
  MaxFaults = 1
  MaxCrashes = 1
INVARIANT ConcurrencyLimit
 
 
INVARIANT ResultOfAllShards
PROPERTY ParallelRunFinishes
