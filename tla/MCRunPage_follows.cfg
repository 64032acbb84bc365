SPECIFICATION FairPage
CONSTANTS
  Shards = {1, 2}
  MaxRuns = 2
  MaxMoves = 3
  MaxPageFaults = 1
CHECK_DEADLOCK FALSE
 
PROPERTY PageShowsLog
