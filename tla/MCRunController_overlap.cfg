SPECIFICATION FairSpec
CONSTANTS
  Workers = {w1, w2}
  Env = {"overlap", "outage", "tamper"}
  MaxLag = 1
  MaxFaults = 0
  MaxCrashes = 0
  S3 = FALSE
INVARIANT OutcomeIsReal
PROPERTY CancelStopsRun
