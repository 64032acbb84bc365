SPECIFICATION FairSpec
CONSTANTS
  Workers = {w1}
  Env = {"fault"}
  MaxLag = 3
  MaxFaults = 2
  MaxCrashes = 2
  S3 = TRUE
INVARIANT OneJobPerRun
 
INVARIANT ReportedRunIsArchived
PROPERTY LifecycleSpec
PROPERTY ReadyRunFinishes
