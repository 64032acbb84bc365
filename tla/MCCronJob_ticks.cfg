SPECIFICATION FairSpec
CONSTANTS
  Replicas = {a}
  Policies = {"Allow", "Forbid", "Replace"}
  SuccessfulLimit = 1
  FailedLimit = 0
  MaxTimes = 2
  MaxUserActions = 1
  MaxFailures = 1
INVARIANT NoBurst
INVARIANT ConcurrencyPolicy
PROPERTY ScheduleCatchesUp
