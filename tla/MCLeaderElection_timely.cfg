SPECIFICATION FairElection
CONSTANTS
  a = a
  b = b
  Absent = Absent
  Candidates = {a, b}
  LeaseDuration = 8
  RetryPeriod = 1
  MaxDelay = 1
  MaxSkew = 1
  Skew <- SkewOfB
  MaxFaults = 2
  MaxCrashes = 2
INVARIANT LeaderHoldsLease
PROPERTY LeadershipSpec
PROPERTY OnlyFailureDeposes
PROPERTY LeaderEmerges
