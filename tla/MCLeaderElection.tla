-------------------------- MODULE MCLeaderElection --------------------------
(* Two replicas, the second one's clock ahead of the first one's.          *)
EXTENDS LeaderElection

CONSTANTS a, b

SkewOfB == [r \in Candidates |-> IF r = b THEN MaxSkew ELSE 0]
=============================================================================
