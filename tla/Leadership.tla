----------------------------- MODULE Leadership -----------------------------
(***************************************************************************)
(* What leader election promises the rest of the operator                  *)
(* (k8s/leader-election.ts, deploy notes): controllers run in at most one  *)
(* replica at a time.  LeaderElection is the detailed specification, and   *)
(* CronJob is written over this one.                                       *)
(***************************************************************************)
CONSTANT Replicas
VARIABLE leaders   \* the replicas whose controllers run

Init == leaders = {}

StartLeading(r) == leaders = {} /\ leaders' = {r}

StopLeading(r) == r \in leaders /\ leaders' = leaders \ {r}

Next == \E r \in Replicas : StartLeading(r) \/ StopLeading(r)

Spec == Init /\ [][Next]_leaders
=============================================================================
