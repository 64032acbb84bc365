--------------------------- MODULE LeaderElection ---------------------------
(***************************************************************************)
(* The Lease-based leader election of the operator's replicas:             *)
(* packages/operator/src/k8s/leader-election.ts.                           *)
(*                                                                         *)
(* Each replica loops: sleep, read the Lease, decide, write it, look at    *)
(* the answer.  Every wait is a step that takes time.  Time is kept as the *)
(* age of what was stamped, which is all the code computes from it         *)
(* (Date.now() - renewTime), and resourceVersion as the set of replicas    *)
(* whose copy is the stored Lease, which is all a conditional write tells. *)
(***************************************************************************)
EXTENDS Integers

CONSTANTS
  Candidates,     \* the operator's replicas
  Absent,         \* holder of the Lease before anybody created it
  LeaseDuration,  \* leaseDurationSeconds
  RetryPeriod,    \* retryPeriodMs
  MaxDelay,       \* bound: time a call, its answer or a timer may be late
  Skew,           \* how far each replica's clock is ahead of the slowest
  MaxSkew,        \* bound: of Skew
  MaxFaults,      \* bound: lease calls that fail or whose answer is lost
  MaxCrashes      \* bound: replicas that die other than by losing the lease

ASSUME CandidatesAssumption == Absent \notin Candidates
ASSUME TimeAssumption ==
  /\ LeaseDuration \in Nat /\ RetryPeriod \in Nat /\ MaxDelay \in 0..LeaseDuration
  /\ MaxSkew \in Nat /\ Skew \in [Candidates -> 0..MaxSkew]
  /\ MaxFaults \in Nat /\ MaxCrashes \in Nat

VARIABLES
  lease,     \* holderIdentity and the age of renewTime
  loop,      \* per replica: where its loop is
  elapsed,   \* how long it has been there
  seen,      \* the Lease it last read
  current,   \* the replicas whose copy still has the stored resourceVersion
  accepted,  \* whether its last write was accepted
  leading,   \* the replicas whose controllers run
  faults, crashes

replicaVars == <<loop, elapsed, seen, accepted, leading>>
electionVars == <<lease, current, replicaVars, faults, crashes>>

LoopSteps == {"sleep", "decide", "write", "answer", "down"}

(* Ages beyond this are told apart by no replica. *)
Horizon == LeaseDuration + MaxSkew + 1

Leases == [holder : Candidates \cup {Absent}, age : 0..Horizon]

ElectionTypeOK ==
  /\ lease \in Leases
  /\ loop \in [Candidates -> LoopSteps]
  /\ elapsed \in [Candidates -> 0..(RetryPeriod + MaxDelay)]
  /\ seen \in [Candidates -> Leases]
  /\ current \subseteq Candidates
  /\ accepted \in [Candidates -> BOOLEAN]
  /\ leading \subseteq Candidates
  /\ faults \in 0..MaxFaults
  /\ crashes \in 0..MaxCrashes

ElectionInit ==
  /\ lease = [holder |-> Absent, age |-> 0]
  /\ loop = [r \in Candidates |-> "sleep"]
  /\ elapsed = [r \in Candidates |-> RetryPeriod]     \* the loop starts with an attempt
  /\ seen = [r \in Candidates |-> lease]
  /\ current = {}
  /\ accepted = [r \in Candidates |-> FALSE]
  /\ leading = {}
  /\ faults = 0 /\ crashes = 0

----------------------------------------------------------------------------
(* Time *)

(* How long a replica may stay where it is. *)
Limit(s) == IF s = "sleep" THEN RetryPeriod + MaxDelay ELSE MaxDelay

Older(age) == IF age < Horizon THEN age + 1 ELSE age

(* One unit of time passes. *)
Elapse ==
  /\ \A r \in Candidates : loop[r] # "down" => elapsed[r] < Limit(loop[r])
  /\ elapsed' = [r \in Candidates |-> IF loop[r] = "down" THEN elapsed[r] ELSE elapsed[r] + 1]
  /\ lease' = [lease EXCEPT !.age = Older(@)]
  /\ seen' = [r \in Candidates |-> [seen[r] EXCEPT !.age = Older(@)]]
  /\ UNCHANGED <<loop, current, accepted, leading, faults, crashes>>

----------------------------------------------------------------------------
(* tryAcquireOrRenew and the loop around it *)

Fault == faults < MaxFaults /\ faults' = faults + 1
NoFault == UNCHANGED faults

MoveTo(r, s) ==
  /\ loop' = [loop EXCEPT ![r] = s]
  /\ elapsed' = [elapsed EXCEPT ![r] = 0]

(* The loop body after an attempt: start the controllers on the first       *)
(* success, exit on the first failure after that, else sleep.               *)
Conclude(r, acquired) ==
  /\ leading' = IF acquired THEN leading \cup {r} ELSE leading \ {r}
  /\ MoveTo(r, IF ~acquired /\ r \in leading THEN "down" ELSE "sleep")

(* readNamespacedLease; a 404 shows as the holder Absent. *)
Read(r) ==
  /\ loop[r] = "sleep" /\ elapsed[r] >= RetryPeriod
  /\ \/ /\ seen' = [seen EXCEPT ![r] = lease]
        /\ current' = current \cup {r}
        /\ MoveTo(r, "decide")
        /\ NoFault /\ UNCHANGED leading
     \/ /\ Fault /\ Conclude(r, FALSE)
        /\ UNCHANGED <<seen, current>>
  /\ UNCHANGED <<lease, accepted, crashes>>

ExpiredAtRetry(r, l) ==
  l.holder \in Candidates /\ l.age + Skew[r] - Skew[l.holder] > RetryPeriod

(* The holder stamped renewTime by its own clock; r compares it with its own. *)
Expired(r, l) ==
  l.holder \in Candidates /\ l.age + Skew[r] - Skew[l.holder] > LeaseDuration

MayTakeNotOwn(r, l) == l.holder = Absent \/ Expired(r, l)

MayTake(r, l) == l.holder \in {Absent, r} \/ Expired(r, l)

(* Give up, or send a create or replace that carries the time as of now. *)
Decide(r) ==
  /\ loop[r] = "decide"
  /\ \/ MayTake(r, seen[r]) /\ MoveTo(r, "write") /\ UNCHANGED leading
     \/ ~MayTake(r, seen[r]) /\ Conclude(r, FALSE)
  /\ UNCHANGED <<lease, seen, current, accepted, faults, crashes>>

AcceptsBlind(r) == TRUE

(* createNamespacedLease needs that there is none, replaceNamespacedLease   *)
(* that it is still the one that was read.                                  *)
Accepts(r) == IF seen[r].holder = Absent THEN lease.holder = Absent ELSE r \in current

(* The time a write carries is that of Decide. *)
AgeOfStamp(r) == elapsed[r]

(* The API server carries the write out. *)
Write(r) ==
  /\ loop[r] = "write"
  /\ \/ /\ Accepts(r) /\ NoFault
        /\ lease' = [holder |-> r, age |-> AgeOfStamp(r)]
        /\ current' = {}
        /\ accepted' = [accepted EXCEPT ![r] = TRUE]
     \/ /\ IF Accepts(r) THEN Fault ELSE NoFault
        /\ accepted' = [accepted EXCEPT ![r] = FALSE]
        /\ UNCHANGED <<lease, current>>
  /\ MoveTo(r, "answer")
  /\ UNCHANGED <<seen, leading, crashes>>

(* Any error, a lost answer included, counts as not acquired. *)
Answer(r) ==
  /\ loop[r] = "answer"
  /\ \/ NoFault /\ Conclude(r, accepted[r])
     \/ accepted[r] /\ Fault /\ Conclude(r, FALSE)
  /\ UNCHANGED <<lease, seen, current, accepted, crashes>>

(* The process dies otherwise, an error of onStartedLeading included. *)
Crash(r) ==
  /\ loop[r] # "down" /\ crashes < MaxCrashes
  /\ crashes' = crashes + 1
  /\ leading' = leading \ {r}
  /\ MoveTo(r, "down")
  /\ UNCHANGED <<lease, seen, current, accepted, faults>>

(* The container is started again under the same POD_NAME. *)
Restart(r) ==
  /\ loop[r] = "down"
  /\ loop' = [loop EXCEPT ![r] = "sleep"]
  /\ elapsed' = [elapsed EXCEPT ![r] = RetryPeriod]
  /\ UNCHANGED <<lease, seen, current, accepted, leading, faults, crashes>>

Attempt(r) == Read(r) \/ Decide(r) \/ Write(r) \/ Answer(r)

ElectionNext == Elapse \/ \E r \in Candidates : Attempt(r) \/ Crash(r) \/ Restart(r)

ElectionSpec == ElectionInit /\ [][ElectionNext]_electionVars

(* Time passes, calls are answered, timers fire and dead pods come back. *)
FairElection ==
  /\ ElectionSpec /\ WF_electionVars(Elapse)
  /\ \A r \in Candidates : WF_electionVars(Attempt(r)) /\ WF_electionVars(Restart(r))

----------------------------------------------------------------------------
(* Properties *)

(* The time from one renewal's stamp to the moment a leader that fails to   *)
(* renew has stopped: two writes, three other waits and a sleep; it has to  *)
(* fit in the lease, whoever reads the clock.                               *)
Timely ==
  \A r, h \in Candidates : RetryPeriod + 6 * MaxDelay + Skew[r] - Skew[h] <= LeaseDuration

Elected == INSTANCE Leadership WITH Replicas <- Candidates, leaders <- leading

(* leader-election.ts, main.ts: the controllers never run in two replicas. *)
LeadershipSpec == Elected!Spec

(* No replica is deposed by the election itself: a leader's lease is never  *)
(* taken while its controllers run, and it stops only after a failure.      *)
LeaderHoldsLease == \A r \in leading : lease.holder = r

OnlyFailureDeposes ==
  [][faults' = 0 /\ crashes' = 0 => leading \subseteq leading']_electionVars

(* When calls stop failing the replicas agree on a leader for good, also    *)
(* when the last one died holding the lease.                                *)
LeaderEmerges == <>[](leading # {})
=============================================================================
