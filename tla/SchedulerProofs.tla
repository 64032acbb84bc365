--------------------------- MODULE SchedulerProofs ---------------------------
(***************************************************************************)
(* The scheduler of AnsibleJobs and the election of the replica that runs  *)
(* it (operator/src/k8s/leader-election.ts and                             *)
(* operator/src/controllers/ansiblejob-controller.ts), for any number of   *)
(* replicas, clocks, scheduled times, user actions and failures.           *)
(***************************************************************************)
EXTENDS LeaderElection, CronJob, FiniteSetTheorems, SequenceTheorems, TLAPS

(***************************************************************************)
(* LeaderElection: as long as calls and timers are late by no more than    *)
(* fits in the lease (Timely), the Lease keeps the controllers to one      *)
(* replica, that is LeaderElection implements Leadership.                  *)
(***************************************************************************)
(* Nobody waits longer than the bound of the step it is at. *)
Bounded == \A r \in Candidates : elapsed[r] <= Limit(loop[r])

(* A copy with the stored resourceVersion is the stored Lease. *)
CopiesMatch == \A r \in current : seen[r] = lease

(* A write that is under way was decided on the copy it is based on. *)
WritesDecided == \A r \in Candidates : loop[r] = "write" => MayTake(r, seen[r])

(* A replica whose controllers run, or that is about to learn they may.     *)
Owner(r) == r \in leading \/ (loop[r] = "answer" /\ accepted[r])

(* The stamp of an owner's Lease is no older than the waits since Decide.   *)
Fresh(r) ==
  /\ loop[r] = "answer" /\ accepted[r] => lease.age <= MaxDelay + elapsed[r]
  /\ loop[r] = "sleep"  => lease.age <= 2 * MaxDelay + elapsed[r]
  /\ loop[r] = "decide" => lease.age <= RetryPeriod + 3 * MaxDelay + elapsed[r]
  /\ loop[r] = "write"  => lease.age <= RetryPeriod + 4 * MaxDelay + elapsed[r]
  /\ loop[r] = "answer" => lease.age <= RetryPeriod + 5 * MaxDelay + elapsed[r]

OwnersHold ==
  \A r \in Candidates : Owner(r) => loop[r] # "down" /\ lease.holder = r /\ Fresh(r)

BoundedTypes == ElectionTypeOK /\ Bounded
ElectionInv == BoundedTypes /\ CopiesMatch /\ WritesDecided /\ OwnersHold

----------------------------------------------------------------------------
(* No step's bound exceeds that of the sleep between attempts. *)
LEMMA LimitType == \A s : Limit(s) \in 0..(RetryPeriod + MaxDelay)
BY TimeAssumption DEF Limit

(* Ages grow by at most one and stay within the horizon. *)
LEMMA OlderType == \A age \in 0..Horizon : Older(age) \in 0..Horizon /\ Older(age) <= age + 1
                                             /\ age <= Older(age)
BY TimeAssumption DEF Older, Horizon

(* Where Goto leaves a replica, and that it leaves the others alone. *)
LEMMA MoveToBounded ==
  ASSUME NEW r \in Candidates, NEW s \in LoopSteps, BoundedTypes, MoveTo(r, s)
  PROVE  /\ loop' \in [Candidates -> LoopSteps]
         /\ elapsed' \in [Candidates -> 0..(RetryPeriod + MaxDelay)]
         /\ \A q \in Candidates : elapsed'[q] <= Limit(loop'[q])
         /\ loop'[r] = s /\ elapsed'[r] = 0
         /\ \A q \in Candidates \ {r} : loop'[q] = loop[q] /\ elapsed'[q] = elapsed[q]
BY TimeAssumption, LimitType DEF BoundedTypes, ElectionTypeOK, Bounded, MoveTo

(* The type invariant, with the bound on how long a step lasts that makes   *)
(* the age of a write's stamp one of the ages of a Lease.                   *)
LEMMA BoundedTypesStep == BoundedTypes /\ [ElectionNext]_electionVars => BoundedTypes'
<1> SUFFICES ASSUME BoundedTypes, [ElectionNext]_electionVars PROVE BoundedTypes'
  OBVIOUS
<1> USE DEF BoundedTypes
<1>1. CASE Elapse
  <2>1. lease' \in Leases /\ seen' \in [Candidates -> Leases]
    BY <1>1, OlderType DEF Elapse, ElectionTypeOK, Leases
  <2>2. /\ elapsed' \in [Candidates -> 0..(RetryPeriod + MaxDelay)]
        /\ \A r \in Candidates : elapsed'[r] <= Limit(loop'[r])
    <3>1. ASSUME NEW r \in Candidates
          PROVE  elapsed'[r] \in 0..(RetryPeriod + MaxDelay) /\ elapsed'[r] <= Limit(loop[r])
      <4>1. elapsed[r] \in Nat /\ elapsed[r] <= Limit(loop[r])
        BY DEF ElectionTypeOK, Bounded
      <4>2. elapsed'[r] = IF loop[r] = "down" THEN elapsed[r] ELSE elapsed[r] + 1
        BY <1>1 DEF Elapse
      <4>3. loop[r] # "down" => elapsed[r] < Limit(loop[r])
        BY <1>1 DEF Elapse
      <4>4. Limit(loop[r]) \in 0..(RetryPeriod + MaxDelay)
        BY LimitType
      <4> QED BY <4>1, <4>2, <4>3, <4>4, TimeAssumption
    <3>2. loop' = loop
      BY <1>1 DEF Elapse
    <3>3. elapsed' = [r \in Candidates |-> elapsed'[r]]
      BY <1>1 DEF Elapse
    <3> QED BY <3>1, <3>2, <3>3
  <2>3. UNCHANGED <<loop, current, accepted, leading, faults, crashes>>
    BY <1>1 DEF Elapse
  <2> QED BY <2>1, <2>2, <2>3 DEF ElectionTypeOK, Bounded
<1>2. ASSUME NEW r \in Candidates, NEW acquired \in BOOLEAN, Conclude(r, acquired)
      PROVE  /\ loop' \in [Candidates -> LoopSteps]
             /\ elapsed' \in [Candidates -> 0..(RetryPeriod + MaxDelay)]
             /\ \A q \in Candidates : elapsed'[q] <= Limit(loop'[q])
             /\ leading' \subseteq Candidates
  <2>1. PICK s \in {"down", "sleep"} : MoveTo(r, s)
    BY <1>2 DEF Conclude
  <2>2. leading' \subseteq Candidates
    BY <1>2 DEF Conclude, ElectionTypeOK
  <2> QED BY <2>1, <2>2, MoveToBounded DEF LoopSteps
<1>3. Fault \/ NoFault => faults' \in 0..MaxFaults
  BY TimeAssumption DEF Fault, NoFault, ElectionTypeOK
<1>4. ASSUME NEW r \in Candidates, Read(r) PROVE BoundedTypes'
  <2>1. CASE MoveTo(r, "decide") /\ NoFault /\ UNCHANGED leading
             /\ seen' = [seen EXCEPT ![r] = lease] /\ current' = current \cup {r}
    BY <1>4, <1>3, <2>1, MoveToBounded DEF Read, ElectionTypeOK, Bounded, LoopSteps
  <2>2. CASE Fault /\ Conclude(r, FALSE) /\ UNCHANGED <<seen, current>>
    BY <1>4, <1>3, <2>2, <1>2 DEF Read, ElectionTypeOK, Bounded
  <2> QED BY <1>4, <2>1, <2>2 DEF Read
<1>5. ASSUME NEW r \in Candidates, Decide(r) PROVE BoundedTypes'
  <2>1. CASE MoveTo(r, "write") /\ UNCHANGED leading
    BY <1>5, <2>1, MoveToBounded DEF Decide, ElectionTypeOK, Bounded, LoopSteps
  <2>2. CASE Conclude(r, FALSE)
    BY <1>5, <2>2, <1>2 DEF Decide, ElectionTypeOK, Bounded
  <2> QED BY <1>5, <2>1, <2>2 DEF Decide
<1>6. ASSUME NEW r \in Candidates, Write(r) PROVE BoundedTypes'
  <2>1. MoveTo(r, "answer") /\ UNCHANGED <<seen, leading, crashes>>
    BY <1>6 DEF Write
  <2>2. faults' \in 0..MaxFaults
    BY <1>6, <1>3 DEF Write
  <2>3. lease' \in Leases /\ current' \subseteq Candidates
    <3>1. elapsed[r] \in 0..Horizon
      BY <1>6, TimeAssumption DEF Write, ElectionTypeOK, Bounded, Limit, Horizon
    <3> QED BY <1>6, <3>1 DEF Write, ElectionTypeOK, Leases, AgeOfStamp
  <2>4. accepted' \in [Candidates -> BOOLEAN]
    BY <1>6 DEF Write, ElectionTypeOK
  <2> QED BY <2>1, <2>2, <2>3, <2>4, MoveToBounded DEF ElectionTypeOK, Bounded, LoopSteps
<1>7. ASSUME NEW r \in Candidates, Answer(r) PROVE BoundedTypes'
  <2>1. PICK a \in BOOLEAN : Conclude(r, a)
    BY <1>7 DEF Answer, ElectionTypeOK
  <2> QED BY <1>7, <2>1, <1>2, <1>3 DEF Answer, ElectionTypeOK, Bounded
<1>8. ASSUME NEW r \in Candidates, Crash(r) PROVE BoundedTypes'
  <2>1. crashes' \in 0..MaxCrashes /\ leading' \subseteq Candidates
    BY <1>8, TimeAssumption DEF Crash, ElectionTypeOK
  <2> QED BY <1>8, <2>1, MoveToBounded DEF Crash, ElectionTypeOK, Bounded, LoopSteps
<1>9. ASSUME NEW r \in Candidates, Restart(r) PROVE BoundedTypes'
  BY <1>9, TimeAssumption DEF Restart, ElectionTypeOK, Bounded, Limit, LoopSteps
<1>10. CASE UNCHANGED electionVars
  BY <1>10 DEF electionVars, replicaVars, ElectionTypeOK, Bounded
<1> QED BY <1>1, <1>4, <1>5, <1>6, <1>7, <1>8, <1>9, <1>10 DEF ElectionNext, Attempt

(* The type invariant holds at the start. *)
LEMMA BoundedTypesInit == ElectionInit => BoundedTypes
<1> SUFFICES ASSUME ElectionInit PROVE BoundedTypes
  OBVIOUS
<1>1. lease \in Leases
  BY TimeAssumption DEF ElectionInit, Leases, Horizon
<1>2. ElectionTypeOK
  BY <1>1, TimeAssumption DEF ElectionInit, ElectionTypeOK, LoopSteps
<1>3. ASSUME NEW r \in Candidates PROVE elapsed[r] <= Limit(loop[r])
  <2>1. elapsed[r] = RetryPeriod /\ loop[r] = "sleep"
    BY DEF ElectionInit
  <2> QED BY <2>1, TimeAssumption DEF Limit
<1> QED BY <1>2, <1>3 DEF BoundedTypes, Bounded

(* Every variable of the election keeps its type, for all replicas, delays, *)
(* clocks and failures.                                                     *)
THEOREM ElectionTypeCorrect == ElectionSpec => []ElectionTypeOK
<1>1. ElectionSpec => []BoundedTypes
  BY BoundedTypesInit, BoundedTypesStep, PTL DEF ElectionSpec
<1>2. BoundedTypes => ElectionTypeOK
  BY DEF BoundedTypes
<1> QED BY <1>1, <1>2, PTL

----------------------------------------------------------------------------
(* Within one attempt an owner's stamp never gets older than the lease can  *)
(* stand: the sum that Timely compares with LeaseDuration.                  *)
LEMMA OwnerAge ==
  ASSUME ElectionInv, NEW r \in Candidates, Owner(r)
  PROVE  lease.holder = r /\ lease.age <= RetryPeriod + 6 * MaxDelay
<1>1. loop[r] \in LoopSteps \ {"down"} /\ lease.holder = r /\ Fresh(r)
  BY DEF ElectionInv, BoundedTypes, ElectionTypeOK, OwnersHold
<1>2. elapsed[r] \in Nat /\ elapsed[r] <= Limit(loop[r])
  BY DEF ElectionInv, BoundedTypes, ElectionTypeOK, Bounded
<1>3. lease.age \in Nat
  BY DEF ElectionInv, BoundedTypes, ElectionTypeOK, Leases
<1> QED BY <1>1, <1>2, <1>3, TimeAssumption DEF Fresh, Limit, LoopSteps

(* No write of another replica is accepted while an owner holds the Lease.  *)
LEMMA OwnerUndisturbed ==
  ASSUME Timely, ElectionInv, NEW r \in Candidates, NEW s \in Candidates, Owner(s),
         loop[r] = "write", Accepts(r)
  PROVE  r = s
<1> SUFFICES ASSUME r # s PROVE FALSE
  OBVIOUS
<1>1. lease.holder = s /\ lease.age <= RetryPeriod + 6 * MaxDelay
  BY OwnerAge
<1>2. seen[r].holder # Absent /\ r \in current
  BY <1>1, CandidatesAssumption DEF Accepts
<1>3. seen[r] = lease
  BY <1>2 DEF ElectionInv, CopiesMatch
<1>4. Expired(r, lease)
  BY <1>1, <1>2, <1>3 DEF ElectionInv, WritesDecided, MayTake
<1>5. lease.age + Skew[r] - Skew[s] > LeaseDuration
  BY <1>1, <1>4 DEF Expired
<1>6. RetryPeriod + 6 * MaxDelay + Skew[r] - Skew[s] <= LeaseDuration
  BY DEF Timely
<1>7. lease.age \in Nat /\ Skew[r] \in Nat /\ Skew[s] \in Nat
  BY TimeAssumption DEF ElectionInv, BoundedTypes, ElectionTypeOK, Leases
<1> QED BY <1>1, <1>5, <1>6, <1>7, TimeAssumption

(* The inductive invariant holds at the start: there is no owner yet. *)
LEMMA ElectionInvInit == ElectionInit => ElectionInv
BY BoundedTypesInit DEF ElectionInit, ElectionInv, CopiesMatch, WritesDecided, OwnersHold, Owner

(* Every step keeps the inductive invariant: an owner's Lease is fresh, and *)
(* what others are about to write was decided on older ones.                *)
LEMMA ElectionInvStep ==
  ASSUME Timely, ElectionInv, [ElectionNext]_electionVars
  PROVE  ElectionInv'
<1>0. BoundedTypes'
  BY BoundedTypesStep DEF ElectionInv
<1> USE DEF ElectionInv
<1>1. CASE Elapse
  <2>1. CopiesMatch'
    BY <1>1 DEF Elapse, CopiesMatch, BoundedTypes, ElectionTypeOK, Leases
  <2>2. WritesDecided'
    <3> SUFFICES ASSUME NEW r \in Candidates, loop[r] = "write" PROVE MayTake(r, seen'[r])
      BY <1>1 DEF Elapse, WritesDecided, MayTake, Expired
    <3>1. MayTake(r, seen[r])
      BY DEF WritesDecided
    <3>2. seen[r] \in Leases
      BY DEF BoundedTypes, ElectionTypeOK
    <3>3. seen'[r] = [seen[r] EXCEPT !.age = Older(@)]
      BY <1>1 DEF Elapse
    <3>4. seen'[r].holder = seen[r].holder /\ seen'[r].age = Older(seen[r].age)
      BY <3>2, <3>3 DEF Leases
    <3>5. seen[r].age \in Nat /\ seen'[r].age \in Nat /\ seen[r].age <= seen'[r].age
      BY <3>2, <3>4, OlderType DEF Leases
    <3>6. ASSUME Expired(r, seen[r]) PROVE Expired(r, seen'[r])
      <4>1. seen[r].holder \in Candidates
        BY <3>6 DEF Expired
      <4>2. Skew[r] \in Nat /\ Skew[seen[r].holder] \in Nat
        BY <4>1, TimeAssumption
      <4> QED BY <3>4, <3>5, <3>6, <4>1, <4>2, TimeAssumption DEF Expired
    <3> QED BY <3>1, <3>4, <3>6 DEF MayTake
  <2>3. OwnersHold'
    <3> SUFFICES ASSUME NEW r \in Candidates, Owner(r)
                 PROVE  /\ loop'[r] # "down" /\ lease'.holder = r
                        /\ Fresh(r)'
      BY <1>1 DEF Elapse, OwnersHold, Owner
    <3>1. loop[r] # "down" /\ lease.holder = r /\ Fresh(r)
      BY DEF OwnersHold
    <3>2. loop' = loop /\ accepted' = accepted /\ elapsed'[r] = elapsed[r] + 1
      BY <1>1, <3>1 DEF Elapse
    <3>3. lease \in Leases /\ elapsed[r] \in Nat
      BY DEF BoundedTypes, ElectionTypeOK
    <3>4. lease'.holder = lease.holder /\ lease'.age = Older(lease.age)
      BY <1>1, <3>3 DEF Elapse, Leases
    <3>5. lease.age \in Nat /\ lease'.age \in Nat /\ lease'.age <= lease.age + 1
      BY <3>3, <3>4, OlderType DEF Leases
    <3>6. Fresh(r)'
      BY <3>1, <3>2, <3>3, <3>5, TimeAssumption DEF Fresh
    <3> QED BY <3>1, <3>2, <3>4, <3>6
  <2> QED BY <1>0, <2>1, <2>2, <2>3
<1>2. ASSUME NEW r \in Candidates, NEW q \in Candidates \ {r}, NEW t \in LoopSteps, MoveTo(r, t),
             lease' = lease, accepted'[q] = accepted[q], q \in leading' => q \in leading
      PROVE  /\ Owner(q)' => loop'[q] # "down" /\ lease'.holder = q /\ Fresh(q)'
             /\ loop'[q] = loop[q]
  <2>1. loop'[q] = loop[q] /\ elapsed'[q] = elapsed[q]
    BY <1>2, MoveToBounded
  <2>2. Owner(q)' => Owner(q)
    BY <1>2, <2>1 DEF Owner
  <2>3. Fresh(q) => Fresh(q)'
    BY <1>2, <2>1 DEF Fresh
  <2> QED BY <1>2, <2>1, <2>2, <2>3 DEF OwnersHold
<1>3. ASSUME NEW r \in Candidates, NEW a \in BOOLEAN, Conclude(r, a)
      PROVE  /\ \E t \in LoopSteps : MoveTo(r, t)
             /\ \A q \in Candidates \ {r} : q \in leading' => q \in leading
             /\ loop'[r] \in {"sleep", "down"} /\ elapsed'[r] = 0
             /\ r \in leading' <=> a
             /\ a => loop'[r] = "sleep"
  <2>1. PICK t \in {"sleep", "down"} : MoveTo(r, t) /\ (a => t = "sleep")
    BY <1>3 DEF Conclude
  <2>2. loop'[r] = t /\ elapsed'[r] = 0
    BY <2>1, MoveToBounded DEF LoopSteps
  <2>3. /\ \A q \in Candidates \ {r} : q \in leading' => q \in leading
        /\ r \in leading' <=> a
    BY <1>3 DEF Conclude
  <2> QED BY <2>1, <2>2, <2>3 DEF LoopSteps
<1>4. ASSUME NEW r \in Candidates, Read(r) PROVE ElectionInv'
  <2>1. CASE /\ seen' = [seen EXCEPT ![r] = lease] /\ current' = current \cup {r}
             /\ MoveTo(r, "decide") /\ UNCHANGED leading
    <3>1. lease' = lease /\ accepted' = accepted
      BY <1>4 DEF Read
    <3>2. CopiesMatch'
      BY <2>1, <3>1 DEF CopiesMatch, BoundedTypes, ElectionTypeOK
    <3>3. loop'[r] = "decide" /\ elapsed'[r] = 0
      BY <2>1, MoveToBounded DEF LoopSteps
    <3>4. WritesDecided'
      BY <2>1, <3>3, <3>1, <1>2 DEF WritesDecided, MayTake, Expired, BoundedTypes, ElectionTypeOK, LoopSteps
    <3>5. ASSUME Owner(r)' PROVE lease'.holder = r /\ Fresh(r)'
      <4>1. Owner(r) /\ loop[r] = "sleep"
        BY <1>4, <2>1, <3>3, <3>5 DEF Owner, Read
      <4>2. lease.holder = r /\ lease.age <= 2 * MaxDelay + elapsed[r]
        BY <4>1 DEF OwnersHold, Fresh
      <4>3. elapsed[r] \in Nat /\ elapsed[r] <= RetryPeriod + MaxDelay /\ lease.age \in Nat
        BY <4>1 DEF BoundedTypes, ElectionTypeOK, Bounded, Limit, Leases
      <4> QED BY <3>1, <3>3, <4>2, <4>3, TimeAssumption DEF Fresh
    <3>6. OwnersHold'
      BY <2>1, <3>1, <3>3, <3>5, <1>2 DEF OwnersHold, LoopSteps
    <3> QED BY <1>0, <3>2, <3>4, <3>6
  <2>2. CASE Conclude(r, FALSE) /\ UNCHANGED <<seen, current>>
    <3>1. lease' = lease /\ accepted' = accepted
      BY <1>4 DEF Read
    <3>2. CopiesMatch'
      BY <2>2, <3>1 DEF CopiesMatch
    <3>3. PICK t \in LoopSteps : MoveTo(r, t)
      BY <2>2, <1>3
    <3>4. r \notin leading' /\ loop'[r] \in {"sleep", "down"}
      BY <2>2, <1>3
    <3>5. WritesDecided'
      BY <2>2, <3>1, <3>3, <3>4, <1>2, <1>3 DEF WritesDecided, MayTake, Expired
    <3>6. OwnersHold'
      BY <2>2, <3>1, <3>3, <3>4, <1>2, <1>3 DEF OwnersHold, Owner
    <3> QED BY <1>0, <3>2, <3>5, <3>6
  <2> QED BY <1>4, <2>1, <2>2 DEF Read
<1>5. ASSUME NEW r \in Candidates, Decide(r) PROVE ElectionInv'
  <2>0. UNCHANGED <<lease, seen, current, accepted>>
    BY <1>5 DEF Decide
  <2>1. CopiesMatch'
    BY <2>0 DEF CopiesMatch
  <2>2. CASE MayTake(r, seen[r]) /\ MoveTo(r, "write") /\ UNCHANGED leading
    <3>1. loop'[r] = "write" /\ elapsed'[r] = 0
      BY <2>2, MoveToBounded DEF LoopSteps
    <3>2. WritesDecided'
      BY <2>0, <2>2, <3>1, <1>2 DEF WritesDecided, MayTake, Expired, LoopSteps
    <3>3. ASSUME Owner(r)' PROVE lease'.holder = r /\ Fresh(r)'
      <4>1. Owner(r) /\ loop[r] = "decide"
        BY <1>5, <2>2, <3>1, <3>3 DEF Owner, Decide
      <4>2. lease.holder = r /\ lease.age <= RetryPeriod + 3 * MaxDelay + elapsed[r]
        BY <4>1 DEF OwnersHold, Fresh
      <4>3. elapsed[r] \in Nat /\ elapsed[r] <= MaxDelay /\ lease.age \in Nat
        BY <4>1 DEF BoundedTypes, ElectionTypeOK, Bounded, Limit, Leases
      <4> QED BY <2>0, <3>1, <4>2, <4>3, TimeAssumption DEF Fresh
    <3>4. OwnersHold'
      BY <2>0, <2>2, <3>1, <3>3, <1>2 DEF OwnersHold, LoopSteps
    <3> QED BY <1>0, <2>1, <3>2, <3>4
  <2>3. CASE Conclude(r, FALSE)
    <3>3. PICK t \in LoopSteps : MoveTo(r, t)
      BY <2>3, <1>3
    <3>4. r \notin leading' /\ loop'[r] \in {"sleep", "down"}
      BY <2>3, <1>3
    <3>5. WritesDecided'
      BY <2>3, <2>0, <3>3, <3>4, <1>2, <1>3 DEF WritesDecided, MayTake, Expired
    <3>6. OwnersHold'
      BY <2>3, <2>0, <3>3, <3>4, <1>2, <1>3 DEF OwnersHold, Owner
    <3> QED BY <1>0, <2>1, <3>5, <3>6
  <2> QED BY <1>5, <2>2, <2>3 DEF Decide
<1>6. ASSUME NEW r \in Candidates, Write(r) PROVE ElectionInv'
  <2>0. MoveTo(r, "answer") /\ UNCHANGED <<seen, leading>> /\ loop[r] = "write"
    BY <1>6 DEF Write
  <2>1. loop'[r] = "answer" /\ elapsed'[r] = 0 /\ elapsed[r] \in 0..MaxDelay
    BY <2>0, MoveToBounded DEF LoopSteps, BoundedTypes, ElectionTypeOK, Bounded, Limit
  <2>2. \A q \in Candidates \ {r} : loop'[q] = loop[q] /\ elapsed'[q] = elapsed[q]
    BY <2>0, MoveToBounded DEF LoopSteps
  <2>3. WritesDecided'
    BY <2>0, <2>1, <2>2 DEF WritesDecided, MayTake, Expired
  <2>4. CASE /\ Accepts(r) /\ lease' = [holder |-> r, age |-> AgeOfStamp(r)]
             /\ current' = {} /\ accepted' = [accepted EXCEPT ![r] = TRUE]
    <3>1. CopiesMatch'
      BY <2>4 DEF CopiesMatch
    <3>2. ASSUME NEW q \in Candidates, Owner(q)' PROVE q = r
      <4>1. q # r => Owner(q)
        BY <2>0, <2>2, <2>4, <3>2 DEF Owner, BoundedTypes, ElectionTypeOK
      <4> QED BY <2>0, <2>4, <4>1, OwnerUndisturbed
    <3>3. Fresh(r)'
      BY <2>1, <2>4, TimeAssumption DEF Fresh, AgeOfStamp
    <3>4. OwnersHold'
      BY <2>1, <2>4, <3>2, <3>3 DEF OwnersHold
    <3> QED BY <1>0, <2>3, <3>1, <3>4
  <2>5. CASE accepted' = [accepted EXCEPT ![r] = FALSE] /\ UNCHANGED <<lease, current>>
    <3>1. CopiesMatch'
      BY <2>0, <2>5 DEF CopiesMatch
    <3>2. accepted'[r] = FALSE
      BY <2>5 DEF BoundedTypes, ElectionTypeOK
    <3>3. ASSUME Owner(r)' PROVE lease'.holder = r /\ Fresh(r)'
      <4>1. Owner(r)
        BY <2>0, <3>2, <3>3 DEF Owner
      <4>2. lease.holder = r /\ lease.age <= RetryPeriod + 4 * MaxDelay + elapsed[r]
        BY <2>0, <4>1 DEF OwnersHold, Fresh
      <4>3. lease.age \in Nat
        BY DEF BoundedTypes, ElectionTypeOK, Leases
      <4> QED BY <2>1, <2>5, <3>2, <4>2, <4>3, TimeAssumption DEF Fresh
    <3>4. \A q \in Candidates \ {r} : accepted'[q] = accepted[q]
      BY <2>5 DEF BoundedTypes, ElectionTypeOK
    <3>5. OwnersHold'
      BY <2>0, <2>1, <2>5, <3>3, <3>4, <1>2 DEF OwnersHold, LoopSteps
    <3> QED BY <1>0, <2>3, <3>1, <3>5
  <2> QED BY <1>6, <2>4, <2>5 DEF Write
<1>7. ASSUME NEW r \in Candidates, Answer(r) PROVE ElectionInv'
  <2>0. UNCHANGED <<lease, seen, current, accepted>> /\ loop[r] = "answer"
    BY <1>7 DEF Answer
  <2>1. PICK a \in BOOLEAN : Conclude(r, a) /\ (a => accepted[r])
    BY <1>7 DEF Answer, BoundedTypes, ElectionTypeOK
  <2>2. CopiesMatch'
    BY <2>0 DEF CopiesMatch
  <2>3. PICK t \in LoopSteps : MoveTo(r, t)
    BY <2>1, <1>3
  <2>4. loop'[r] \in {"sleep", "down"} /\ elapsed'[r] = 0 /\ (a => loop'[r] = "sleep")
        /\ (r \in leading' <=> a)
    BY <2>1, <1>3
  <2>5. WritesDecided'
    BY <2>0, <2>1, <2>3, <2>4, <1>2, <1>3 DEF WritesDecided, MayTake, Expired
  <2>6. ASSUME Owner(r)' PROVE loop'[r] # "down" /\ lease'.holder = r /\ Fresh(r)'
    <3>1. a /\ accepted[r] /\ loop'[r] = "sleep"
      BY <2>1, <2>4, <2>6 DEF Owner
    <3>2. lease.holder = r /\ lease.age <= MaxDelay + elapsed[r]
      BY <2>0, <3>1 DEF OwnersHold, Owner, Fresh
    <3>3. elapsed[r] \in 0..MaxDelay /\ lease.age \in Nat
      BY <2>0 DEF BoundedTypes, ElectionTypeOK, Bounded, Limit, Leases
    <3> QED BY <2>0, <2>4, <3>1, <3>2, <3>3, TimeAssumption DEF Fresh
  <2>7. OwnersHold'
    BY <2>0, <2>1, <2>3, <2>6, <1>2, <1>3 DEF OwnersHold
  <2> QED BY <1>0, <2>2, <2>5, <2>7
<1>8. ASSUME NEW r \in Candidates, Crash(r) PROVE ElectionInv'
  <2>0. /\ UNCHANGED <<lease, seen, current, accepted>>
        /\ MoveTo(r, "down") /\ leading' = leading \ {r}
    BY <1>8 DEF Crash
  <2>1. CopiesMatch'
    BY <2>0 DEF CopiesMatch
  <2>2. loop'[r] = "down"
    BY <2>0, MoveToBounded DEF LoopSteps
  <2>3. WritesDecided'
    BY <2>0, <2>2, <1>2 DEF WritesDecided, MayTake, Expired, LoopSteps
  <2>4. OwnersHold'
    BY <2>0, <2>2, <1>2 DEF OwnersHold, Owner, LoopSteps
  <2> QED BY <1>0, <2>1, <2>3, <2>4
<1>9. ASSUME NEW r \in Candidates, Restart(r) PROVE ElectionInv'
  <2>0. /\ UNCHANGED <<lease, seen, current, accepted, leading>> /\ loop[r] = "down"
        /\ loop' = [loop EXCEPT ![r] = "sleep"]
        /\ elapsed' = [elapsed EXCEPT ![r] = RetryPeriod]
    BY <1>9 DEF Restart
  <2>1. CopiesMatch'
    BY <2>0 DEF CopiesMatch
  <2>2. loop'[r] = "sleep" /\ \A q \in Candidates \ {r} : loop'[q] = loop[q] /\ elapsed'[q] = elapsed[q]
    BY <2>0 DEF BoundedTypes, ElectionTypeOK
  <2>3. WritesDecided'
    BY <2>0, <2>2 DEF WritesDecided, MayTake, Expired
  <2>4. ~Owner(r) /\ ~Owner(r)'
    BY <2>0, <2>2 DEF OwnersHold, Owner
  <2>5. OwnersHold'
    BY <2>0, <2>2, <2>4 DEF OwnersHold, Owner, Fresh
  <2> QED BY <1>0, <2>1, <2>3, <2>5
<1>10. CASE UNCHANGED electionVars
  BY <1>0, <1>10 DEF electionVars, replicaVars, CopiesMatch, WritesDecided, MayTake, Expired,
                     OwnersHold, Owner, Fresh
<1> QED BY <1>1, <1>4, <1>5, <1>6, <1>7, <1>8, <1>9, <1>10 DEF ElectionNext, Attempt

(* Leaders are owners, and owners hold the Lease. *)
LEMMA LeaseHeld == ElectionInv => LeaderHoldsLease
BY OwnerAge DEF ElectionInv, BoundedTypes, ElectionTypeOK, LeaderHoldsLease, Owner

(* The Lease of a leader is never taken from it.                            *)
THEOREM LeaseKept ==
  ASSUME Timely
  PROVE  ElectionSpec => []LeaderHoldsLease
<1>1. ElectionInit => ElectionInv
  BY ElectionInvInit
<1>2. ElectionInv /\ [ElectionNext]_electionVars => ElectionInv'
  BY ElectionInvStep
<1> QED BY <1>1, <1>2, LeaseHeld, PTL DEF ElectionSpec

(* Leader election keeps its promise: every step of the replicas maps to a  *)
(* replica starting while none leads, to one stopping, or to no step.       *)
THEOREM ImplementsLeadership ==
  ASSUME Timely
  PROVE  ElectionSpec => LeadershipSpec
<1>1. ElectionInit => ElectionInv /\ Elected!Init
  BY ElectionInvInit DEF ElectionInit, Elected!Init
<1>2. ElectionInv /\ [ElectionNext]_electionVars => ElectionInv'
  BY ElectionInvStep
<1>3. ElectionInv /\ [ElectionNext]_electionVars => [Elected!Next]_leading
  <2> SUFFICES ASSUME ElectionInv, [ElectionNext]_electionVars, leading' # leading
               PROVE  \E r \in Candidates : Elected!StartLeading(r) \/ Elected!StopLeading(r)
    BY DEF Elected!Next
  <2>1. ASSUME NEW r \in Candidates, Conclude(r, FALSE) \/ Crash(r)
        PROVE  Elected!StopLeading(r)
    BY <2>1 DEF Conclude, Crash, Elected!StopLeading
  <2>2. ASSUME NEW r \in Candidates, Answer(r), Conclude(r, TRUE), accepted[r]
        PROVE  Elected!StartLeading(r)
    <3>1. Owner(r)
      BY <2>2 DEF Answer, Owner
    <3>2. ASSUME NEW s \in leading PROVE s = r
      <4>1. s \in Candidates /\ Owner(s)
        BY DEF ElectionInv, BoundedTypes, ElectionTypeOK, Owner
      <4> QED BY <3>1, <4>1, OwnerAge
    <3>3. leading' = leading \cup {r}
      BY <2>2 DEF Conclude
    <3> QED BY <3>2, <3>3 DEF Elected!StartLeading
  <2>3. ASSUME NEW r \in Candidates, Read(r) PROVE Elected!StopLeading(r)
    BY <2>1, <2>3 DEF Read
  <2>4. ASSUME NEW r \in Candidates, Decide(r) PROVE Elected!StopLeading(r)
    BY <2>1, <2>4 DEF Decide
  <2>5. ASSUME NEW r \in Candidates, Answer(r)
        PROVE  Elected!StartLeading(r) \/ Elected!StopLeading(r)
    <3>1. CASE Conclude(r, accepted[r])
      <4>1. accepted[r] \in BOOLEAN
        BY DEF ElectionInv, BoundedTypes, ElectionTypeOK
      <4> QED BY <2>1, <2>2, <2>5, <3>1, <4>1
    <3>2. CASE Conclude(r, FALSE)
      BY <2>1, <3>2
    <3> QED BY <2>5, <3>1, <3>2 DEF Answer
  <2>6. Elapse => leading' = leading
    BY DEF Elapse
  <2>7. \A r \in Candidates : Write(r) \/ Restart(r) => leading' = leading
    BY DEF Write, Restart
  <2> QED BY <2>1, <2>3, <2>4, <2>5, <2>6, <2>7 DEF ElectionNext, Attempt, electionVars, replicaVars
<1>4. ElectionSpec => Elected!Init /\ [][Elected!Next]_leading
  BY <1>1, <1>2, <1>3, PTL DEF ElectionSpec
<1> QED BY <1>4 DEF LeadershipSpec, Elected!Spec

----------------------------------------------------------------------------
(* While no call has failed a leader's next renewal is based on the stored  *)
(* Lease, so that it will be accepted.                                      *)
Renewing(r) ==
  /\ loop[r] \in {"decide", "write"} => r \in current
  /\ loop[r] = "answer" => accepted[r]

Renew == faults = 0 => \A r \in leading : Renewing(r)

(* Every step keeps Renew, and deposes nobody unless something failed. *)
LEMMA RenewStep ==
  ASSUME Timely, ElectionInv, Renew, [ElectionNext]_electionVars
  PROVE  Renew' /\ (faults' = 0 /\ crashes' = 0 => leading \subseteq leading')
<1> SUFFICES ASSUME faults' = 0
             PROVE  /\ \A q \in leading' : Renewing(q)'
                    /\ crashes' = 0 => leading \subseteq leading'
  BY DEF Renew
<1>1. faults = 0 /\ ~Fault /\ \A q \in leading : q \in Candidates /\ Renewing(q)
  <2>1. faults \in Nat /\ leading \subseteq Candidates
    BY TimeAssumption DEF ElectionInv, BoundedTypes, ElectionTypeOK
  <2>2. faults' = faults \/ Fault
    BY DEF ElectionNext, Elapse, Attempt, Read, Decide, Write, Answer, Crash, Restart, NoFault,
           electionVars, replicaVars
  <2> QED BY <2>1, <2>2 DEF Fault, Renew
<1>2. \A q \in leading : Owner(q) /\ lease.holder = q /\ lease.holder # Absent
  BY <1>1, OwnerAge, CandidatesAssumption DEF Owner
<1>3. \A q \in leading : q \in current => Accepts(q) /\ MayTake(q, seen[q])
  BY <1>1, <1>2 DEF ElectionInv, CopiesMatch, Accepts, MayTake
<1>4. CASE Elapse
  BY <1>1, <1>4 DEF Elapse, Renewing
<1>5. ASSUME NEW r \in Candidates, NEW t \in LoopSteps, MoveTo(r, t)
      PROVE  loop'[r] = t /\ \A q \in Candidates \ {r} : loop'[q] = loop[q]
  BY <1>5, MoveToBounded DEF ElectionInv
<1>6. ASSUME NEW r \in Candidates, Read(r)
      PROVE  (\A q \in leading' : Renewing(q)') /\ leading \subseteq leading'
  <2>1. /\ MoveTo(r, "decide") /\ UNCHANGED <<leading, accepted>>
        /\ current' = current \cup {r}
    BY <1>1, <1>6 DEF Read
  <2> QED BY <1>1, <1>5, <2>1 DEF Renewing, LoopSteps
<1>7. ASSUME NEW r \in Candidates, Decide(r)
      PROVE  (\A q \in leading' : Renewing(q)') /\ leading \subseteq leading'
  <2>1. UNCHANGED <<current, accepted>> /\ loop[r] = "decide"
    BY <1>7 DEF Decide
  <2>2. CASE r \in leading
    <3>1. MoveTo(r, "write") /\ UNCHANGED leading
      BY <1>1, <1>3, <1>7, <2>1, <2>2 DEF Decide, Renewing
    <3> QED BY <1>1, <1>5, <2>1, <2>2, <3>1 DEF Renewing, LoopSteps
  <2>3. CASE r \notin leading
    <3>1. leading' = leading
      BY <1>7, <2>3 DEF Decide, Conclude
    <3>2. PICK t \in LoopSteps : MoveTo(r, t)
      BY <1>7 DEF Decide, Conclude, LoopSteps
    <3> QED BY <1>1, <1>5, <2>1, <2>3, <3>1, <3>2 DEF Renewing
  <2> QED BY <2>2, <2>3
<1>8. ASSUME NEW r \in Candidates, Write(r)
      PROVE  (\A q \in leading' : Renewing(q)') /\ leading \subseteq leading'
  <2>1. MoveTo(r, "answer") /\ UNCHANGED leading /\ loop[r] = "write"
    BY <1>8 DEF Write
  <2>2. CASE Accepts(r)
    <3>1. accepted' = [accepted EXCEPT ![r] = TRUE]
      BY <1>1, <1>8, <2>2 DEF Write
    <3>2. accepted'[r]
      BY <3>1 DEF ElectionInv, BoundedTypes, ElectionTypeOK
    <3>3. \A q \in leading : q = r
      BY <1>1, <1>2, <2>1, <2>2, OwnerUndisturbed
    <3> QED BY <1>5, <2>1, <3>2, <3>3 DEF Renewing, LoopSteps
  <2>3. CASE ~Accepts(r)
    <3>1. UNCHANGED current /\ accepted' = [accepted EXCEPT ![r] = FALSE]
      BY <1>8, <2>3 DEF Write
    <3>2. r \notin leading
      BY <1>1, <1>3, <2>1, <2>3 DEF Renewing
    <3>3. \A q \in Candidates \ {r} : accepted'[q] = accepted[q]
      BY <3>1 DEF ElectionInv, BoundedTypes, ElectionTypeOK
    <3> QED BY <1>1, <1>5, <2>1, <3>1, <3>2, <3>3 DEF Renewing, LoopSteps
  <2> QED BY <2>2, <2>3
<1>9. ASSUME NEW r \in Candidates, Answer(r)
      PROVE  (\A q \in leading' : Renewing(q)') /\ leading \subseteq leading'
  <2>1. Conclude(r, accepted[r]) /\ UNCHANGED <<current, accepted>> /\ loop[r] = "answer"
    BY <1>1, <1>9 DEF Answer
  <2>2. CASE accepted[r]
    <3>1. MoveTo(r, "sleep") /\ leading' = leading \cup {r}
      BY <2>1, <2>2 DEF Conclude
    <3> QED BY <1>1, <1>5, <2>1, <3>1 DEF Renewing, LoopSteps
  <2>3. CASE ~accepted[r]
    <3>1. r \notin leading
      BY <1>1, <2>1, <2>3 DEF Renewing
    <3>2. MoveTo(r, "sleep") /\ leading' = leading
      BY <2>1, <2>3, <3>1 DEF Conclude
    <3> QED BY <1>1, <1>5, <2>1, <3>1, <3>2 DEF Renewing, LoopSteps
  <2> QED BY <2>2, <2>3
<1>10. ASSUME NEW r \in Candidates, Crash(r)
       PROVE  (\A q \in leading' : Renewing(q)') /\ crashes' # 0
  <2>1. /\ MoveTo(r, "down") /\ leading' = leading \ {r} /\ UNCHANGED <<current, accepted>>
        /\ crashes' = crashes + 1
    BY <1>10 DEF Crash
  <2>2. crashes \in Nat
    BY TimeAssumption DEF ElectionInv, BoundedTypes, ElectionTypeOK
  <2> QED BY <1>1, <1>5, <2>1, <2>2 DEF Renewing, LoopSteps
<1>11. ASSUME NEW r \in Candidates, Restart(r)
       PROVE  (\A q \in leading' : Renewing(q)') /\ leading \subseteq leading'
  <2>1. UNCHANGED <<current, accepted, leading>> /\ loop' = [loop EXCEPT ![r] = "sleep"]
    BY <1>11 DEF Restart
  <2>2. loop'[r] = "sleep" /\ \A q \in Candidates \ {r} : loop'[q] = loop[q]
    BY <2>1 DEF ElectionInv, BoundedTypes, ElectionTypeOK
  <2> QED BY <1>1, <2>1, <2>2 DEF Renewing
<1>12. CASE UNCHANGED electionVars
  BY <1>1, <1>12 DEF electionVars, replicaVars, Renewing
<1> QED BY <1>4, <1>6, <1>7, <1>8, <1>9, <1>10, <1>11, <1>12 DEF ElectionNext, Attempt, Elapse

(* A leader none of whose calls fails, and that does not crash, leads on.   *)
THEOREM LeaderStays ==
  ASSUME Timely
  PROVE  ElectionSpec => OnlyFailureDeposes
<1>1. ElectionInit => ElectionInv /\ Renew
  BY ElectionInvInit DEF ElectionInit, Renew
<1>2. ElectionInv /\ Renew /\ [ElectionNext]_electionVars => ElectionInv' /\ Renew'
  BY ElectionInvStep, RenewStep
<1>3. ElectionInv /\ Renew /\ [ElectionNext]_electionVars
        => [faults' = 0 /\ crashes' = 0 => leading \subseteq leading']_electionVars
  BY RenewStep
<1> QED BY <1>1, <1>2, <1>3, PTL DEF ElectionSpec, OnlyFailureDeposes

(***************************************************************************)
(* CronJob: the scheduler keeps its concurrency policy and never catches   *)
(* up in a burst.  It is written over Leadership, which the election has   *)
(* just been shown to implement.                                           *)
(***************************************************************************)
AnyRun == [phase : Phases, cancel : BOOLEAN, origin : 0..MaxTimes, by : Replicas \cup {Api},
           stored : BOOLEAN]

EnvType == passed \in 0..MaxTimes /\ job \in Specs /\ userActions \in 0..MaxUserActions

StatusType == lastSchedule \in 0..passed /\ lastRun \in Nat /\ active \in SUBSET Nat

LocalType ==
  /\ step \in [Replicas -> Steps]
  /\ obj \in [Replicas -> Objs] /\ dueSince \in [Replicas -> 0..MaxTimes]
  /\ todo \in [Replicas -> SUBSET Nat] /\ found \in [Replicas -> SUBSET Nat]
  /\ spawned \in [Replicas -> Nat]

TypeInv ==
  /\ leaders \in SUBSET Replicas /\ failures \in 0..MaxFailures
  /\ EnvType /\ StatusType /\ LocalType
  /\ runs \in Seq(AnyRun)

(* Only the leader ticks, and there is one.                                 *)
OneTicks ==
  /\ \A r, s \in leaders : r = s
  /\ \A r \in Replicas : step[r] # "idle" => r \in leaders

(* The runs of the schedule that go on.                                     *)
Ongoing == Scheduled \cap With("Active")

(* What a tick decides by still holds when it acts.                         *)
Deciding == {"listActive", "skip", "cancel", "spawn"}

DueTrue(r) ==
  /\ step[r] \in {"evaluate"} \cup Deciding => obj[r].spec.policy = job.policy
  /\ step[r] = "evaluate" => obj[r].lastSchedule = lastSchedule
  /\ step[r] \in Deciding =>
       /\ lastSchedule < dueSince[r] /\ dueSince[r] <= passed
       /\ \A i \in Scheduled : runs[i].origin <= dueSince[r]
  /\ step[r] = "record" => lastSchedule < passed

(* Before it spawns a run, the policy has been seen to for the others.      *)
MaySpawn(r) ==
  /\ step[r] = "cancel" =>
       job.policy = "Replace" /\ \A i \in Ongoing : i \in todo[r] \/ runs[i].cancel
  /\ step[r] = "spawn" =>
       \/ Ongoing = {} \/ job.policy = "Allow"
       \/ job.policy = "Replace" /\ \A i \in Ongoing : runs[i].cancel

TickInv == \A r \in Replicas : DueTrue(r) /\ MaySpawn(r)

InOrder ==
  /\ \A i \in Scheduled : runs[i].origin <= passed
  /\ \A i, j \in Scheduled : i < j => runs[i].origin <= runs[j].origin

(* A run that is spawned uses up a scheduled time, once its tick has        *)
(* recorded it, or a failure.                                               *)
Since(t) == {i \in Scheduled : runs[i].origin >= t}
Recording == \E r \in Replicas : step[r] = "record"
TimesUpTo(last, t) == IF last >= t THEN (last - t) + 1 ELSE 0
Passed(t) == TimesUpTo(lastSchedule, t)
InFlight == IF Recording THEN 1 ELSE 0
Allowed(t) == Passed(t) + InFlight + failures

BurstInv == \A t \in 1..passed : Cardinality(Since(t)) <= Allowed(t)

CronInv == TypeInv /\ OneTicks /\ TickInv /\ InOrder /\ BurstInv /\ ConcurrencyPolicy

----------------------------------------------------------------------------
(* Runs, and what happens to them *)

LEMMA RunsFacts ==
  ASSUME TypeInv
  PROVE  /\ Len(runs) \in Nat /\ DOMAIN runs = 1..Len(runs)
         /\ \A i \in DOMAIN runs : runs[i] \in AnyRun /\ runs[i].origin \in 0..MaxTimes
         /\ Scheduled \in SUBSET (1..Len(runs)) /\ Stored \in SUBSET (1..Len(runs))
<1>1. runs \in Seq(AnyRun)
  BY DEF TypeInv
<1>2. Len(runs) \in Nat /\ DOMAIN runs = 1..Len(runs)
  BY <1>1, LenProperties
<1>3. ASSUME NEW i \in DOMAIN runs PROVE runs[i] \in AnyRun /\ runs[i].origin \in 0..MaxTimes
  <2>1. runs[i] \in AnyRun
    BY <1>1, <1>2
  <2>2. QED
    BY <2>1 DEF AnyRun
<1>4. QED
  BY <1>2, <1>3 DEF Scheduled, Stored

LEMMA SinceFinite ==
  ASSUME TypeInv, NEW t
  PROVE  IsFiniteSet(Since(t)) /\ Cardinality(Since(t)) \in Nat
<1>1. Len(runs) \in Nat /\ Scheduled \in SUBSET (1..Len(runs))
  BY RunsFacts
<1>2. IsFiniteSet(1..Len(runs))
  BY <1>1, FS_Interval
<1>3. Since(t) \in SUBSET (1..Len(runs))
  BY <1>1 DEF Since
<1>4. IsFiniteSet(Since(t))
  BY <1>2, <1>3, FS_Subset
<1>5. QED
  BY <1>4, FS_CardinalityType

(* The step spawns nothing: at most, runs of the schedule end.              *)
NothingStarted ==
  /\ runs' \in Seq(AnyRun)
  /\ Scheduled' = Scheduled
  /\ \A i \in Scheduled : runs'[i].origin = runs[i].origin
  /\ Ongoing' \subseteq Ongoing
  /\ \A i \in Ongoing' : runs[i].cancel => runs'[i].cancel

LEMMA Untouched ==
  ASSUME TypeInv, UNCHANGED runs
  PROVE  NothingStarted
BY DEF NothingStarted, TypeInv, Scheduled, Ongoing, With, Stored

(* One run changes, and neither its origin nor from finished to active.     *)
Touched(e, o) ==
  /\ e.origin = o.origin
  /\ e.stored /\ e.phase = "Active" => o.stored /\ o.phase = "Active"
  /\ o.cancel => e.cancel

LEMMA OneTouched ==
  ASSUME TypeInv, NEW n, NEW e,
         runs' = [runs EXCEPT ![n] = e],
         n \in DOMAIN runs => e \in AnyRun /\ Touched(e, runs[n])
  PROVE  NothingStarted
<1>1. /\ Len(runs) \in Nat /\ DOMAIN runs = 1..Len(runs) /\ runs \in Seq(AnyRun)
      /\ \A i \in DOMAIN runs : runs[i] \in AnyRun
  BY RunsFacts DEF TypeInv
<1>2. runs' \in Seq(AnyRun) /\ DOMAIN runs' = DOMAIN runs
  <2>1. runs \in [1..Len(runs) -> AnyRun]
    BY <1>1
  <2>2. runs' \in [1..Len(runs) -> AnyRun]
    BY <1>1, <2>1
  <2>3. QED
    BY <1>1, <2>2, SeqDef
<1>3. ASSUME NEW i \in DOMAIN runs
      PROVE  Touched(runs'[i], runs[i])
  <2>1. CASE i = n
    BY <1>3, <2>1
  <2>2. CASE i # n
    <3>1. runs'[i] = runs[i]
      BY <1>3, <2>2
    <3>2. QED
      BY <3>1 DEF Touched
  <2>3. QED
    BY <2>1, <2>2
<1>4. Scheduled' = Scheduled /\ \A i \in Scheduled : runs'[i].origin = runs[i].origin
  BY <1>2, <1>3 DEF Touched, Scheduled
<1>5. Ongoing' \subseteq Ongoing
  BY <1>2, <1>3, <1>4 DEF Touched, Ongoing, With, Stored
<1>6. \A i \in Ongoing' : runs[i].cancel => runs'[i].cancel
  BY <1>2, <1>3 DEF Touched, Ongoing, With, Stored
<1>7. QED
  BY <1>2, <1>4, <1>5, <1>6 DEF NothingStarted

(* A run is created after all others.                                       *)
LEMMA Added ==
  ASSUME TypeInv, NEW e \in AnyRun, runs' = Append(runs, e)
  PROVE  /\ runs' \in Seq(AnyRun) /\ DOMAIN runs' = DOMAIN runs \cup {Len(runs) + 1}
         /\ runs'[Len(runs) + 1] = e
         /\ \A i \in DOMAIN runs : runs'[i] = runs[i] /\ i < Len(runs) + 1
<1>1. runs \in Seq(AnyRun) /\ Len(runs) \in Nat /\ DOMAIN runs = 1..Len(runs)
  BY RunsFacts DEF TypeInv
<1>2. /\ runs' \in Seq(AnyRun) /\ Len(runs') = Len(runs) + 1
      /\ \A i \in 1..Len(runs) : runs'[i] = runs[i]
      /\ runs'[Len(runs) + 1] = e
  BY <1>1
<1>3. DOMAIN runs' = 1..(Len(runs) + 1)
  BY <1>1, <1>2
<1>4. QED
  BY <1>1, <1>2, <1>3

LEMMA AddedByHand ==
  ASSUME TypeInv, runs' = Append(runs, Run(ByHand, Api))
  PROVE  NothingStarted
<1> DEFINE e == Run(ByHand, Api)
           n == Len(runs) + 1
<1>1. MaxTimes \in Nat
  BY BoundsAssumption
<1>2. e \in AnyRun /\ e.origin = ByHand
  BY <1>1 DEF AnyRun, Run, Phases, ByHand
<1> HIDE DEF e
<1>3. runs' = Append(runs, e)
  BY DEF e
<1>4. /\ runs' \in Seq(AnyRun) /\ DOMAIN runs' = DOMAIN runs \cup {n}
      /\ runs'[n] = e /\ \A i \in DOMAIN runs : runs'[i] = runs[i] /\ i < n
  BY <1>2, <1>3, Added
<1>5. Scheduled' = Scheduled
  BY <1>2, <1>4 DEF Scheduled
<1>6. Ongoing' \subseteq Ongoing
  BY <1>4, <1>5 DEF Ongoing, Scheduled, With, Stored
<1>7. \A i \in Scheduled : runs'[i] = runs[i]
  BY <1>4 DEF Scheduled
<1>8. QED
  BY <1>4, <1>5, <1>6, <1>7 DEF NothingStarted, Ongoing

----------------------------------------------------------------------------
(* What a step that spawns nothing keeps *)

LEMMA QuietOrder ==
  ASSUME CronInv, NothingStarted, job'.policy = job.policy,
         passed' = passed \/ passed' = passed + 1
  PROVE  InOrder' /\ ConcurrencyPolicy'
<1>1. passed \in Nat /\ \A i \in Scheduled : runs[i].origin \in Nat
  BY RunsFacts, BoundsAssumption DEF CronInv, TypeInv, EnvType, Scheduled
<1>2. InOrder'
  BY <1>1 DEF NothingStarted, InOrder, CronInv
<1>3. ConcurrencyPolicy'
  BY DEF NothingStarted, ConcurrencyPolicy, Ongoing, CronInv
<1>4. QED
  BY <1>2, <1>3

LEMMA QuietSince ==
  ASSUME NothingStarted, NEW t
  PROVE  Since(t)' = Since(t)
BY DEF NothingStarted, Since

LEMMA AllowedType ==
  ASSUME NEW t \in Nat, lastSchedule \in Nat
  PROVE  Passed(t) \in Nat /\ InFlight \in {0, 1}
BY DEF Passed, TimesUpTo, InFlight

LEMMA MoreTimes ==
  ASSUME NEW t \in Nat, NEW l \in Nat, NEW m \in Nat, m >= l
  PROVE  /\ TimesUpTo(l, t) \in Nat /\ TimesUpTo(m, t) \in Nat
         /\ TimesUpTo(m, t) >= TimesUpTo(l, t)
         /\ m > l /\ m >= t => TimesUpTo(m, t) >= TimesUpTo(l, t) + 1
BY DEF TimesUpTo

LEMMA PaidFor ==
  ASSUME NEW p \in Nat, NEW q \in Nat, NEW i \in {0, 1}, NEW f \in Nat, NEW g \in Nat,
         q >= p, g >= f, i = 1 => q >= p + 1 \/ g >= f + 1
  PROVE  q + 0 + g >= p + i + f /\ q + 0 + g \in Nat /\ p + i + f \in Nat
<1>1. CASE i = 0
  BY <1>1
<1>2. CASE i = 1
  BY <1>2
<1>3. QED
  BY <1>1, <1>2

(* Nobody but the tick of r moves.                                          *)
LEMMA Others ==
  ASSUME CronInv, NEW r \in Replicas, r \in leaders \/ step[r] # "idle",
         NEW x \in Steps, Goto(r, x), leaders' = leaders
  PROVE  /\ OneTicks' /\ step'[r] = x
         /\ \A s \in Replicas \ {r} : step'[s] = "idle" /\ step[s] = "idle"
         /\ Recording <=> step[r] = "record"
         /\ Recording' <=> x = "record"
<1>1. step \in [Replicas -> Steps]
  BY DEF CronInv, TypeInv, LocalType
<1>2. step'[r] = x /\ \A s \in Replicas \ {r} : step'[s] = step[s]
  BY <1>1 DEF Goto
<1>3. r \in leaders /\ \A s \in Replicas \ {r} : step[s] = "idle"
  BY DEF CronInv, OneTicks
<1>4. OneTicks'
  BY <1>2, <1>3 DEF CronInv, OneTicks
<1>5. QED
  BY <1>2, <1>3, <1>4 DEF Recording

(* A tick goes on, and spawns nothing.                                      *)
Quiet(r, x) ==
  /\ Goto(r, x)
  /\ UNCHANGED <<leaders, envVars>>
  /\ NothingStarted
  /\ lastSchedule' \in {lastSchedule, passed}
  /\ failures' \in {failures, failures + 1}
  /\ step[r] = "record" => lastSchedule' = passed \/ failures' = failures + 1

LEMMA QuietTick ==
  ASSUME CronInv, TypeInv', NEW r \in Replicas, r \in leaders \/ step[r] # "idle",
         NEW x \in Steps \ {"record"}, Quiet(r, x), DueTrue(r)', MaySpawn(r)'
  PROVE  CronInv'
<1>1. /\ Goto(r, x) /\ leaders' = leaders /\ passed' = passed /\ job' = job
      /\ NothingStarted
  BY DEF Quiet, envVars
<1>2. /\ OneTicks' /\ step'[r] = x
      /\ \A s \in Replicas \ {r} : step'[s] = "idle" /\ step[s] = "idle"
      /\ Recording <=> step[r] = "record"
      /\ Recording' <=> x = "record"
  BY <1>1, Others
<1>3. TickInv'
  <2>1. ASSUME NEW s \in Replicas \ {r} PROVE DueTrue(s)' /\ MaySpawn(s)'
    BY <1>2 DEF DueTrue, MaySpawn, Deciding
  <2>2. QED
    BY <2>1 DEF TickInv
<1>4. InOrder' /\ ConcurrencyPolicy'
  BY <1>1, QuietOrder
<1>5. BurstInv'
  <2>1. ~ Recording'
    BY <1>2
  <2>2. ASSUME NEW t \in 1..passed' PROVE Cardinality(Since(t)') <= Allowed(t)'
    <3>1. t \in Nat /\ t <= passed /\ t > 0 /\ passed \in Nat /\ lastSchedule \in Nat
          /\ failures \in Nat /\ lastSchedule <= passed
      BY <1>1, <2>2, BoundsAssumption DEF CronInv, TypeInv, EnvType, StatusType
    <3>2. Cardinality(Since(t)) <= Allowed(t) /\ Cardinality(Since(t)) \in Nat
      BY <3>1, SinceFinite DEF CronInv, BurstInv
    <3>3. step[r] = "record" => lastSchedule < passed
      BY DEF CronInv, TickInv, DueTrue
    <3>4. /\ lastSchedule' \in {lastSchedule, passed}
          /\ failures' \in {failures, failures + 1}
          /\ step[r] = "record" => lastSchedule' = passed \/ failures' = failures + 1
      BY DEF Quiet
    <3>5. Since(t)' = Since(t)
      BY <1>1, QuietSince
    <3>6. /\ InFlight \in {0, 1} /\ InFlight' = 0
          /\ InFlight = 1 => step[r] = "record"
      BY <1>2, <2>1 DEF InFlight
    <3>7. lastSchedule' \in Nat /\ lastSchedule' >= lastSchedule
      BY <3>1, <3>4
    <3>8. /\ Passed(t) \in Nat /\ Passed(t)' \in Nat /\ Passed(t)' >= Passed(t)
          /\ lastSchedule' > lastSchedule /\ lastSchedule' >= t => Passed(t)' >= Passed(t) + 1
      BY <3>1, <3>7, MoreTimes DEF Passed
    <3>9. /\ failures' \in Nat /\ failures' >= failures
          /\ InFlight = 1 => Passed(t)' >= Passed(t) + 1 \/ failures' >= failures + 1
      <4>1. failures' \in Nat /\ failures' >= failures
        BY <3>1, <3>4
      <4>2. CASE failures' = failures + 1
        BY <3>1, <4>1, <4>2
      <4>3. CASE failures' # failures + 1 /\ InFlight = 1
        <5>1. lastSchedule' = passed /\ lastSchedule < passed
          BY <3>3, <3>4, <3>6, <4>3
        <5>2. QED
          BY <3>1, <3>8, <4>1, <5>1
      <4>4. QED
        BY <4>1, <4>2, <4>3
    <3>10. Allowed(t)' >= Allowed(t) /\ Allowed(t)' \in Nat /\ Allowed(t) \in Nat
      <4>1. /\ Passed(t)' + 0 + failures' >= Passed(t) + InFlight + failures
            /\ Passed(t)' + 0 + failures' \in Nat /\ Passed(t) + InFlight + failures \in Nat
        BY <3>1, <3>6, <3>8, <3>9, PaidFor
      <4>2. Allowed(t)' = Passed(t)' + 0 + failures'
        BY <3>6 DEF Allowed
      <4>3. QED
        BY <4>1, <4>2 DEF Allowed
    <3>11. Cardinality(Since(t)') = Cardinality(Since(t))
      BY <3>5
    <3> HIDE DEF Since
    <3>12. QED
      BY <3>2, <3>10, <3>11
  <2>3. QED
    BY <2>2 DEF BurstInv
<1>6. QED
  BY <1>2, <1>3, <1>4, <1>5 DEF CronInv

----------------------------------------------------------------------------
(* The cluster and its users *)

(* The ticks stay where they are, and nothing is spawned.                   *)
LEMMA NoTick ==
  ASSUME CronInv, TypeInv', NothingStarted,
         UNCHANGED <<leaders, statusVars, step, localVars, failures>>,
         job'.policy = job.policy, passed' = passed \/ passed' = passed + 1
  PROVE  CronInv'
<1>1. passed \in Nat /\ passed' \in Nat /\ lastSchedule \in Nat
  BY BoundsAssumption DEF CronInv, TypeInv, EnvType, StatusType
<1>2. OneTicks'
  BY DEF OneTicks, CronInv
<1>3. ASSUME NEW r \in Replicas PROVE DueTrue(r)' /\ MaySpawn(r)'
  <2>1. DueTrue(r) /\ MaySpawn(r)
    BY DEF CronInv, TickInv
  <2>2. dueSince[r] \in Nat
    BY BoundsAssumption DEF CronInv, TypeInv, LocalType
  <2>3. DueTrue(r)'
    BY <1>1, <2>1, <2>2 DEF DueTrue, NothingStarted, statusVars, localVars
  <2>4. MaySpawn(r)'
    BY <2>1 DEF MaySpawn, NothingStarted, localVars
  <2>5. QED
    BY <2>3, <2>4
<1>4. InOrder' /\ ConcurrencyPolicy'
  BY QuietOrder
<1>5. ASSUME NEW t \in 1..passed' PROVE Cardinality(Since(t)') <= Allowed(t)'
  <2>1. Since(t)' = Since(t)
    BY QuietSince
  <2>2. t \in Nat /\ failures \in Nat
    BY <1>1, <1>5, BoundsAssumption DEF CronInv, TypeInv
  <2>3. t \in Nat /\ Passed(t) \in Nat /\ InFlight \in {0, 1} /\ failures \in Nat
    BY <1>1, <2>2, AllowedType
  <2>4. Allowed(t)' = Allowed(t) /\ Allowed(t) \in Nat
    BY <2>3 DEF Allowed, Passed, InFlight, Recording, statusVars
  <2>5. CASE t <= passed
    <3>1. Cardinality(Since(t)) <= Allowed(t)
      BY <1>1, <1>5, <2>5 DEF CronInv, BurstInv
    <3>2. QED
      BY <2>1, <2>4, <3>1
  <2>6. CASE t > passed
    <3>1. \A i \in Scheduled : runs[i].origin \in Nat /\ runs[i].origin <= passed
      BY RunsFacts DEF CronInv, InOrder, Scheduled
    <3>2. Since(t) = {}
      BY <1>1, <2>3, <2>6, <3>1 DEF Since
    <3>3. QED
      BY <2>1, <2>4, <3>2, FS_EmptySet
  <2>7. QED
    BY <1>1, <2>3, <2>5, <2>6
<1>6. QED
  BY <1>2, <1>3, <1>4, <1>5 DEF CronInv, TickInv, BurstInv

LEMMA TypeKept ==
  ASSUME TypeInv, EnvType', runs' \in Seq(AnyRun), passed' = passed \/ passed' = passed + 1,
         UNCHANGED <<leaders, statusVars, step, localVars, failures>>
  PROVE  TypeInv'
<1>1. passed \in Nat /\ passed' \in Nat
  BY BoundsAssumption DEF TypeInv, EnvType
<1>2. StatusType'
  BY <1>1 DEF TypeInv, StatusType, statusVars
<1>3. LocalType'
  BY DEF TypeInv, LocalType, localVars
<1>4. QED
  BY <1>2, <1>3 DEF TypeInv

LEMMA TimeStep == CronInv /\ TimePasses => CronInv'
<1> SUFFICES ASSUME CronInv, TimePasses PROVE CronInv'
  OBVIOUS
<1>1. /\ NothingStarted /\ passed' = passed + 1 /\ job' = job
      /\ UNCHANGED <<leaders, statusVars, step, localVars, failures>>
  BY Untouched DEF TimePasses, CronInv
<1>2. EnvType'
  BY BoundsAssumption DEF TimePasses, EnvType, CronInv, TypeInv
<1>3. TypeInv'
  BY <1>1, <1>2, TypeKept DEF NothingStarted, CronInv
<1>4. QED
  BY <1>1, <1>3, NoTick

LEMMA FinishStep == CronInv /\ Finish => CronInv'
<1> SUFFICES ASSUME CronInv, Finish PROVE CronInv'
  OBVIOUS
<1>1. PICK i \in With("Active"), p \in {"Succeeded", "Failed"} :
        runs' = [runs EXCEPT ![i].phase = p]
  BY DEF Finish
<1> DEFINE e == [runs[i] EXCEPT !.phase = p]
<1>2. i \in DOMAIN runs /\ runs[i] \in AnyRun
  BY RunsFacts DEF CronInv, With, Stored
<1>3. e \in AnyRun /\ Touched(e, runs[i])
  BY <1>2 DEF AnyRun, Touched, Phases
<1>4. runs' = [runs EXCEPT ![i] = e]
  BY <1>1
<1> HIDE DEF e
<1>5. NothingStarted
  BY <1>3, <1>4, OneTouched DEF CronInv
<1>6. UNCHANGED <<leaders, statusVars, step, localVars, failures>> /\ job' = job
      /\ passed' = passed /\ EnvType'
  BY DEF Finish, envVars, EnvType, CronInv, TypeInv
<1>7. TypeInv'
  BY <1>5, <1>6, TypeKept DEF NothingStarted, CronInv
<1>8. QED
  BY <1>5, <1>6, <1>7, NoTick

LEMMA UserStep == CronInv /\ UserActs => CronInv'
<1> SUFFICES ASSUME CronInv, UserActs PROVE CronInv'
  OBVIOUS
<1>1. UNCHANGED <<leaders, statusVars, step, localVars, failures>> /\ passed' = passed
  BY DEF UserActs
<1>2. job \in Specs
  BY DEF CronInv, TypeInv, EnvType
<1>3. NothingStarted /\ job' \in Specs /\ job'.policy = job.policy
  <2>1. CASE Trigger
    BY <1>2, <2>1, AddedByHand DEF Trigger, CronInv
  <2>2. CASE DeleteRun
    <3>1. PICK i \in Stored : runs' = [runs EXCEPT ![i].stored = FALSE]
      BY <2>2 DEF DeleteRun
    <3> DEFINE e == [runs[i] EXCEPT !.stored = FALSE]
    <3>2. i \in DOMAIN runs /\ runs[i] \in AnyRun
      BY RunsFacts DEF CronInv, Stored
    <3>3. e \in AnyRun /\ Touched(e, runs[i])
      BY <3>2 DEF AnyRun, Touched
    <3>4. runs' = [runs EXCEPT ![i] = e]
      BY <3>1
    <3> HIDE DEF e
    <3>5. NothingStarted
      BY <3>3, <3>4, OneTouched DEF CronInv
    <3>6. QED
      BY <1>2, <2>2, <3>5 DEF DeleteRun
  <2>3. CASE EditJob
    <3>1. job' \in Specs /\ job'.policy = job.policy
      BY <1>2, <2>3 DEF EditJob, Specs
    <3>2. NothingStarted
      BY <2>3, Untouched DEF EditJob, CronInv
    <3>3. QED
      BY <3>1, <3>2
  <2>4. QED
    BY <2>1, <2>2, <2>3 DEF UserActs
<1>4. EnvType'
  BY <1>1, <1>3, BoundsAssumption DEF UserActs, EnvType, CronInv, TypeInv
<1>5. TypeInv'
  BY <1>1, <1>3, <1>4, TypeKept DEF NothingStarted, CronInv
<1>6. QED
  BY <1>1, <1>3, <1>5, NoTick

----------------------------------------------------------------------------
(* The tick of a leader *)

LEMMA TickType ==
  ASSUME CronInv, LocalType', runs' \in Seq(AnyRun), UNCHANGED <<leaders, envVars>>,
         lastSchedule' \in {lastSchedule, passed}, lastRun' \in Nat, active' \in SUBSET Nat,
         failures' = failures \/ Failure
  PROVE  TypeInv' /\ failures' \in {failures, failures + 1}
<1>1. EnvType' /\ leaders' \in SUBSET Replicas
  BY DEF CronInv, TypeInv, EnvType, envVars
<1>2. StatusType'
  BY BoundsAssumption DEF CronInv, TypeInv, StatusType, EnvType, envVars
<1>3. failures' \in 0..MaxFailures /\ failures' \in {failures, failures + 1}
  BY BoundsAssumption DEF CronInv, TypeInv, Failure
<1>4. QED
  BY <1>1, <1>2, <1>3 DEF TypeInv

LEMMA LocalFacts ==
  ASSUME CronInv, NEW r \in Replicas
  PROVE  /\ step[r] \in Steps /\ obj[r] \in Objs /\ obj[r].spec \in Specs
         /\ obj[r].lastSchedule \in Nat /\ dueSince[r] \in 0..MaxTimes
         /\ todo[r] \in SUBSET Nat /\ found[r] \in SUBSET Nat /\ spawned[r] \in Nat
         /\ DueTrue(r) /\ MaySpawn(r)
         /\ passed \in Nat /\ lastSchedule \in 0..passed /\ lastRun \in Nat
         /\ active \in SUBSET Nat /\ failures \in 0..MaxFailures /\ NoObj \in Objs
<1>1. /\ step[r] \in Steps /\ obj[r] \in Objs /\ dueSince[r] \in 0..MaxTimes
      /\ todo[r] \in SUBSET Nat /\ found[r] \in SUBSET Nat /\ spawned[r] \in Nat
      /\ DueTrue(r) /\ MaySpawn(r)
      /\ lastSchedule \in 0..passed /\ lastRun \in Nat
      /\ active \in SUBSET Nat /\ failures \in 0..MaxFailures
  BY DEF CronInv, TypeInv, LocalType, StatusType, TickInv
<1>2. MaxTimes \in Nat /\ passed \in Nat
  BY BoundsAssumption DEF CronInv, TypeInv, EnvType
<1>3. obj[r].spec \in Specs /\ obj[r].lastSchedule \in Nat
  BY <1>1, <1>2 DEF Objs
<1>4. job.policy \in Policies
  BY DEF CronInv, TypeInv, EnvType, Specs
<1>5. (CHOOSE p \in Policies : TRUE) \in Policies
  BY <1>4, Zenon
<1>6. NoObj \in Objs
  BY <1>2, <1>5 DEF NoObj, Objs, Specs
<1>7. QED
  BY <1>1, <1>2, <1>3, <1>6

LEMMA Cleared ==
  ASSUME CronInv, NEW r \in Replicas, NEW x \in Steps, Goto(r, x), ClearLocals(r)
  PROVE  LocalType'
<1>1. NoObj \in Objs /\ MaxTimes \in Nat
  BY LocalFacts, BoundsAssumption
<1>2. QED
  BY <1>1 DEF CronInv, TypeInv, LocalType, Goto, ClearLocals

(* The tick, or what it does for the schedule, is over.                     *)
Over(r, x) ==
  /\ Goto(r, x) /\ ClearLocals(r)
  /\ UNCHANGED <<leaders, envVars>>
  /\ NothingStarted
  /\ lastSchedule' \in {lastSchedule, passed}
  /\ lastRun' \in Nat /\ active' \in SUBSET Nat
  /\ failures' = failures \/ Failure
  /\ step[r] = "record" => lastSchedule' = passed \/ Failure

LEMMA TickEnds ==
  ASSUME CronInv, NEW r \in Replicas, step[r] # "idle", NEW x \in {"idle", "listAll"},
         Over(r, x)
  PROVE  CronInv'
<1>1. x \in Steps \ {"record"}
  BY DEF Steps
<1>2. LocalType'
  BY <1>1, Cleared DEF Over
<1>3. TypeInv' /\ failures' \in {failures, failures + 1}
  BY <1>2, TickType DEF Over, NothingStarted
<1>4. Quiet(r, x)
  BY <1>3 DEF Over, Quiet, Failure
<1>5. step'[r] = x
  BY DEF Over, Goto, CronInv, TypeInv, LocalType
<1>6. DueTrue(r)' /\ MaySpawn(r)'
  BY <1>1, <1>5 DEF DueTrue, MaySpawn, Deciding
<1>7. QED
  BY <1>1, <1>3, <1>4, <1>6, QuietTick

LEMMA ListJobsStep ==
  ASSUME CronInv, NEW r \in Replicas, ListJobs(r)
  PROVE  CronInv'
<1> DEFINE o == [spec |-> job, lastSchedule |-> lastSchedule]
<1>1. job \in Specs /\ lastSchedule \in 0..MaxTimes
  BY BoundsAssumption DEF CronInv, TypeInv, EnvType, StatusType
<1>2. o \in Objs /\ o.spec = job /\ o.lastSchedule = lastSchedule
  BY <1>1 DEF Objs
<1> HIDE DEF o
<1>3. obj' = [obj EXCEPT ![r] = o] /\ Goto(r, "evaluate") /\ r \in leaders
  BY DEF ListJobs, o
<1>4. /\ UNCHANGED <<leaders, envVars, statusVars, dueSince, todo, found, spawned, failures>>
      /\ step[r] = "idle" /\ NothingStarted
  BY Untouched DEF ListJobs, CronInv
<1>5. "evaluate" \in Steps \ {"record"}
  BY DEF Steps
<1>6. LocalType' /\ obj'[r] = o /\ step'[r] = "evaluate"
  BY <1>2, <1>3, <1>4, <1>5 DEF CronInv, TypeInv, LocalType, Goto
<1>7. TypeInv'
  BY <1>4, <1>6, TickType, LocalFacts DEF statusVars, NothingStarted
<1>8. Quiet(r, "evaluate")
  BY <1>3, <1>4 DEF Quiet, statusVars
<1>9. DueTrue(r)' /\ MaySpawn(r)'
  BY <1>2, <1>4, <1>6 DEF DueTrue, MaySpawn, Deciding, envVars, statusVars
<1>10. QED
  BY <1>3, <1>5, <1>7, <1>8, <1>9, QuietTick

LEMMA EvaluateStep ==
  ASSUME CronInv, NEW r \in Replicas, Evaluate(r)
  PROVE  CronInv'
<1>1. /\ UNCHANGED <<leaders, envVars, statusVars, failures>>
      /\ step[r] = "evaluate" /\ NothingStarted
  BY Untouched DEF Evaluate, CronInv
<1>2. /\ lastRun \in Nat /\ active \in SUBSET Nat /\ passed \in Nat /\ lastSchedule \in 0..passed
      /\ obj[r].lastSchedule \in Nat /\ DueTrue(r) /\ dueSince[r] \in 0..MaxTimes
  BY LocalFacts
<1>3. CASE EndTick(r) \/ ScheduleDone(r)
  <2>1. PICK x \in {"idle", "listAll"} : Goto(r, x) /\ ClearLocals(r)
    BY <1>3 DEF EndTick, ScheduleDone
  <2>2. Over(r, x)
    BY <1>1, <1>2, <2>1 DEF Over, statusVars
  <2>3. QED
    BY <1>1, <2>2, TickEnds
<1>4. CASE /\ Due(r) /\ Goto(r, "listActive")
           /\ dueSince' = [dueSince EXCEPT ![r] = MostRecentFireTime]
           /\ UNCHANGED <<obj, todo, found, spawned>>
  <2>1. passed \in 0..MaxTimes /\ "listActive" \in Steps \ {"record"}
    BY DEF CronInv, TypeInv, EnvType, Steps
  <2>2. LocalType' /\ dueSince'[r] = passed /\ step'[r] = "listActive"
    BY <1>4, <2>1 DEF CronInv, TypeInv, LocalType, Goto, MostRecentFireTime
  <2>3. TypeInv'
    BY <1>1, <1>2, <2>2, TickType DEF statusVars, NothingStarted
  <2>4. Quiet(r, "listActive")
    BY <1>1, <1>4 DEF Quiet, statusVars
  <2>5. lastSchedule < passed
    BY <1>1, <1>2, <1>4 DEF Due, DueTrue, MostRecentFireTime
  <2>6. \A i \in Scheduled' : runs'[i].origin <= passed
    BY <1>1 DEF NothingStarted, CronInv, InOrder
  <2>7. obj'[r].spec.policy = job'.policy
    BY <1>1, <1>2, <1>4 DEF DueTrue, envVars
  <2>8. DueTrue(r)'
    BY <1>1, <1>2, <2>2, <2>5, <2>6, <2>7 DEF DueTrue, Deciding, envVars, statusVars
  <2>9. MaySpawn(r)'
    BY <2>2 DEF MaySpawn
  <2>10. QED
    BY <1>1, <2>1, <2>3, <2>4, <2>8, <2>9, QuietTick
<1>5. QED
  BY <1>3, <1>4 DEF Evaluate

LEMMA ListActiveStep ==
  ASSUME CronInv, NEW r \in Replicas, ListActive(r)
  PROVE  CronInv'
<1> DEFINE next == AfterActive(obj[r].spec.policy, With("Active"))
<1>1. /\ UNCHANGED <<leaders, envVars, statusVars, runs>>
      /\ step[r] = "listActive" /\ NothingStarted
  BY Untouched DEF ListActive, CronInv
<1>2. /\ lastRun \in Nat /\ active \in SUBSET Nat
      /\ obj[r].spec \in Specs /\ DueTrue(r)
  BY LocalFacts
<1>3. CASE Throws(r)
  <2>1. Goto(r, "idle") /\ ClearLocals(r) /\ Failure
    BY <1>3 DEF Throws, EndTick
  <2>2. Over(r, "idle")
    BY <1>1, <1>2, <2>1 DEF Over, statusVars
  <2>3. QED
    BY <1>1, <2>2, TickEnds
<1>4. CASE /\ Goto(r, next)
           /\ todo' = [todo EXCEPT ![r] = IF next = "cancel" THEN With("Active") ELSE {}]
           /\ UNCHANGED <<obj, dueSince, found, spawned, failures>>
  <2>1. obj[r].spec.policy = job.policy /\ job.policy \in {"Allow", "Forbid", "Replace"}
    BY <1>1, <1>2, PolicyAssumption DEF DueTrue, Deciding, CronInv, TypeInv, EnvType, Specs
  <2>2. /\ next \in {"spawn", "skip", "cancel"}
        /\ next = "cancel" => job.policy = "Replace"
        /\ next = "spawn" => With("Active") = {} \/ job.policy = "Allow"
    BY <2>1 DEF AfterActive
  <2> HIDE DEF next
  <2>3. With("Active") \in SUBSET Nat
    BY RunsFacts DEF CronInv, With
  <2>4. next \in Steps \ {"record"}
    BY <2>2 DEF Steps
  <2>5. LocalType' /\ step'[r] = next /\ (next = "cancel" => todo'[r] = With("Active"))
    BY <1>4, <2>3, <2>4 DEF CronInv, TypeInv, LocalType, Goto
  <2>6. TypeInv'
    BY <1>1, <1>2, <1>4, <2>5, TickType DEF statusVars, NothingStarted
  <2>7. Quiet(r, next)
    BY <1>1, <1>4 DEF Quiet, statusVars
  <2>8. DueTrue(r)'
    BY <1>1, <1>2, <1>4, <2>2, <2>5 DEF DueTrue, Deciding, envVars, statusVars, Scheduled
  <2>9. Ongoing' = Ongoing /\ Ongoing \subseteq With("Active") /\ job' = job
    BY <1>1 DEF Ongoing, Scheduled, With, Stored, envVars
  <2>10. MaySpawn(r)'
    BY <2>2, <2>5, <2>9 DEF MaySpawn
  <2>11. QED
    BY <1>1, <2>4, <2>6, <2>7, <2>8, <2>10, QuietTick
<1>5. QED
  BY <1>3, <1>4 DEF ListActive

LEMMA SkipStep ==
  ASSUME CronInv, NEW r \in Replicas, Skip(r)
  PROVE  CronInv'
<1>1. /\ UNCHANGED <<leaders, envVars, lastRun, active>>
      /\ step[r] = "skip" /\ NothingStarted
  BY Untouched DEF Skip, CronInv
<1>2. lastRun \in Nat /\ active \in SUBSET Nat
  BY LocalFacts
<1>3. PICK x \in {"idle", "listAll"} :
        /\ Goto(r, x) /\ ClearLocals(r) /\ lastSchedule' \in {lastSchedule, passed}
        /\ failures' = failures \/ Failure
  BY DEF Skip, ScheduleDone, Throws, EndTick
<1>4. Over(r, x)
  BY <1>1, <1>2, <1>3 DEF Over
<1>5. QED
  BY <1>1, <1>4, TickEnds

LEMMA RecordStep ==
  ASSUME CronInv, NEW r \in Replicas, Record(r)
  PROVE  CronInv'
<1>1. /\ UNCHANGED <<leaders, envVars, active>>
      /\ step[r] = "record" /\ NothingStarted
  BY Untouched DEF Record, CronInv
<1>2. lastRun \in Nat /\ active \in SUBSET Nat /\ spawned[r] \in Nat
  BY LocalFacts
<1>3. PICK x \in {"idle", "listAll"} :
        /\ Goto(r, x) /\ ClearLocals(r)
        /\ lastSchedule' \in {lastSchedule, passed} /\ lastRun' \in {lastRun, spawned[r]}
        /\ \/ lastSchedule' = passed /\ failures' = failures
           \/ Failure
  BY DEF Record, ScheduleDone, Throws, EndTick
<1>4. Over(r, x)
  BY <1>1, <1>2, <1>3 DEF Over
<1>5. QED
  BY <1>1, <1>4, TickEnds

LEMMA CancelStep ==
  ASSUME CronInv, NEW r \in Replicas, Cancel(r)
  PROVE  CronInv'
<1>1. UNCHANGED <<leaders, envVars, statusVars>> /\ step[r] = "cancel"
  BY DEF Cancel
<1>2. /\ lastRun \in Nat /\ active \in SUBSET Nat /\ todo[r] \in SUBSET Nat
      /\ DueTrue(r) /\ MaySpawn(r)
  BY LocalFacts
<1>3. PICK i \in todo[r] :
       \/ /\ runs[i].stored
          /\ runs' = [runs EXCEPT ![i].cancel = TRUE]
          /\ todo' = [todo EXCEPT ![r] = @ \ {i}]
          /\ Goto(r, IF todo[r] = {i} THEN "spawn" ELSE "cancel")
          /\ UNCHANGED <<obj, dueSince, found, spawned, failures>>
       \/ ~runs[i].stored /\ EndTick(r) /\ UNCHANGED <<runs, failures>>
       \/ /\ runs[i].stored /\ Throws(r)
          /\ runs' \in {runs, [runs EXCEPT ![i].cancel = TRUE]}
  BY DEF Cancel
<1> DEFINE e == [runs[i] EXCEPT !.cancel = TRUE]
<1>4. i \in DOMAIN runs => e \in AnyRun /\ Touched(e, runs[i]) /\ e.cancel
  BY RunsFacts DEF CronInv, AnyRun, Touched
<1>5. NothingStarted
  <2>1. CASE runs' = runs
    BY <2>1, Untouched DEF CronInv
  <2>2. CASE runs' = [runs EXCEPT ![i] = e]
    <3> HIDE DEF e
    <3>1. QED
      BY <1>4, <2>2, OneTouched DEF CronInv
  <2>3. QED
    BY <1>3, <2>1, <2>2
<1>6. CASE EndTick(r) /\ (failures' = failures \/ Failure)
  <2>1. Over(r, "idle")
    BY <1>1, <1>2, <1>5, <1>6 DEF Over, EndTick, statusVars
  <2>2. QED
    BY <1>1, <2>1, TickEnds
<1>7. CASE /\ runs' = [runs EXCEPT ![i] = e]
           /\ todo' = [todo EXCEPT ![r] = @ \ {i}]
           /\ Goto(r, IF todo[r] = {i} THEN "spawn" ELSE "cancel")
           /\ UNCHANGED <<obj, dueSince, found, spawned, failures>>
  <2>1. PICK x \in {"spawn", "cancel"} : Goto(r, x) /\ (x = "spawn" => todo[r] = {i})
    BY <1>7
  <2>2. x \in Steps \ {"record"}
    BY DEF Steps
  <2>3. LocalType' /\ step'[r] = x /\ todo'[r] = todo[r] \ {i}
    BY <1>2, <1>7, <2>1, <2>2 DEF CronInv, TypeInv, LocalType, Goto
  <2>4. TypeInv'
    BY <1>1, <1>2, <1>5, <1>7, <2>3, TickType DEF statusVars, NothingStarted
  <2>5. Quiet(r, x)
    BY <1>1, <1>5, <1>7, <2>1 DEF Quiet, statusVars
  <2>6. DueTrue(r)'
    BY <1>1, <1>2, <1>5, <1>7, <2>3
       DEF DueTrue, Deciding, envVars, statusVars, NothingStarted
  <2>7. job' = job /\ job.policy = "Replace"
        /\ \A k \in Ongoing : k \in todo[r] \/ runs[k].cancel
    BY <1>1, <1>2 DEF MaySpawn, envVars
  <2>8. i \in DOMAIN runs => runs'[i].cancel
    BY <1>4, <1>7
  <2>9. ASSUME NEW k \in Ongoing' PROVE k \in todo'[r] \/ runs'[k].cancel
    <3>1. k \in Ongoing /\ k \in DOMAIN runs /\ (runs[k].cancel => runs'[k].cancel)
      BY <1>5, <2>9 DEF NothingStarted, Ongoing, Scheduled
    <3>2. k \in todo[r] \/ runs[k].cancel
      BY <2>7, <3>1
    <3>3. CASE k = i
      BY <2>8, <3>1, <3>3
    <3>4. CASE k # i
      BY <2>3, <3>1, <3>2, <3>4
    <3>5. QED
      BY <3>3, <3>4
  <2>10. x = "spawn" => todo'[r] = {}
    BY <2>1, <2>3
  <2>11. MaySpawn(r)'
    BY <2>3, <2>7, <2>9, <2>10 DEF MaySpawn
  <2>12. QED
    BY <1>1, <2>2, <2>4, <2>5, <2>6, <2>11, QuietTick
<1>8. QED
  BY <1>3, <1>6, <1>7 DEF Throws

(* One run is spawned: a time or a failure pays for it.                     *)
LEMMA SpawnBurst ==
  ASSUME CronInv, NEW r \in Replicas, step[r] = "spawn",
         runs' = Append(runs, Run(dueSince[r], r)),
         UNCHANGED <<envVars, lastSchedule>>, InFlight = 0, InFlight' \in {0, 1},
         failures' \in Nat, InFlight' + failures' = failures + 1
  PROVE  BurstInv'
<1> SUFFICES ASSUME NEW t \in 1..passed' PROVE Cardinality(Since(t)') <= Allowed(t)'
  BY DEF BurstInv
<1> DEFINE e == Run(dueSince[r], r)
           n == Len(runs) + 1
<1>1. passed \in Nat /\ lastSchedule \in Nat /\ failures \in Nat /\ t \in 1..passed
      /\ dueSince[r] \in 0..MaxTimes
  BY LocalFacts DEF envVars
<1>2. e \in AnyRun
  BY <1>1 DEF AnyRun, Run, Phases
<1> HIDE DEF e
<1>3. runs' = Append(runs, e)
  BY DEF e
<1>4. /\ DOMAIN runs' = DOMAIN runs \cup {n} /\ runs'[n] = e
      /\ \A i \in DOMAIN runs : runs'[i] = runs[i]
  BY <1>2, <1>3, Added DEF CronInv
<1>5. Since(t)' \subseteq Since(t) \cup {n}
  BY <1>4 DEF Since, Scheduled
<1>6. IsFiniteSet(Since(t)) /\ Cardinality(Since(t)) \in Nat
  BY SinceFinite DEF CronInv
<1>7. /\ IsFiniteSet(Since(t) \cup {n})
      /\ Cardinality(Since(t) \cup {n}) \in {Cardinality(Since(t)), Cardinality(Since(t)) + 1}
  BY <1>6, FS_AddElement
<1>8. /\ Cardinality(Since(t)') <= Cardinality(Since(t) \cup {n})
      /\ Cardinality(Since(t)') \in Nat
  BY <1>5, <1>7, FS_Subset, FS_CardinalityType
<1>9. Cardinality(Since(t)) <= Passed(t) + failures /\ Passed(t) \in Nat
  BY <1>1, AllowedType DEF CronInv, BurstInv, Allowed
<1>10. Passed(t)' = Passed(t)
  BY DEF Passed
<1> HIDE DEF Since
<1>11. Allowed(t)' = Passed(t) + InFlight' + failures'
  BY <1>10 DEF Allowed
<1>12. Cardinality(Since(t)') <= Cardinality(Since(t)) + 1
  <2> DEFINE c == Cardinality(Since(t))
             d == Cardinality(Since(t) \cup {n})
  <2>1. c \in Nat /\ d \in {c, c + 1} /\ Cardinality(Since(t)') <= d
    BY <1>6, <1>7, <1>8
  <2> HIDE DEF d, c
  <2>2. Cardinality(Since(t)') <= c + 1
    BY <1>8, <2>1
  <2>3. QED
    BY <2>2 DEF c
<1>13. Allowed(t)' = Passed(t) + failures + 1
  <2>1. InFlight' \in Nat /\ failures' \in Nat /\ failures \in Nat /\ Passed(t) \in Nat
    BY <1>1, <1>9
  <2>2. Passed(t) + InFlight' + failures' = Passed(t) + (InFlight' + failures')
    BY <2>1
  <2>3. Passed(t) + (failures + 1) = Passed(t) + failures + 1
    BY <2>1
  <2>4. QED
    BY <1>11, <2>2, <2>3
<1>14. QED
  BY <1>1, <1>6, <1>8, <1>9, <1>12, <1>13

(* The new run is the youngest, and what the policy asks of the others was  *)
(* done.                                                                    *)
LEMMA SpawnOrder ==
  ASSUME CronInv, NEW r \in Replicas, step[r] = "spawn",
         runs' = Append(runs, Run(dueSince[r], r)), UNCHANGED envVars
  PROVE  InOrder' /\ ConcurrencyPolicy' /\ runs' \in Seq(AnyRun)
<1> DEFINE e == Run(dueSince[r], r)
           n == Len(runs) + 1
<1>1. /\ passed \in Nat /\ dueSince[r] \in 0..MaxTimes /\ DueTrue(r) /\ MaySpawn(r)
      /\ passed' = passed /\ job' = job
  BY LocalFacts DEF envVars
<1>2. e \in AnyRun /\ e.origin = dueSince[r]
  BY <1>1 DEF AnyRun, Run, Phases
<1> HIDE DEF e
<1>3. runs' = Append(runs, e)
  BY DEF e
<1>4. /\ DOMAIN runs' = DOMAIN runs \cup {n} /\ runs'[n] = e
      /\ \A i \in DOMAIN runs : runs'[i] = runs[i] /\ i < n
      /\ runs' \in Seq(AnyRun)
  BY <1>2, <1>3, Added DEF CronInv
<1>5. /\ Len(runs) \in Nat /\ DOMAIN runs = 1..Len(runs)
      /\ \A i \in DOMAIN runs : runs[i].origin \in Nat
  BY RunsFacts DEF CronInv
<1>6. /\ dueSince[r] <= passed /\ dueSince[r] \in Nat
      /\ \A i \in Scheduled : runs[i].origin <= dueSince[r]
  BY <1>1 DEF DueTrue, Deciding
<1>7. /\ Scheduled' \subseteq Scheduled \cup {n} /\ Scheduled \subseteq DOMAIN runs
      /\ \A i \in Scheduled' : i # n => i \in Scheduled /\ runs'[i] = runs[i] /\ i < n
  BY <1>4 DEF Scheduled
<1>8. InOrder'
  <2>1. ASSUME NEW i \in Scheduled' PROVE runs'[i].origin <= passed'
    BY <1>1, <1>2, <1>4, <1>6, <1>7, <2>1 DEF CronInv, InOrder
  <2>2. ASSUME NEW i \in Scheduled', NEW j \in Scheduled', i < j
        PROVE  runs'[i].origin <= runs'[j].origin
    <3>1. i # n
      BY <1>4, <1>5, <1>7, <2>2
    <3>2. CASE j = n
      BY <1>2, <1>4, <1>6, <1>7, <3>1, <3>2
    <3>3. CASE j # n
      BY <1>7, <2>2, <3>1, <3>3 DEF CronInv, InOrder
    <3>4. QED
      BY <3>2, <3>3
  <2>3. QED
    BY <2>1, <2>2 DEF InOrder
<1>9. \A i \in Ongoing' : i # n => i \in Ongoing /\ runs'[i] = runs[i] /\ i < n
  BY <1>4, <1>7 DEF Ongoing, With, Stored
<1>10. ConcurrencyPolicy'
  <2>1. ASSUME NEW i \in Ongoing', NEW j \in Ongoing', i < j
        PROVE  job.policy # "Forbid" /\ (job.policy = "Replace" => runs'[i].cancel)
    <3>1. i # n /\ i \in Ongoing /\ runs'[i] = runs[i]
      <4>1. i # n
        BY <1>5, <1>7, <2>1 DEF Ongoing
      <4>2. QED
        BY <1>9, <4>1
    <3>2. CASE j = n
      BY <1>1, <3>1 DEF MaySpawn
    <3>3. CASE j # n
      <4>1. j \in Ongoing
        BY <1>9, <3>3
      <4>2. job.policy # "Forbid" /\ (job.policy = "Replace" => runs[i].cancel)
        BY <2>1, <3>1, <4>1 DEF CronInv, ConcurrencyPolicy, Ongoing
      <4>3. QED
        BY <3>1, <4>2
    <3>4. QED
      BY <3>2, <3>3
  <2>2. QED
    BY <1>1, <2>1 DEF ConcurrencyPolicy, Ongoing
<1>11. QED
  BY <1>4, <1>8, <1>10

LEMMA SpawnStep ==
  ASSUME CronInv, NEW r \in Replicas, Spawn(r)
  PROVE  CronInv'
<1>1. UNCHANGED <<leaders, envVars, statusVars>> /\ step[r] = "spawn"
  BY DEF Spawn
<1>2. /\ lastRun \in Nat /\ active \in SUBSET Nat /\ failures \in Nat /\ DueTrue(r)
      /\ passed \in Nat /\ lastSchedule \in 0..passed /\ dueSince[r] \in 0..MaxTimes
  BY LocalFacts, BoundsAssumption
<1>3. CASE Throws(r) /\ runs' = runs
  <2>1. NothingStarted
    BY <1>3, Untouched DEF CronInv
  <2>2. Over(r, "idle")
    BY <1>1, <1>2, <1>3, <2>1 DEF Over, Throws, EndTick, statusVars
  <2>3. QED
    BY <1>1, <2>2, TickEnds
<1>4. ASSUME runs' = Append(runs, Run(dueSince[r], r)), NEW x \in {"record", "idle"},
             Goto(r, x), LocalType', failures' = failures \/ Failure,
             x = "record" <=> failures' = failures
      PROVE  CronInv'
  <2>1. x \in Steps
    BY DEF Steps
  <2>2. /\ OneTicks' /\ step'[r] = x
        /\ \A s \in Replicas \ {r} : step'[s] = "idle" /\ step[s] = "idle"
        /\ Recording <=> step[r] = "record"
        /\ Recording' <=> x = "record"
    BY <1>1, <1>4, <2>1, Others
  <2>3. InOrder' /\ ConcurrencyPolicy' /\ runs' \in Seq(AnyRun)
    BY <1>1, <1>4, SpawnOrder
  <2>4. TypeInv' /\ failures' \in {failures, failures + 1}
    BY <1>1, <1>2, <1>4, <2>3, TickType DEF statusVars
  <2>5. /\ InFlight = 0 /\ InFlight' \in {0, 1} /\ InFlight' + failures' = failures + 1
        /\ failures' \in Nat
    <3>1. InFlight = 0
      BY <1>1, <2>2 DEF InFlight
    <3>2. CASE x = "record"
      <4>1. InFlight' = 1 /\ failures' = failures
        BY <1>4, <2>2, <3>2 DEF InFlight
      <4>2. QED
        BY <1>2, <3>1, <4>1
    <3>3. CASE x = "idle"
      <4>1. InFlight' = 0
        BY <2>2, <3>3 DEF InFlight
      <4>2. failures' = failures + 1
        BY <1>4, <2>4, <3>3
      <4>3. QED
        BY <1>2, <3>1, <4>1, <4>2
    <3>4. QED
      BY <3>2, <3>3
  <2>6. BurstInv'
    BY <1>1, <1>2, <1>4, <2>4, <2>5, SpawnBurst DEF statusVars
  <2>7. lastSchedule' < passed' /\ lastSchedule' = lastSchedule
    BY <1>1, <1>2 DEF DueTrue, Deciding, statusVars, envVars
  <2>8. ASSUME NEW s \in Replicas PROVE DueTrue(s)' /\ MaySpawn(s)'
    BY <2>2, <2>7 DEF DueTrue, MaySpawn, Deciding
  <2>9. QED
    BY <2>2, <2>3, <2>4, <2>6, <2>8 DEF CronInv, TickInv
<1>5. CASE Throws(r) /\ runs' = Append(runs, Run(dueSince[r], r))
  <2>1. Goto(r, "idle") /\ ClearLocals(r) /\ Failure
    BY <1>5 DEF Throws, EndTick
  <2>2. LocalType'
    BY <2>1, Cleared DEF Steps
  <2>3. failures' # failures
    BY <1>2, <2>1 DEF Failure
  <2>4. QED
    BY <1>4, <1>5, <2>1, <2>2, <2>3
<1>6. CASE /\ Goto(r, "record")
           /\ runs' = Append(runs, Run(dueSince[r], r))
           /\ spawned' = [spawned EXCEPT ![r] = Len(runs) + 1]
           /\ UNCHANGED <<obj, dueSince, todo, found, failures>>
  <2>1. Len(runs) + 1 \in Nat /\ "record" \in Steps
    BY RunsFacts DEF CronInv, Steps
  <2>2. LocalType'
    BY <1>6, <2>1 DEF CronInv, TypeInv, LocalType, Goto
  <2>3. QED
    BY <1>4, <1>6, <2>2
<1>7. QED
  BY <1>3, <1>5, <1>6 DEF Spawn

(* The second half of a tick: history and status.                           *)
LEMMA AfterSchedule ==
  ASSUME CronInv, NEW r \in Replicas, step[r] # "idle", step[r] # "record",
         NEW x \in {"prune", "report"}, Goto(r, x),
         UNCHANGED <<leaders, envVars, statusVars>>,
         LocalType', NothingStarted, failures' = failures \/ Failure
  PROVE  CronInv'
<1>1. lastRun \in Nat /\ active \in SUBSET Nat
  BY LocalFacts
<1>2. TypeInv' /\ failures' \in {failures, failures + 1}
  BY <1>1, TickType DEF statusVars, NothingStarted
<1>3. x \in Steps \ {"record"}
  BY DEF Steps
<1>4. Quiet(r, x)
  BY <1>2 DEF Quiet, statusVars
<1>5. step'[r] = x
  BY DEF Goto, CronInv, TypeInv, LocalType
<1>6. DueTrue(r)' /\ MaySpawn(r)'
  BY <1>5 DEF DueTrue, MaySpawn, Deciding
<1>7. QED
  BY <1>2, <1>3, <1>4, <1>6, QuietTick

LEMMA ListAllStep ==
  ASSUME CronInv, NEW r \in Replicas, ListAll(r)
  PROVE  CronInv'
<1>1. /\ UNCHANGED <<leaders, envVars, statusVars, runs>>
      /\ step[r] = "listAll" /\ NothingStarted
  BY Untouched DEF ListAll, CronInv
<1>2. lastRun \in Nat /\ active \in SUBSET Nat
  BY LocalFacts
<1>3. CASE Throws(r)
  <2>1. Over(r, "idle")
    BY <1>1, <1>2, <1>3 DEF Over, Throws, EndTick, statusVars
  <2>2. QED
    BY <1>1, <2>1, TickEnds
<1>4. CASE /\ todo' = [todo EXCEPT ![r] = ToPrune]
           /\ found' = [found EXCEPT ![r] = With("Active")]
           /\ Goto(r, IF ToPrune = {} THEN "report" ELSE "prune")
           /\ UNCHANGED <<obj, dueSince, spawned, failures>>
  <2>1. ToPrune \in SUBSET Nat /\ With("Active") \in SUBSET Nat
    <3>1. \A phase : With(phase) \in SUBSET Nat
      BY RunsFacts DEF CronInv, With
    <3>2. QED
      BY <3>1 DEF ToPrune, AllButLast
  <2>2. PICK x \in {"prune", "report"} : Goto(r, x)
    BY <1>4
  <2>3. LocalType'
    <3> HIDE DEF ToPrune, With
    <3>1. x \in Steps
      BY DEF Steps
    <3>2. QED
      BY <1>4, <2>1, <2>2, <3>1 DEF CronInv, TypeInv, LocalType, Goto
  <2>4. QED
    BY <1>1, <1>4, <2>2, <2>3, AfterSchedule
<1>5. QED
  BY <1>3, <1>4 DEF ListAll

LEMMA PruneStep ==
  ASSUME CronInv, NEW r \in Replicas, Prune(r)
  PROVE  CronInv'
<1> DEFINE i == NextToPrune(todo[r])
           e == [runs[i] EXCEPT !.stored = FALSE]
<1>1. UNCHANGED <<leaders, envVars, statusVars, obj, dueSince, found, spawned>>
      /\ step[r] = "prune"
  BY DEF Prune
<1>2. /\ \/ runs' = [runs EXCEPT ![i] = e] /\ UNCHANGED failures
         \/ Failure /\ UNCHANGED runs
      /\ todo' = [todo EXCEPT ![r] = @ \ {i}]
  BY DEF Prune
<1>3. PICK x \in {"prune", "report"} : Goto(r, x)
  BY DEF Prune
<1>4. i \in DOMAIN runs => e \in AnyRun /\ Touched(e, runs[i])
  BY RunsFacts DEF CronInv, AnyRun, Touched
<1> HIDE DEF e, i
<1>5. NothingStarted /\ (failures' = failures \/ Failure)
  BY <1>2, <1>4, OneTouched, Untouched DEF CronInv
<1>6. x \in Steps /\ todo[r] \in SUBSET Nat
  BY LocalFacts DEF Steps
<1>7. LocalType'
  BY <1>1, <1>2, <1>3, <1>6 DEF CronInv, TypeInv, LocalType, Goto
<1>8. QED
  BY <1>1, <1>3, <1>5, <1>7, AfterSchedule

LEMMA ReportStep ==
  ASSUME CronInv, NEW r \in Replicas, Report(r)
  PROVE  CronInv'
<1>1. /\ UNCHANGED <<leaders, envVars, lastSchedule, lastRun, runs>>
      /\ step[r] = "report" /\ NothingStarted
  BY Untouched DEF Report, CronInv
<1>2. lastRun \in Nat /\ active \in SUBSET Nat /\ found[r] \in SUBSET Nat
  BY LocalFacts
<1>3. /\ Goto(r, "idle") /\ ClearLocals(r) /\ active' \in {active, found[r]}
      /\ failures' = failures \/ Failure
  BY DEF Report, Throws, EndTick
<1>4. Over(r, "idle")
  BY <1>1, <1>2, <1>3 DEF Over
<1>5. QED
  BY <1>1, <1>4, TickEnds

----------------------------------------------------------------------------
(* Leadership *)

LEMMA LeadStep ==
  ASSUME CronInv, NEW r \in Replicas, Lead(r)
  PROVE  CronInv'
<1>1. /\ leaders = {} /\ leaders' = {r}
      /\ UNCHANGED <<envVars, statusVars, runs, step, localVars, failures>>
  BY DEF Lead, Leader!StartLeading
<1>2. TypeInv'
  BY <1>1 DEF CronInv, TypeInv, EnvType, StatusType, LocalType, envVars, statusVars, localVars
<1>3. OneTicks'
  BY <1>1 DEF CronInv, OneTicks
<1>4. \A s \in Replicas : step'[s] = "idle"
  BY <1>1 DEF CronInv, OneTicks
<1>5. TickInv'
  BY <1>4 DEF TickInv, DueTrue, MaySpawn, Deciding
<1>6. NothingStarted /\ job' = job /\ passed' = passed
  BY <1>1, Untouched DEF CronInv, envVars
<1>7. InOrder' /\ ConcurrencyPolicy'
  BY <1>6, QuietOrder
<1>8. BurstInv'
  BY <1>1, <1>6 DEF CronInv, BurstInv, Since, Scheduled, Allowed, Passed, InFlight, Recording,
                     statusVars
<1>9. QED
  BY <1>2, <1>3, <1>5, <1>7, <1>8 DEF CronInv

(* The process of a leader ends, in the middle of its tick or between two.  *)
LEMMA StopStep ==
  ASSUME CronInv, NEW r \in Replicas, Stop(r)
  PROVE  CronInv'
<1>1. /\ Failure /\ r \in leaders /\ leaders' = leaders \ {r}
      /\ Goto(r, "idle") /\ ClearLocals(r)
      /\ UNCHANGED <<envVars, statusVars, runs>>
  BY DEF Stop, Leader!StopLeading, EndTick
<1>2. \A s \in Replicas : step'[s] = "idle"
  BY <1>1 DEF CronInv, OneTicks, TypeInv, LocalType, Goto
<1>3. LocalType'
  BY <1>1, Cleared DEF Steps
<1>4. failures \in Nat /\ failures' \in 0..MaxFailures /\ failures' = failures + 1
  BY <1>1, BoundsAssumption DEF Failure, CronInv, TypeInv
<1>5. TypeInv'
  BY <1>1, <1>3, <1>4 DEF CronInv, TypeInv, EnvType, StatusType, envVars, statusVars
<1>6. OneTicks' /\ TickInv'
  BY <1>1, <1>2 DEF CronInv, OneTicks, TickInv, DueTrue, MaySpawn, Deciding
<1>7. NothingStarted /\ job' = job /\ passed' = passed
  BY <1>1, Untouched DEF CronInv, envVars
<1>8. InOrder' /\ ConcurrencyPolicy'
  BY <1>7, QuietOrder
<1>9. ASSUME NEW t \in 1..passed' PROVE Cardinality(Since(t)') <= Allowed(t)'
  <2>1. t \in 1..passed /\ t \in Nat /\ lastSchedule \in Nat
    BY <1>7, LocalFacts, <1>9
  <2>2. Cardinality(Since(t)) <= Allowed(t) /\ Cardinality(Since(t)) \in Nat
    BY <2>1, SinceFinite DEF CronInv, BurstInv
  <2>3. Passed(t) \in Nat /\ InFlight \in {0, 1} /\ Passed(t)' = Passed(t) /\ InFlight' = 0
    BY <1>1, <1>2, <2>1, AllowedType DEF Passed, InFlight, Recording, statusVars
  <2>4. Allowed(t) <= Allowed(t)' /\ Allowed(t) \in Nat /\ Allowed(t)' \in Nat
    BY <1>4, <2>3 DEF Allowed
  <2>5. Cardinality(Since(t)') = Cardinality(Since(t))
    BY <1>7, QuietSince
  <2> HIDE DEF Since
  <2>6. QED
    BY <2>2, <2>4, <2>5
<1>10. QED
  BY <1>5, <1>6, <1>8, <1>9 DEF CronInv, BurstInv

----------------------------------------------------------------------------
(* The invariant *)

LEMMA InitCron == Init => CronInv
<1> SUFFICES ASSUME Init PROVE CronInv
  OBVIOUS
<1>1. MaxTimes \in Nat /\ MaxFailures \in Nat /\ MaxUserActions \in Nat
  BY BoundsAssumption
<1>2. leaders = {} /\ runs = <<>> /\ \A r \in Replicas : step[r] = "idle"
  BY DEF Init, Leader!Init
<1>3. job \in Specs
  BY DEF Init, Specs
<1>4. (CHOOSE p \in Policies : TRUE) \in Policies
  <2>1. job.policy \in Policies
    BY <1>3 DEF Specs
  <2>2. QED
    BY <2>1, Zenon
<1>5. NoObj \in Objs
  BY <1>1, <1>4 DEF NoObj, Objs, Specs
<1>6. LocalType
  BY <1>1, <1>5 DEF Init, LocalType, Steps
<1>7. TypeInv
  <2>1. runs \in Seq(AnyRun)
    BY <1>2, EmptySeq
  <2>2. EnvType /\ StatusType
    BY <1>1, <1>3 DEF Init, EnvType, StatusType
  <2>3. QED
    BY <1>1, <1>2, <1>6, <2>1, <2>2 DEF Init, TypeInv
<1>8. Scheduled = {} /\ passed = 0
  BY <1>2 DEF Scheduled, Init
<1>9. OneTicks /\ TickInv
  BY <1>2 DEF OneTicks, TickInv, DueTrue, MaySpawn, Deciding
<1>10. InOrder /\ BurstInv /\ ConcurrencyPolicy
  BY <1>8 DEF InOrder, BurstInv, ConcurrencyPolicy
<1>11. QED
  BY <1>7, <1>9, <1>10 DEF CronInv

LEMMA NextCron == CronInv /\ [Next]_vars => CronInv'
<1> SUFFICES ASSUME CronInv, [Next]_vars PROVE CronInv'
  OBVIOUS
<1>1. CASE \E r \in Replicas : Tick(r)
  BY <1>1, ListJobsStep, EvaluateStep, ListActiveStep, SkipStep, CancelStep, SpawnStep,
     RecordStep, ListAllStep, PruneStep, ReportStep DEF Tick
<1>2. CASE UNCHANGED vars
  <2>1. /\ UNCHANGED <<leaders, statusVars, step, localVars, failures>> /\ NothingStarted
        /\ passed' = passed /\ job' = job /\ EnvType'
    BY <1>2, Untouched DEF vars, envVars, CronInv, TypeInv, EnvType
  <2>2. TypeInv'
    BY <2>1, TypeKept DEF CronInv, NothingStarted
  <2>3. QED
    BY <2>1, <2>2, NoTick
<1>3. QED
  BY <1>1, <1>2, TimeStep, FinishStep, UserStep, LeadStep, StopStep DEF Next

(* A tick acts on what it decided by, and what it spawns is paid for, by a  *)
(* scheduled time or by a failure.                                          *)
THEOREM CronInvariant == Spec => []CronInv
<1>1. Init => CronInv
  BY InitCron
<1>2. CronInv /\ [Next]_vars => CronInv'
  BY NextCron
<1>3. QED
  BY <1>1, <1>2, PTL DEF Spec

(* With Forbid no run of the schedule starts beside another one, with       *)
(* Replace all but the newest have been asked to stop: whatever users do,   *)
(* calls fail and leaders stop between listOwnedRuns and spawnRun of        *)
(* reconcileAnsibleJobs.                                                    *)
THEOREM PolicyKept == Spec => []ConcurrencyPolicy
BY CronInvariant, PTL DEF CronInv

(* The schedule never catches up in a burst, and runs follow each other in  *)
(* the order of their times (mostRecentFireTime, and lastScheduleTime,      *)
(* which is patched after spawnRun).                                        *)
THEOREM Paced == Spec => []NoBurst
<1>1. ASSUME CronInv PROVE NoBurst
  <2>1. passed \in Nat /\ lastSchedule \in 0..passed /\ failures \in Nat
    BY <1>1, BoundsAssumption DEF CronInv, TypeInv, EnvType, StatusType
  <2>2. ASSUME NEW t \in 1..passed
        PROVE  Cardinality(Since(t)) <= (passed - t + 1) + failures
    <3>1. Cardinality(Since(t)) <= Allowed(t) /\ Cardinality(Since(t)) \in Nat
      BY <1>1, SinceFinite DEF CronInv, BurstInv
    <3>2. Recording => lastSchedule < passed
      BY <1>1 DEF Recording, CronInv, TickInv, DueTrue
    <3>3. Passed(t) + InFlight <= passed - t + 1
      BY <2>1, <3>2 DEF Passed, TimesUpTo, InFlight
    <3>4. Passed(t) \in Nat /\ InFlight \in {0, 1}
      BY <2>1, AllowedType
    <3>5. Allowed(t) <= (passed - t + 1) + failures /\ Allowed(t) \in Nat
      BY <2>1, <3>3, <3>4 DEF Allowed
    <3>6. QED
      BY <2>1, <3>1, <3>5
  <2>3. QED
    BY <1>1, <2>2 DEF NoBurst, Since, CronInv, InOrder
<1>2. QED
  BY <1>1, CronInvariant, PTL
==============================================================================
