--------------------------- MODULE ParallelRunProofs ---------------------------
(***************************************************************************)
(* Parallel runs (operator/src/controllers/run-controller.ts), for any     *)
(* inventories, shard size, limit, number of failing calls and crashes:    *)
(* what ParallelRun's invariants promise while reconciles of the run do    *)
(* not overlap.  What it rests on, that shardHosts divides the hosts among *)
(* the shards and limitForHostNames finds them again, is proved in         *)
(* HostShardingProofs.                                                     *)
(***************************************************************************)
EXTENDS ParallelRun, HostShardingProofs

-----------------------------------------------------------------------------
(***************************************************************************)
(* Types.  TypeInv is TypeOK with the run's shards no more than MaxShards. *)
(***************************************************************************)

(* The types of what is computed from an inventory.                        *)
LEMMA InventoryTyped ==
  ASSUME NEW g \in Inventories
  PROVE  /\ g \in Seq(Seq(Hosts))
         /\ ShardHosts(g, MaxAmountOfHosts) \in Seq([hostNames: Seq(HostNames), limit: SUBSET {h.inv : h \in Hosts}])
         /\ \A limit : AnsibleTargets(g, limit) \subseteq InvNames
<1>1. g \in Seq(Seq(Hosts)) BY ParallelAssumption
<1>2. ShardHosts(g, MaxAmountOfHosts) \in Seq([hostNames: Seq(HostNames), limit: SUBSET {h.inv : h \in Hosts}])
  <2>1. ShardsOf(Hosts, Listed(g), MaxAmountOfHosts, ShardHosts(g, MaxAmountOfHosts))
    BY <1>1, ParallelAssumption, ShardHostsCorrect DEF Listed
  <2> QED BY <2>1 DEF ShardsOf, HostNames
<1>3. \A limit : AnsibleTargets(g, limit) \subseteq AnsibleTargets(g, {}) BY DEF AnsibleTargets
<1>4. AnsibleTargets(g, {}) \subseteq InvNames BY DEF InvNames
<1> QED BY <1>1, <1>2, <1>3, <1>4

(* A ConfigMap that was not written lists nobody.                          *)
LEMMA NoTargets == \A limit : AnsibleTargets(<<>>, limit) = {}
<1>1. Flatten(<<>>) = <<>>
  <2>1. Len(<<>>) = 0 OBVIOUS
  <2> QED BY <2>1 DEF Flatten, FlattenSeq
<1>2. {InventoryHostname(h) : h \in ToSet(<<>>)} = {} BY DEF ToSet
<1> QED BY <1>1, <1>2 DEF AnsibleTargets

(* MaxShards is a number, and bounds the shards of each inventory.         *)
LEMMA MaxShardsBound ==
  /\ MaxShards \in Nat
  /\ \A g \in Inventories : Len(ShardHosts(g, MaxAmountOfHosts)) <= MaxShards
<1> DEFINE S == {Len(ShardHosts(g, MaxAmountOfHosts)) : g \in Inventories}
<1> DEFINE f == [g \in Inventories |-> Len(ShardHosts(g, MaxAmountOfHosts))]
<1>1. S \in SUBSET Nat
  <2>1. \A g \in Inventories : Len(ShardHosts(g, MaxAmountOfHosts)) \in Nat BY InventoryTyped
  <2> QED BY <2>1
<1>2. IsFiniteSet(S)
  <2>1. f \in Surjection(Inventories, S) BY DEF Surjection
  <2>2. IsFiniteSet(Inventories) BY ParallelAssumption
  <2> HIDE DEF f, S
  <2> QED BY <2>1, <2>2, FS_Surjection
<1>3. S # {} BY ParallelAssumption
<1>4. MaxShards = Max(S) BY DEF MaxShards
<1> HIDE DEF S
<1>5. Max(S) \in S /\ \A n \in S : n <= Max(S) BY <1>1, <1>2, <1>3, MaxMember
<1> QED BY <1>1, <1>4, <1>5 DEF S

(***************************************************************************)
(* The first n of a set of indices.                                        *)
(***************************************************************************)
LEMMA FirstOfCorrect ==
  ASSUME NEW S \in SUBSET Nat, IsFiniteSet(S), NEW n \in Nat
  PROVE  /\ FirstOf(S, n) \subseteq S
         /\ \A k \in FirstOf(S, n), l \in S : l < k => l \in FirstOf(S, n)
         /\ IsFiniteSet(FirstOf(S, n)) /\ Cardinality(FirstOf(S, n)) <= n
         /\ n > 0 /\ S # {} => FirstOf(S, n) # {}
<1> DEFINE upTo(k) == {l \in S : l <= k}
<1> DEFINE F == FirstOf(S, n)
<1>1. ASSUME NEW k \in S PROVE IsFiniteSet(upTo(k)) /\ Cardinality(upTo(k)) \in Nat
  <2>1. IsFiniteSet(upTo(k)) BY FS_Subset
  <2> QED BY <2>1, FS_CardinalityType
<1>2. F \subseteq S /\ \A k \in F : Cardinality(upTo(k)) <= n BY DEF FirstOf
<1>3. ASSUME NEW k \in F, NEW l \in S, l < k PROVE l \in F
  <2>1. k \in S /\ k \in Nat /\ l \in Nat BY <1>2
  <2>2. upTo(l) \subseteq upTo(k)
    <3>1. SUFFICES ASSUME NEW x \in S, x <= l PROVE x <= k OBVIOUS
    <3>2. x \in Nat OBVIOUS
    <3> QED BY <3>1, <3>2, <2>1, <1>3
  <2> HIDE DEF upTo
  <2>3. Cardinality(upTo(l)) <= Cardinality(upTo(k)) BY <2>1, <2>2, <1>1, FS_Subset
  <2>4. Cardinality(upTo(l)) <= n BY <2>1, <2>3, <1>1, <1>2
  <2> QED BY <2>4 DEF FirstOf, upTo
<1>4. IsFiniteSet(F) BY <1>2, FS_Subset
<1>5. Cardinality(F) \in Nat BY <1>4, FS_CardinalityType
<1>6. Cardinality(F) <= n
  <2>1. CASE F = {}
    <3>1. Cardinality(F) = 0 BY <2>1, FS_EmptySet
    <3> QED BY <3>1
  <2>2. CASE F # {}
    <3> HIDE DEF F
    <3>1. F \in SUBSET Nat BY <1>2
    <3>2. PICK m \in F : \A k \in F : k <= m BY <3>1, <1>4, <2>2, LargestOf
    <3>3. F \subseteq upTo(m) /\ m \in S BY <3>2, <1>2
    <3> HIDE DEF upTo
    <3>4. Cardinality(F) <= Cardinality(upTo(m)) BY <3>3, <1>1, FS_Subset
    <3> QED BY <3>2, <3>3, <3>4, <1>1, <1>2, <1>5
  <2> QED BY <2>1, <2>2
<1>7. ASSUME n > 0, S # {} PROVE F # {}
  <2>1. PICK m \in S : \A k \in S : m <= k BY <1>7, LeastNatural
  <2>2. upTo(m) = {m}
    <3>1. \A x \in S : x <= m => x = m
      <4>1. \A x \in S : x \in Nat /\ m \in Nat OBVIOUS
      <4> QED BY <4>1, <2>1
    <3>2. m <= m OBVIOUS
    <3> QED BY <3>1, <3>2
  <2>3. Cardinality(upTo(m)) = 1 BY <2>2, FS_Singleton
  <2>4. Cardinality(upTo(m)) <= n BY <2>3, <1>7
  <2>5. m \in F BY <2>4 DEF FirstOf
  <2> QED BY <2>5
<1> HIDE DEF F
<1> QED BY <1>2, <1>3, <1>4, <1>6, <1>7 DEF F

(* The first n of 1..m are an initial part of it.                          *)
LEMMA FirstOfInterval ==
  ASSUME NEW m \in Nat, NEW n \in Nat
  PROVE  FirstOf(1..m, n) = {k \in 1..m : k <= n}
<1>1. ASSUME NEW k \in 1..m PROVE Cardinality({l \in 1..m : l <= k}) = k
  <2>1. {l \in 1..m : l <= k} = 1..k OBVIOUS
  <2>2. Cardinality(1..k) = k
    <3>1. 1 \in Int /\ k \in Int /\ k >= 1 OBVIOUS
    <3>2. Cardinality(1..k) = IF 1 > k THEN 0 ELSE k - 1 + 1 BY <3>1, FS_Interval
    <3> QED BY <3>1, <3>2
  <2> QED BY <2>1, <2>2
<1> QED BY <1>1 DEF FirstOf

(***************************************************************************)
(* Types.                                                                  *)
(***************************************************************************)
ShardSeqs == {s \in Seq(Shards) : Len(s) <= MaxShards}
RunsTyped == cr \in [cancel: BOOLEAN, phase: Phases, shards: ShardSeqs]

JobsTyped ==
  /\ jobs \in [Indices -> [state: {"absent", "active"} \cup Results,
                           targets: SUBSET InvNames, ttl: BOOLEAN]]
  /\ outcomes \in [Indices -> SUBSET Results]
  /\ acted \in [InvNames -> 0..2]

LocalTyped ==
  /\ pc \in [Workers -> Steps]
  /\ obj \in [Workers -> [cancel: BOOLEAN, phase: Phases, shards: ShardSeqs]]
  /\ updated \in [Workers -> ShardSeqs]
  /\ todo \in [Workers -> SUBSET Indices]
  /\ groups \in [Workers -> Inventories \cup {<<>>}]

WorldTyped ==
  /\ inventory \in Inventories /\ configMap \in Inventories \cup {<<>>}
  /\ up \in BOOLEAN /\ armed \in BOOLEAN
  /\ faults \in 0..MaxFaults /\ crashes \in 0..MaxCrashes

TypeInv == RunsTyped /\ JobsTyped /\ LocalTyped /\ WorldTyped

(* TypeInv is stronger than TypeOK.                                        *)
LEMMA TypeInvSuffices == TypeInv => TypeOK
<1> SUFFICES ASSUME TypeInv PROVE TypeOK OBVIOUS
<1> USE DEF TypeInv
<1>1. \A s \in ShardSeqs : s \in Seq(Shards) BY DEF ShardSeqs
<1>2. cr \in Runs BY <1>1 DEF RunsTyped, Runs
<1>3. obj \in [Workers -> Runs] BY <1>1 DEF LocalTyped, Runs
<1>4. updated \in [Workers -> Seq(Shards)] BY <1>1 DEF LocalTyped
<1> QED BY <1>2, <1>3, <1>4 DEF TypeOK, LocalTyped, JobsTyped, WorldTyped

(* What is used of a sequence of shard statuses.                           *)
LEMMA ShardSeqFacts ==
  ASSUME NEW s \in ShardSeqs
  PROVE  /\ Len(s) \in Nat /\ DOMAIN s = 1..Len(s) /\ DOMAIN s \subseteq Indices
         /\ \A k \in DOMAIN s : s[k] \in Shards /\ s[k].phase \in ShardPhases
         /\ s = <<>> <=> DOMAIN s = {}
<1>1. s \in Seq(Shards) /\ Len(s) <= MaxShards BY DEF ShardSeqs
<1>2. Len(s) \in Nat /\ DOMAIN s = 1..Len(s) BY <1>1
<1>3. DOMAIN s \subseteq Indices BY <1>1, <1>2, MaxShardsBound DEF Indices
<1>4. \A k \in DOMAIN s : s[k] \in Shards BY <1>1
<1>5. s = <<>> <=> DOMAIN s = {} BY <1>1, <1>2
<1> QED BY <1>2, <1>3, <1>4, <1>5 DEF Shards

LEMMA EmptyShards == <<>> \in ShardSeqs
<1>1. <<>> \in Seq(Shards) /\ Len(<<>>) = 0 OBVIOUS
<1> QED BY <1>1, MaxShardsBound DEF ShardSeqs

(* Setting one shard's phase leaves its hosts and the other shards alone.  *)
LEMMA SetPhase ==
  ASSUME NEW s \in ShardSeqs, NEW k, NEW phase \in ShardPhases,
         NEW t, t = [s EXCEPT ![k].phase = phase]
  PROVE  /\ t \in ShardSeqs /\ DOMAIN t = DOMAIN s
         /\ \A l \in DOMAIN s : /\ t[l].hostNames = s[l].hostNames
                                /\ t[l].phase = IF l = k THEN phase ELSE s[l].phase
<1>1. s \in Seq(Shards) /\ Len(s) <= MaxShards /\ DOMAIN s = 1..Len(s) /\ Len(s) \in Nat
  BY DEF ShardSeqs
<1>2. DOMAIN t = DOMAIN s OBVIOUS
<1>3. \A l \in DOMAIN s : /\ t[l] \in Shards /\ t[l].hostNames = s[l].hostNames
                          /\ t[l].phase = IF l = k THEN phase ELSE s[l].phase
  <2>1. TAKE l \in DOMAIN s
  <2>2. s[l] \in Shards BY <1>1
  <2>3. CASE l # k
    <3>1. t[l] = s[l] BY <2>3
    <3> QED BY <3>1, <2>2, <2>3
  <2>4. CASE l = k
    <3>1. t[l] = [s[l] EXCEPT !.phase = phase] BY <2>4
    <3>2. PICK r : r = s[l] OBVIOUS
    <3>3. t[l] = [r EXCEPT !.phase = phase] BY <3>1, <3>2
    <3>4. r \in Shards BY <2>2, <3>2
    <3>5. t[l] \in Shards /\ t[l].hostNames = r.hostNames /\ t[l].phase = phase
      BY <3>3, <3>4 DEF Shards
    <3> QED BY <3>5, <3>2, <2>4
  <2> QED BY <2>3, <2>4
<1>4. t \in Seq(Shards) /\ Len(t) = Len(s)
  <2>1. t = [l \in 1..Len(s) |-> t[l]] BY <1>1
  <2>2. t \in [1..Len(s) -> Shards] BY <1>1, <1>3, <2>1
  <2> HIDE DEF Shards
  <2> QED BY <2>2, <1>1, <1>2
<1> QED BY <1>1, <1>2, <1>3, <1>4 DEF ShardSeqs

(* The statuses of shards that are planned.                                *)
LEMMA PendingShards ==
  ASSUME NEW g \in Inventories, NEW s, s = ShardHosts(g, MaxAmountOfHosts)
  PROVE  /\ Pending(s) \in ShardSeqs
         /\ Len(s) \in Nat /\ DOMAIN s = 1..Len(s) /\ DOMAIN s \subseteq Indices
         /\ s # <<>> => DOMAIN s # {}
         /\ DOMAIN Pending(s) = DOMAIN s
         /\ \A k \in DOMAIN s : /\ Pending(s)[k].hostNames = s[k].hostNames
                                /\ Pending(s)[k].phase = "Pending"
<1>1. PICK P : P = Pending(s) OBVIOUS
<1>2. PICK names : names = {h.inv : h \in Hosts} OBVIOUS
<1>3. s \in Seq([hostNames: Seq(HostNames), limit: SUBSET names]) BY <1>2, InventoryTyped
<1>4. Len(s) \in Nat /\ DOMAIN s = 1..Len(s) BY <1>3
<1>5. Len(s) <= MaxShards BY MaxShardsBound
<1>6. DOMAIN s \subseteq Indices BY <1>4, <1>5, MaxShardsBound DEF Indices
<1>7. \A k \in DOMAIN s : s[k] \in [hostNames: Seq(HostNames), limit: SUBSET names]
  <2>1. PICK R : R = [hostNames: Seq(HostNames), limit: SUBSET names] OBVIOUS
  <2>2. s \in Seq(R) BY <1>3, <2>1
  <2>3. \A k \in DOMAIN s : s[k] \in R BY <2>2
  <2> QED BY <2>1, <2>3
<1>8. \A k \in DOMAIN s : s[k].hostNames \in Seq(HostNames)
  <2>1. \A r \in [hostNames: Seq(HostNames), limit: SUBSET names] : r.hostNames \in Seq(HostNames)
    OBVIOUS
  <2> QED BY <1>7, <2>1
<1>9. P = [k \in 1..Len(s) |-> [hostNames |-> s[k].hostNames, phase |-> "Pending"]]
  BY <1>1, <1>4 DEF Pending
<1>10. \A k \in 1..Len(s) : [hostNames |-> s[k].hostNames, phase |-> "Pending"] \in Shards
  BY <1>4, <1>8 DEF Shards, ShardPhases
<1>11. P \in [1..Len(s) -> Shards] BY <1>9, <1>10
<1> HIDE DEF Shards
<1>12. P \in Seq(Shards) /\ Len(P) = Len(s) BY <1>4, <1>11
<1>13. \A k \in DOMAIN s : P[k].hostNames = s[k].hostNames /\ P[k].phase = "Pending" BY <1>4, <1>9
<1>14. DOMAIN P = DOMAIN s BY <1>4, <1>9
<1>15. s # <<>> => DOMAIN s # {}
  <2>1. PICK R : R = [hostNames: Seq(HostNames), limit: SUBSET names] OBVIOUS
  <2>2. s \in Seq(R) BY <1>3, <2>1
  <2>3. s # <<>> => Len(s) # 0 BY <2>2
  <2> QED BY <2>3, <1>4
<1> QED BY <1>1, <1>4, <1>5, <1>6, <1>12, <1>13, <1>14, <1>15 DEF ShardSeqs

LEMMA SpendTyped ==
  ASSUME TypeInv, NEW answer, Spend(answer)
  PROVE  faults' \in 0..MaxFaults /\ faults' >= faults /\ (faults' = 0 => faults = 0 /\ answer = "ok")
<1>1. faults \in 0..MaxFaults /\ MaxFaults \in Nat BY ParallelAssumption DEF TypeInv, WorldTyped
<1> QED BY <1>1 DEF Spend

LEMMA PatchTyped ==
  ASSUME TypeInv, NEW w \in Workers, NEW phase \in Phases, NEW shards \in ShardSeqs, NEW answer,
         PatchRunStatus(w, phase, shards, answer)
  PROVE  RunsTyped' /\ faults' \in 0..MaxFaults
<1>1. faults' \in 0..MaxFaults BY SpendTyped DEF PatchRunStatus
<1>2. RunsTyped'
  <2> HIDE DEF ShardSeqs, Phases
  <2>1. cr \in [cancel: BOOLEAN, phase: Phases, shards: ShardSeqs] BY DEF TypeInv, RunsTyped
  <2>2. CASE answer = "refused" BY <2>1, <2>2 DEF PatchRunStatus, RunsTyped
  <2>3. CASE answer # "refused"
    <3>1. PICK s : s = IF shards # <<>> THEN shards ELSE cr.shards OBVIOUS
    <3>2. s \in ShardSeqs BY <3>1, <2>1
    <3>3. cr' = [cr EXCEPT !.phase = phase, !.shards = s] BY <3>1, <2>3 DEF PatchRunStatus
    <3> QED BY <3>2, <3>3, <2>1 DEF RunsTyped
  <2> QED BY <2>2, <2>3
<1> QED BY <1>1, <1>2

LEMMA ResetTyped ==
  ASSUME TypeInv, NEW w \in Workers, Reset(w)
  PROVE  LocalTyped'
<1> USE DEF TypeInv, LocalTyped, Reset
<1>1. pc' \in [Workers -> Steps] BY DEF Steps
<1>2. obj' \in [Workers -> [cancel: BOOLEAN, phase: Phases, shards: ShardSeqs]]
  <2>1. NewRun \in [cancel: BOOLEAN, phase: Phases, shards: ShardSeqs] BY EmptyShards DEF NewRun, Phases
  <2> HIDE DEF NewRun, ShardSeqs, Phases
  <2> QED BY <2>1
<1>3. updated' \in [Workers -> ShardSeqs] BY EmptyShards
<1>4. todo' \in [Workers -> SUBSET Indices] OBVIOUS
<1>5. groups' \in [Workers -> Inventories \cup {<<>>}] OBVIOUS
<1> QED BY <1>1, <1>2, <1>3, <1>4, <1>5

LEMMA GotoTyped ==
  ASSUME TypeInv, NEW w \in Workers, NEW step \in Steps, Goto(w, step),
         updated' \in [Workers -> ShardSeqs], todo' \in [Workers -> SUBSET Indices]
  PROVE  LocalTyped' /\ armed' \in BOOLEAN
<1> HIDE DEF Steps, ShardSeqs
<1> QED BY DEF Goto, TypeInv, LocalTyped, WorldTyped

LEMMA ConcludeTyped ==
  ASSUME TypeInv, NEW w \in Workers, NEW shards \in ShardSeqs, Conclude(w, shards)
  PROVE  LocalTyped' /\ armed' \in BOOLEAN
<1>1. CASE Return(w) BY <1>1, ResetTyped DEF Return
<1>2. CASE /\ Goto(w, IF AllTerminal(shards) THEN "patchFinal" ELSE "patchShards")
           /\ updated' = [updated EXCEPT ![w] = shards]
           /\ todo' = [todo EXCEPT ![w] = {}]
  <2>1. updated' \in [Workers -> ShardSeqs] BY <1>2 DEF TypeInv, LocalTyped
  <2>2. todo' \in [Workers -> SUBSET Indices] BY <1>2 DEF TypeInv, LocalTyped
  <2>3. PICK step : step = IF AllTerminal(shards) THEN "patchFinal" ELSE "patchShards" OBVIOUS
  <2>4. step \in Steps BY <2>3 DEF Steps
  <2>5. Goto(w, step) BY <1>2, <2>3
  <2> QED BY <2>1, <2>2, <2>4, <2>5, GotoTyped
<1> QED BY <1>1, <1>2 DEF Conclude

LEMMA AfterPollTyped ==
  ASSUME TypeInv, NEW w \in Workers, NEW shards \in ShardSeqs, NEW rest \in SUBSET Indices,
         AfterPoll(w, shards, rest)
  PROVE  LocalTyped' /\ armed' \in BOOLEAN
<1>1. CASE Conclude(w, shards) BY <1>1, ConcludeTyped
<1>2. CASE /\ Goto(w, IF rest # {} THEN "pollShards" ELSE "refill")
           /\ updated' = [updated EXCEPT ![w] = shards]
           /\ todo' = [todo EXCEPT ![w] = rest]
  <2>1. updated' \in [Workers -> ShardSeqs] BY <1>2 DEF TypeInv, LocalTyped
  <2>2. todo' \in [Workers -> SUBSET Indices] BY <1>2 DEF TypeInv, LocalTyped
  <2>3. PICK step : step = IF rest # {} THEN "pollShards" ELSE "refill" OBVIOUS
  <2>4. step \in Steps BY <2>3 DEF Steps
  <2>5. Goto(w, step) BY <1>2, <2>3
  <2> QED BY <2>1, <2>2, <2>4, <2>5, GotoTyped
<1> QED BY <1>1, <1>2 DEF AfterPoll

LEMMA ConfigTargets ==
  ASSUME TypeInv, NEW limit
  PROVE  AnsibleTargets(configMap, limit) \subseteq InvNames
<1>1. configMap \in Inventories \cup {<<>>} BY DEF TypeInv, WorldTyped
<1>2. CASE configMap \in Inventories BY <1>2, InventoryTyped
<1>3. CASE configMap = <<>> BY <1>3, NoTargets
<1> QED BY <1>1, <1>2, <1>3

LEMMA PutJobTyped ==
  ASSUME TypeInv, NEW k, NEW limit, PutJob(k, limit)
  PROVE  JobsTyped'
<1>1. PICK targets : targets = AnsibleTargets(configMap, limit) OBVIOUS
<1>2. targets \subseteq InvNames BY <1>1, ConfigTargets
<1>3. CASE jobs[k].state = "absent"
  <2> USE DEF TypeInv, JobsTyped
  <2>1. PICK job : job = [state |-> "active", targets |-> targets, ttl |-> FALSE] OBVIOUS
  <2>2. job \in [state: {"absent", "active"} \cup Results, targets: SUBSET InvNames, ttl: BOOLEAN]
    BY <2>1, <1>2
  <2>3. jobs' = [jobs EXCEPT ![k] = job] BY <2>1, <1>1, <1>3 DEF PutJob
  <2>4. jobs' \in [Indices -> [state: {"absent", "active"} \cup Results,
                               targets: SUBSET InvNames, ttl: BOOLEAN]] BY <2>2, <2>3
  <2>5. acted' = [h \in InvNames |-> IF h \in targets /\ acted[h] < 2 THEN acted[h] + 1 ELSE acted[h]]
    BY <1>1, <1>3 DEF PutJob
  <2>6. \A h \in InvNames : acted[h] \in 0..2 OBVIOUS
  <2>7. \A h \in InvNames : (IF h \in targets /\ acted[h] < 2 THEN acted[h] + 1 ELSE acted[h]) \in 0..2
    BY <2>6
  <2>8. acted' \in [InvNames -> 0..2] BY <2>5, <2>7
  <2>9. outcomes' = outcomes BY <1>3 DEF PutJob
  <2> QED BY <2>4, <2>8, <2>9
<1>4. CASE jobs[k].state # "absent" BY <1>4 DEF PutJob, TypeInv, JobsTyped, jobVars
<1> QED BY <1>3, <1>4

LEMMA RemoveJobTyped ==
  ASSUME TypeInv, NEW k, RemoveJob(k)
  PROVE  JobsTyped'
<1>1. NoJob \in [state: {"absent", "active"} \cup Results, targets: SUBSET InvNames, ttl: BOOLEAN]
  BY DEF NoJob
<1> HIDE DEF NoJob
<1> QED BY <1>1 DEF RemoveJob, TypeInv, JobsTyped

LEMMA RenderTyped ==
  ASSUME TypeInv, NEW answer, RenderInventory(answer)
  PROVE  configMap' \in Inventories \cup {<<>>} /\ faults' \in 0..MaxFaults
BY SpendTyped DEF RenderInventory, TypeInv, WorldTyped

-----------------------------------------------------------------------------
(* The types hold at the start.                                            *)
LEMMA InitTyped == Init => TypeInv
<1> SUFFICES ASSUME Init PROVE TypeInv OBVIOUS
<1>0. NewRun \in [cancel: BOOLEAN, phase: Phases, shards: ShardSeqs] BY EmptyShards DEF NewRun, Phases
<1>1. RunsTyped BY <1>0 DEF Init, RunsTyped
<1>2. JobsTyped
  <2>1. NoJob \in [state: {"absent", "active"} \cup Results, targets: SUBSET InvNames, ttl: BOOLEAN]
    BY DEF NoJob
  <2> QED BY <2>1 DEF Init, JobsTyped
<1>3. LocalTyped
  <2>1. "idle" \in Steps BY DEF Steps
  <2> QED BY <1>0, <2>1, EmptyShards DEF Init, LocalTyped
<1>4. WorldTyped BY ParallelAssumption DEF Init, WorldTyped
<1> QED BY <1>1, <1>2, <1>3, <1>4 DEF TypeInv

LEMMA WorldStepTyped ==
  ASSUME TypeInv,
         RequestCancel \/ EditInventory \/ FinishJob \/ ExpireJob \/ Resync \/ Crash \/ Restart
  PROVE  TypeInv'
<1> HIDE DEF ShardSeqs, Phases, Steps
<1> USE DEF TypeInv, RunsTyped, WorldTyped
<1>1. CASE RequestCancel BY <1>1 DEF RequestCancel, JobsTyped, LocalTyped, jobVars, localVars
<1>2. CASE EditInventory
  <2>1. inventory' \in Inventories BY <1>2, ParallelAssumption DEF EditInventory
  <2> QED BY <2>1, <1>2 DEF EditInventory, JobsTyped, LocalTyped, jobVars, localVars, runVars
<1>3. CASE FinishJob
  <2>1. PICK k \in Indices, r \in Results : /\ jobs' = [jobs EXCEPT ![k].state = r]
                                            /\ outcomes' = [outcomes EXCEPT ![k] = @ \cup {r}]
    BY <1>3 DEF FinishJob
  <2>2. JobsTyped' BY <2>1, <1>3 DEF FinishJob, JobsTyped
  <2> QED BY <2>2, <1>3 DEF FinishJob, LocalTyped, jobVars, localVars, runVars
<1>4. CASE ExpireJob
  <2>1. JobsTyped' BY <1>4, RemoveJobTyped DEF ExpireJob
  <2> QED BY <2>1, <1>4 DEF ExpireJob, LocalTyped, localVars, runVars
<1>5. CASE Resync BY <1>5 DEF Resync, JobsTyped, LocalTyped, jobVars, localVars
<1>6. CASE Crash
  <2>0. NewRun \in [cancel: BOOLEAN, phase: Phases, shards: ShardSeqs] BY EmptyShards DEF NewRun, Phases
  <2>1. "idle" \in Steps BY DEF Steps
  <2>2. LocalTyped' BY <2>0, <2>1, <1>6, EmptyShards DEF Crash, LocalTyped
  <2>3. crashes' \in 0..MaxCrashes BY <1>6, ParallelAssumption DEF Crash
  <2> QED BY <2>2, <2>3, <1>6 DEF Crash, JobsTyped, jobVars
<1>7. CASE Restart BY <1>7 DEF Restart, JobsTyped, LocalTyped, jobVars, localVars
<1> QED BY <1>1, <1>2, <1>3, <1>4, <1>5, <1>6, <1>7

LEMMA FireTimerTyped ==
  ASSUME TypeInv, NEW w \in Workers, FireTimer(w)
  PROVE  TypeInv'
<1>1. cr \in [cancel: BOOLEAN, phase: Phases, shards: ShardSeqs] /\ cr.shards \in ShardSeqs
  BY DEF TypeInv, RunsTyped
<1>2. LocalTyped'
  <2>1. CASE cr.phase \in Terminal BY <2>1 DEF FireTimer, TypeInv, LocalTyped, localVars
  <2>2. CASE cr.phase \notin Terminal
    <3>1. EntryStep(cr) \in Steps BY DEF EntryStep, Steps
    <3>2. PICK S : S = IF EntryStep(cr) = "deleteJobs" THEN DOMAIN cr.shards \ InPhase(cr.shards, "Pending")
                       ELSE ToPoll(cr.shards) OBVIOUS
    <3>3. S \subseteq Indices BY <3>2, <1>1, ShardSeqFacts DEF ToPoll, InPhase
    <3>4. /\ pc' = [pc EXCEPT ![w] = EntryStep(cr)]
          /\ obj' = [obj EXCEPT ![w] = cr]
          /\ updated' = [updated EXCEPT ![w] = cr.shards]
          /\ todo' = [todo EXCEPT ![w] = S] /\ groups' = groups
      BY <3>2, <2>2 DEF FireTimer
    <3> HIDE DEF ShardSeqs, Phases, Steps
    <3> QED BY <3>1, <3>3, <3>4, <1>1 DEF TypeInv, LocalTyped
  <2> QED BY <2>1, <2>2
<1> QED BY <1>2 DEF FireTimer, TypeInv, RunsTyped, JobsTyped, WorldTyped, jobVars

LEMMA PatchEndTyped ==
  ASSUME TypeInv, NEW w \in Workers,
         \/ PatchCancelled(w) \/ PatchRunning(w) \/ PatchEmpty(w) \/ PatchError(w)
         \/ PatchShards(w) \/ PatchFinal(w)
  PROVE  TypeInv'
<1>1. obj[w].shards \in ShardSeqs /\ obj[w].phase \in Phases /\ updated[w] \in ShardSeqs
  BY DEF TypeInv, LocalTyped
<1>2. PICK phase, shards, answer : /\ phase \in Phases /\ shards \in ShardSeqs
                                   /\ PatchRunStatus(w, phase, shards, answer)
  <2> USE <1>1, EmptyShards
  <2>1. CASE PatchCancelled(w) BY <2>1 DEF PatchCancelled, Phases, Terminal
  <2>2. CASE PatchRunning(w) BY <2>2 DEF PatchRunning, Phases, Terminal
  <2>3. CASE PatchEmpty(w) BY <2>3 DEF PatchEmpty, Phases, Terminal
  <2>4. CASE PatchError(w) BY <2>4 DEF PatchError, Phases, Terminal
  <2>5. CASE PatchShards(w) BY <2>5 DEF PatchShards
  <2>6. CASE PatchFinal(w)
    <3>1. FinalPhase(updated[w]) \in Phases BY DEF FinalPhase, Phases, Terminal
    <3> QED BY <2>6, <3>1 DEF PatchFinal
  <2> QED BY <2>1, <2>2, <2>3, <2>4, <2>5, <2>6
<1>3. RunsTyped' /\ faults' \in 0..MaxFaults BY <1>2, PatchTyped
<1>4. Return(w) /\ UNCHANGED <<inventory, configMap, jobVars, up, crashes>>
  BY DEF PatchCancelled, PatchRunning, PatchEmpty, PatchError, PatchShards, PatchFinal
<1>5. LocalTyped' /\ armed' = TRUE BY <1>4, ResetTyped DEF Return
<1> QED BY <1>3, <1>4, <1>5 DEF TypeInv, JobsTyped, WorldTyped, jobVars

LEMMA StartStepTyped ==
  ASSUME TypeInv, NEW w \in Workers,
         DeleteJobs(w) \/ PatchResolving(w) \/ Prepare(w) \/ StartShard(w)
  PROVE  TypeInv'
<1> HIDE DEF ShardSeqs, Phases, Steps
<1>0. /\ obj[w].shards \in ShardSeqs /\ updated[w] \in ShardSeqs /\ todo[w] \subseteq Indices
      /\ updated \in [Workers -> ShardSeqs] /\ todo \in [Workers -> SUBSET Indices]
  BY DEF TypeInv, LocalTyped
<1>1. CASE DeleteJobs(w)
  <2>1. JobsTyped' /\ faults' \in 0..MaxFaults
    <3>1. PICK answer \in Answers :
            /\ Spend(answer)
            /\ IF answer = "refused" THEN UNCHANGED jobVars ELSE RemoveJob(Min(todo[w]))
      BY <1>1 DEF DeleteJobs
    <3>2. faults' \in 0..MaxFaults BY <3>1, SpendTyped
    <3>3. CASE answer = "refused" BY <3>1, <3>2, <3>3 DEF jobVars, TypeInv, JobsTyped
    <3>4. CASE answer # "refused" BY <3>1, <3>2, <3>4, RemoveJobTyped
    <3> QED BY <3>3, <3>4
  <2>2. PICK step : step = IF Cardinality(todo[w]) = 1 THEN "patchCancelled" ELSE "deleteJobs" OBVIOUS
  <2>3. Goto(w, step) /\ step \in Steps BY <2>2, <1>1 DEF DeleteJobs, Steps
  <2>4. todo' \in [Workers -> SUBSET Indices] /\ updated' \in [Workers -> ShardSeqs]
    BY <1>0, <1>1 DEF DeleteJobs
  <2>5. LocalTyped' /\ armed' \in BOOLEAN BY <2>3, <2>4, GotoTyped
  <2> QED BY <2>1, <2>5, <1>1 DEF DeleteJobs, TypeInv, RunsTyped, WorldTyped
<1>2. CASE PatchResolving(w)
  <2>1. PICK answer \in Answers : /\ PatchRunStatus(w, "Resolving", obj[w].shards, answer)
                                  /\ Goto(w, IF answer = "ok" THEN "prepare" ELSE "patchError")
    BY <1>2 DEF PatchResolving
  <2>2. "Resolving" \in Phases BY DEF Phases
  <2>3. RunsTyped' /\ faults' \in 0..MaxFaults BY <2>1, <2>2, <1>0, PatchTyped
  <2>4. PICK step : step = IF answer = "ok" THEN "prepare" ELSE "patchError" OBVIOUS
  <2>5. Goto(w, step) /\ step \in Steps BY <2>1, <2>4 DEF Steps
  <2>6. LocalTyped' /\ armed' \in BOOLEAN BY <2>5, <1>0, <1>2, GotoTyped DEF PatchResolving
  <2> QED BY <2>3, <2>6, <1>2 DEF PatchResolving, TypeInv, JobsTyped, WorldTyped, jobVars
<1>3. CASE Prepare(w)
  <2>0. UNCHANGED <<cr, inventory, jobVars, up, crashes>> BY <1>3 DEF Prepare
  <2>1. PICK answer : RenderInventory(answer) BY <1>3 DEF Prepare
  <2>2. configMap' \in Inventories \cup {<<>>} /\ faults' \in 0..MaxFaults BY <2>1, RenderTyped
  <2>3. LocalTyped' /\ armed' \in BOOLEAN
    <3>1. CASE Goto(w, "patchError") /\ UNCHANGED <<updated, todo>>
      <4>1. "patchError" \in Steps BY DEF Steps
      <4> QED BY <3>1, <4>1, <1>0, GotoTyped
    <3>2. CASE Return(w) BY <3>2, ResetTyped DEF Return
    <3>3. ASSUME /\ groups' = [groups EXCEPT ![w] = inventory]
                 /\ \E shards \in {ShardHosts(inventory, MaxAmountOfHosts)} :
                      /\ updated' = [updated EXCEPT ![w] = Pending(shards)]
                      /\ todo' = [todo EXCEPT ![w] = FirstOf(DOMAIN shards, MaxConcurrentRuns)]
                      /\ pc' = [pc EXCEPT ![w] = IF shards = <<>> THEN "patchEmpty" ELSE "startShards"]
                 /\ UNCHANGED <<obj, armed>>
          PROVE  LocalTyped' /\ armed' \in BOOLEAN
      <4>1. PICK shards : /\ shards = ShardHosts(inventory, MaxAmountOfHosts)
              /\ updated' = [updated EXCEPT ![w] = Pending(shards)]
              /\ todo' = [todo EXCEPT ![w] = FirstOf(DOMAIN shards, MaxConcurrentRuns)]
              /\ pc' = [pc EXCEPT ![w] = IF shards = <<>> THEN "patchEmpty" ELSE "startShards"]
        BY <3>3
      <4>2. inventory \in Inventories BY DEF TypeInv, WorldTyped
      <4>5. Pending(shards) \in ShardSeqs /\ DOMAIN shards \subseteq Indices BY <4>1, <4>2, PendingShards
      <4>6. FirstOf(DOMAIN shards, MaxConcurrentRuns) \subseteq Indices BY <4>5 DEF FirstOf
      <4>7. "patchEmpty" \in Steps /\ "startShards" \in Steps BY DEF Steps
      <4> QED BY <4>1, <4>2, <4>5, <4>6, <4>7, <3>3 DEF TypeInv, LocalTyped, WorldTyped
    <3> QED BY <1>3, <3>1, <3>2, <3>3 DEF Prepare
  <2> QED BY <2>0, <2>2, <2>3 DEF TypeInv, RunsTyped, JobsTyped, WorldTyped, jobVars
<1>4. CASE StartShard(w)
  <2>1. PICK answer, k, limit :
          /\ Spend(answer)
          /\ IF answer = "refused" THEN UNCHANGED jobVars ELSE PutJob(k, limit)
          /\ \/ Return(w)
             \/ /\ updated' = [updated EXCEPT ![w] = Started(w, k)]
                /\ todo' = [todo EXCEPT ![w] = @ \ {k}]
                /\ Goto(w, IF todo[w] = {k} THEN "patchRunning" ELSE "startShards")
    BY <1>4 DEF StartShard
  <2>2. faults' \in 0..MaxFaults BY <2>1, SpendTyped
  <2>3. JobsTyped'
    <3>1. CASE answer = "refused" BY <2>1, <3>1 DEF jobVars, TypeInv, JobsTyped
    <3>2. CASE answer # "refused" BY <2>1, <3>2, PutJobTyped
    <3> QED BY <3>1, <3>2
  <2>4. LocalTyped' /\ armed' \in BOOLEAN
    <3>1. CASE Return(w) BY <3>1, ResetTyped DEF Return
    <3>2. CASE /\ updated' = [updated EXCEPT ![w] = Started(w, k)]
               /\ todo' = [todo EXCEPT ![w] = @ \ {k}]
               /\ Goto(w, IF todo[w] = {k} THEN "patchRunning" ELSE "startShards")
      <4>1. PICK step : step = IF todo[w] = {k} THEN "patchRunning" ELSE "startShards" OBVIOUS
      <4>2. Goto(w, step) /\ step \in Steps BY <3>2, <4>1 DEF Steps
      <4>3. Started(w, k) \in ShardSeqs
        <5>1. PICK t : t = [updated[w] EXCEPT ![k].phase = "Running"] OBVIOUS
        <5>2. "Running" \in ShardPhases BY DEF ShardPhases
        <5>3. t \in ShardSeqs BY <5>1, <5>2, <1>0, SetPhase
        <5> QED BY <5>1, <5>3 DEF Started
      <4>4. updated' \in [Workers -> ShardSeqs] /\ todo' \in [Workers -> SUBSET Indices]
        BY <3>2, <4>3, <1>0
      <4> QED BY <4>2, <4>4, GotoTyped
    <3> QED BY <2>1, <3>1, <3>2
  <2> QED BY <2>2, <2>3, <2>4, <1>4 DEF StartShard, TypeInv, RunsTyped, WorldTyped
<1> QED BY <1>1, <1>2, <1>3, <1>4

LEMMA PollStepTyped ==
  ASSUME TypeInv, NEW w \in Workers,
         PollShard(w) \/ PatchTtl(w) \/ Refill(w) \/ StartPending(w)
  PROVE  TypeInv'
<1> HIDE DEF ShardSeqs, Phases, Steps
<1>0. /\ updated[w] \in ShardSeqs /\ todo[w] \subseteq Indices
      /\ updated \in [Workers -> ShardSeqs] /\ todo \in [Workers -> SUBSET Indices]
  BY DEF TypeInv, LocalTyped
<1>S. ASSUME NEW k, NEW phase \in ShardPhases
      PROVE  [updated[w] EXCEPT ![k].phase = phase] \in ShardSeqs
  <2>1. PICK t : t = [updated[w] EXCEPT ![k].phase = phase] OBVIOUS
  <2>2. t \in ShardSeqs BY <2>1, <1>0, SetPhase
  <2> QED BY <2>1, <2>2
<1>1. CASE PollShard(w)
  <2>0. UNCHANGED <<cr, inventory, configMap, jobVars, up, crashes>> BY <1>1 DEF PollShard
  <2>1. faults' \in 0..MaxFaults
    <3>1. CASE UNCHANGED faults BY <3>1 DEF TypeInv, WorldTyped
    <3>2. CASE \E answer : Spend(answer) BY <3>2, SpendTyped
    <3> QED BY <1>1, <3>1, <3>2 DEF PollShard
  <2>2. LocalTyped' /\ armed' \in BOOLEAN
    <3>1. CASE AfterPoll(w, updated[w], {}) BY <3>1, <1>0, AfterPollTyped
    <3>2. PICK k : k = Min(todo[w]) OBVIOUS
    <3>3. CASE AfterPoll(w, [updated[w] EXCEPT ![k].phase = "Error"], todo[w] \ {k})
      <4>1. "Error" \in ShardPhases BY DEF ShardPhases, TerminalShard
      <4>2. PICK t : t = [updated[w] EXCEPT ![k].phase = "Error"] OBVIOUS
      <4>3. t \in ShardSeqs BY <4>1, <4>2, <1>S
      <4>4. todo[w] \ {k} \in SUBSET Indices BY <1>0
      <4>5. AfterPoll(w, t, todo[w] \ {k}) BY <3>3, <4>2
      <4> QED BY <4>3, <4>4, <4>5, AfterPollTyped
    <3>4. CASE AfterPoll(w, updated[w], todo[w] \ {k})
      <4>1. todo[w] \ {k} \in SUBSET Indices BY <1>0
      <4> QED BY <4>1, <3>4, <1>0, AfterPollTyped
    <3>5. CASE /\ Goto(w, "patchTtl") /\ UNCHANGED todo
               /\ updated' = [updated EXCEPT ![w] = [updated[w] EXCEPT ![k].phase = ShardPhase(jobs[k].state)]]
      <4>1. ShardPhase(jobs[k].state) \in ShardPhases BY DEF ShardPhase, ShardPhases, TerminalShard
      <4>2. PICK t : t = [updated[w] EXCEPT ![k].phase = ShardPhase(jobs[k].state)] OBVIOUS
      <4>3. t \in ShardSeqs BY <4>1, <4>2, <1>S
      <4>4. updated' \in [Workers -> ShardSeqs] BY <3>5, <4>2, <4>3, <1>0
      <4>5. "patchTtl" \in Steps BY DEF Steps
      <4> QED BY <3>5, <4>4, <4>5, <1>0, GotoTyped
    <3> QED BY <1>1, <3>1, <3>2, <3>3, <3>4, <3>5 DEF PollShard
  <2> QED BY <2>0, <2>1, <2>2 DEF TypeInv, RunsTyped, JobsTyped, WorldTyped, jobVars
<1>2. CASE PatchTtl(w)
  <2>0. UNCHANGED <<cr, inventory, configMap, outcomes, acted, up, crashes>> BY <1>2 DEF PatchTtl
  <2>1. PICK k : k = Min(todo[w]) OBVIOUS
  <2>2. /\ \E answer \in Answers :
             /\ Spend(answer)
             /\ jobs' = IF answer = "refused" \/ jobs[k].state = "absent" THEN jobs
                        ELSE [jobs EXCEPT ![k].ttl = TRUE]
        /\ AfterPoll(w, updated[w], todo[w] \ {k})
    BY <1>2, <2>1 DEF PatchTtl
  <2>3. faults' \in 0..MaxFaults BY <2>2, SpendTyped
  <2>4. JobsTyped' BY <2>0, <2>2 DEF TypeInv, JobsTyped
  <2>5. todo[w] \ {k} \in SUBSET Indices BY <1>0
  <2>6. LocalTyped' /\ armed' \in BOOLEAN BY <2>2, <2>5, <1>0, AfterPollTyped
  <2> QED BY <2>0, <2>3, <2>4, <2>6 DEF TypeInv, RunsTyped, WorldTyped
<1>3. CASE Refill(w)
  <2>0. UNCHANGED <<cr, inventory, jobVars, up, crashes>> BY <1>3 DEF Refill
  <2>1. PICK answer : RenderInventory(answer) BY <1>3 DEF Refill
  <2>2. configMap' \in Inventories \cup {<<>>} /\ faults' \in 0..MaxFaults BY <2>1, RenderTyped
  <2>3. LocalTyped' /\ armed' \in BOOLEAN
    <3>1. CASE Conclude(w, updated[w]) BY <3>1, <1>0, ConcludeTyped
    <3>2. CASE /\ groups' = [groups EXCEPT ![w] = inventory]
               /\ pc' = [pc EXCEPT ![w] = "startPending"]
               /\ todo' = [todo EXCEPT ![w] = FirstOf(InPhase(updated[w], "Pending"),
                                                      FreeSlots(updated[w]))]
               /\ UNCHANGED <<obj, updated, armed>>
      <4>1. FirstOf(InPhase(updated[w], "Pending"), FreeSlots(updated[w])) \subseteq Indices
        BY <1>0, ShardSeqFacts DEF FirstOf, InPhase
      <4>2. "startPending" \in Steps BY DEF Steps
      <4> QED BY <3>2, <4>1, <4>2 DEF TypeInv, LocalTyped, WorldTyped
    <3> QED BY <1>3, <3>1, <3>2 DEF Refill
  <2> QED BY <2>0, <2>2, <2>3 DEF TypeInv, RunsTyped, JobsTyped, WorldTyped, jobVars
<1>4. CASE StartPending(w)
  <2>1. PICK answer, k, limit :
          /\ Spend(answer)
          /\ IF answer = "refused" THEN UNCHANGED jobVars ELSE PutJob(k, limit)
          /\ \/ Conclude(w, updated[w])
             \/ Conclude(w, Started(w, k))
             \/ /\ Goto(w, "startPending")
                /\ updated' = [updated EXCEPT ![w] = Started(w, k)]
                /\ todo' = [todo EXCEPT ![w] = @ \ {k}]
    BY <1>4 DEF StartPending
  <2>2. faults' \in 0..MaxFaults BY <2>1, SpendTyped
  <2>3. JobsTyped'
    <3>1. CASE answer = "refused" BY <2>1, <3>1 DEF jobVars, TypeInv, JobsTyped
    <3>2. CASE answer # "refused" BY <2>1, <3>2, PutJobTyped
    <3> QED BY <3>1, <3>2
  <2>4. PICK t : t = Started(w, k) OBVIOUS
  <2>5. t \in ShardSeqs
    <3>1. "Running" \in ShardPhases BY DEF ShardPhases
    <3> QED BY <3>1, <2>4, <1>S DEF Started
  <2>6. LocalTyped' /\ armed' \in BOOLEAN
    <3>1. CASE Conclude(w, updated[w]) BY <3>1, <1>0, ConcludeTyped
    <3>2. CASE Conclude(w, t) BY <3>2, <2>5, ConcludeTyped
    <3>3. CASE /\ Goto(w, "startPending")
               /\ updated' = [updated EXCEPT ![w] = t]
               /\ todo' = [todo EXCEPT ![w] = @ \ {k}]
      <4>1. "startPending" \in Steps BY DEF Steps
      <4>2. updated' \in [Workers -> ShardSeqs] /\ todo' \in [Workers -> SUBSET Indices]
        BY <3>3, <2>5, <1>0
      <4> QED BY <3>3, <4>1, <4>2, GotoTyped
    <3> QED BY <2>1, <2>4, <3>1, <3>2, <3>3
  <2> QED BY <2>2, <2>3, <2>6, <1>4 DEF StartPending, TypeInv, RunsTyped, WorldTyped
<1> QED BY <1>1, <1>2, <1>3, <1>4

(* Every step keeps the types.                                             *)
LEMMA StepTyped == TypeInv /\ [Next]_vars => TypeInv'
<1> SUFFICES ASSUME TypeInv, [Next]_vars PROVE TypeInv' OBVIOUS
<1>1. CASE RequestCancel \/ EditInventory \/ FinishJob \/ ExpireJob \/ Resync \/ Crash \/ Restart
  BY <1>1, WorldStepTyped
<1>2. ASSUME NEW w \in Workers, FireTimer(w) PROVE TypeInv' BY <1>2, FireTimerTyped
<1>3. ASSUME NEW w \in Workers, Reconcile(w) PROVE TypeInv'
  BY <1>3, PatchEndTyped, StartStepTyped, PollStepTyped DEF Reconcile
<1>4. CASE UNCHANGED vars
  BY <1>4 DEF vars, jobVars, localVars, TypeInv, RunsTyped, JobsTyped, LocalTyped, WorldTyped
<1> QED BY <1>1, <1>2, <1>3, <1>4 DEF Next

(* Every variable of a parallel run keeps its type, for all inventories,   *)
(* shard sizes, limits, reconciles that overlap, failures and crashes      *)
(* (Init and every action of ParallelRun).                                 *)
THEOREM TypeCorrect == Spec => []TypeOK
<1>1. Spec => []TypeInv BY InitTyped, StepTyped, PTL DEF Spec
<1>2. TypeInv => TypeOK BY TypeInvSuffices
<1> QED BY <1>1, <1>2, PTL

-----------------------------------------------------------------------------
(***************************************************************************)
(* The control invariant: at each of its calls a reconcile has assembled   *)
(* shard statuses that follow from the stored ones, of which nothing has   *)
(* changed since it read them.                                             *)
(***************************************************************************)

(* One reconcile of the run at a time.                                     *)
OneAtATime == "overlap" \notin Env

StartSteps == {"patchResolving", "prepare", "startShards", "patchRunning", "patchEmpty", "patchError"}
PollSteps == {"pollShards", "patchTtl", "refill", "startPending", "patchShards", "patchFinal"}
CancelSteps == {"deleteJobs", "patchCancelled"}

Exists(k) == jobs[k].state # "absent"
Active(k) == jobs[k].state = "active"

(* At most one reconcile is under way.                                     *)
Alone == \A v, w \in Workers : pc[v] # "idle" /\ pc[w] # "idle" => v = w

(* The phase of a run, and that of its shards.                             *)
StoredInv ==
  /\ cr.phase \in {"None", "Resolving"} => cr.shards = <<>>
  /\ cr.phase = "Running" => cr.shards # <<>>
  /\ cr.phase = "Succeeded" => \A k \in DOMAIN cr.shards : cr.shards[k].phase = "Succeeded"
  /\ cr.phase = "Failed" => \E k \in DOMAIN cr.shards : cr.shards[k].phase \in {"Failed", "Error"}

(* Only the Job of a shard on record may be collected.                     *)
TtlInv ==
  \A k \in Indices : jobs[k].ttl => k \in DOMAIN cr.shards /\ cr.shards[k].phase # "Pending"

(* A run being started has no shards yet.                                  *)
StartInv(w) ==
  pc[w] \in StartSteps => cr.phase \in {"None", "Resolving"} /\ obj[w].shards = <<>>

(* Shards that are being started for the first time, the first of them.    *)
Planned(w) ==
  LET shards == ShardHosts(groups[w], MaxAmountOfHosts)
      started == InPhase(updated[w], "Running")
  IN /\ groups[w] \in Inventories /\ configMap = groups[w]
     /\ DOMAIN updated[w] = DOMAIN shards /\ shards # <<>>
     /\ \A k \in DOMAIN shards : /\ updated[w][k].hostNames = shards[k].hostNames
                                 /\ updated[w][k].phase \in {"Pending", "Running"}
     /\ todo[w] \cap started = {}
     /\ todo[w] \cup started = FirstOf(DOMAIN shards, MaxConcurrentRuns)
     /\ \A k \in started : Exists(k)
     /\ pc[w] = "startShards" => todo[w] # {}
     /\ pc[w] = "patchRunning" => todo[w] = {}

PlanInv(w) == pc[w] \in {"startShards", "patchRunning"} => Planned(w)

(* Shard statuses a reconcile may have made of the stored ones; refilled   *)
(* once it has begun to start Pending shards.                              *)
Follows(w, shards, refilled) ==
  /\ cr.phase = "Running" /\ obj[w].phase = "Running" /\ obj[w].shards = cr.shards
  /\ DOMAIN shards = DOMAIN cr.shards
  /\ \A k \in DOMAIN cr.shards :
       /\ shards[k].hostNames = cr.shards[k].hostNames
       /\ \/ shards[k].phase = cr.shards[k].phase
          \/ cr.shards[k].phase = "Running" /\ shards[k].phase \in TerminalShard
          \/ refilled /\ cr.shards[k].phase = "Pending" /\ shards[k].phase = "Running" /\ Exists(k)

(* What a poll has still to do is what it may do.                          *)
LeftToDo(w) ==
  /\ pc[w] \in {"pollShards", "patchTtl"} => todo[w] \subseteq InPhase(cr.shards, "Running")
  /\ pc[w] = "patchTtl" => todo[w] # {}
  /\ pc[w] = "refill" => FreeSlots(updated[w]) > 0 /\ InPhase(updated[w], "Pending") # {}
  /\ pc[w] = "startPending" =>
       /\ todo[w] # {} /\ todo[w] \subseteq InPhase(updated[w], "Pending")
       /\ groups[w] \in Inventories /\ configMap = groups[w]
  /\ pc[w] = "patchFinal" => AllTerminal(updated[w])

PollInv(w) ==
  pc[w] \in PollSteps =>
    /\ Follows(w, updated[w], pc[w] \in {"startPending", "patchShards", "patchFinal"})
    /\ LeftToDo(w)

CancelInv(w) ==
  pc[w] \in CancelSteps =>
    /\ cr.cancel /\ cr.phase \in {"Resolving", "Running"} /\ obj[w].shards = cr.shards
    /\ pc[w] = "deleteJobs" =>
         /\ todo[w] # {}
         /\ todo[w] \subseteq DOMAIN cr.shards \ InPhase(cr.shards, "Pending")

StepInv(w) == StartInv(w) /\ PlanInv(w) /\ PollInv(w) /\ CancelInv(w)

ControlInv == Alone /\ StoredInv /\ TtlInv /\ \A w \in Workers : StepInv(w)

-----------------------------------------------------------------------------
(* Nothing is asked of a reconcile that is not under way.                  *)
LEMMA IdleStepInv ==
  ASSUME NEW w, pc'[w] = "idle"
  PROVE  StepInv(w)'
BY DEF StepInv, StartInv, PlanInv, PollInv, CancelInv, StartSteps, PollSteps, CancelSteps

(* A step of one reconcile, when it is the only one under way.             *)
LEMMA ToControl ==
  ASSUME TypeInv, ControlInv, NEW w \in Workers, pc[w] # "idle",
         \A v \in Workers : v # w => pc'[v] = pc[v],
         StoredInv', TtlInv', StepInv(w)'
  PROVE  ControlInv'
<1>1. \A v \in Workers : v # w => pc'[v] = "idle" BY DEF ControlInv, Alone
<1>2. \A v \in Workers : StepInv(v)' BY <1>1, IdleStepInv
<1> QED BY <1>1, <1>2 DEF ControlInv, Alone

LEMMA GotoPc ==
  ASSUME TypeInv, NEW w \in Workers, NEW step, Goto(w, step)
  PROVE  /\ pc'[w] = step /\ \A v \in Workers : v # w => pc'[v] = pc[v]
         /\ obj' = obj /\ groups' = groups
BY DEF Goto, TypeInv, LocalTyped

LEMMA ResetPc ==
  ASSUME TypeInv, NEW w \in Workers, Reset(w)
  PROVE  pc'[w] = "idle" /\ \A v \in Workers : v # w => pc'[v] = pc[v]
BY DEF Reset, TypeInv, LocalTyped

(* After its last step a reconcile leaves nothing behind.                  *)
LEMMA ReturnStepInv ==
  ASSUME TypeInv, NEW w \in Workers, Return(w)
  PROVE  StepInv(w)' /\ \A v \in Workers : v # w => pc'[v] = pc[v]
BY ResetPc, IdleStepInv DEF Return

(* The end of a poll leaves statuses that follow from the stored ones.     *)
LEMMA ConcludeControl ==
  ASSUME TypeInv, NEW w \in Workers, NEW shards, Conclude(w, shards), Follows(w, shards, TRUE)',
         cr' = cr
  PROVE  StepInv(w)' /\ \A v \in Workers : v # w => pc'[v] = pc[v]
<1>1. CASE Return(w) BY <1>1, ReturnStepInv
<1>2. CASE /\ AllTerminal(shards) \/ shards # obj[w].shards
           /\ Goto(w, IF AllTerminal(shards) THEN "patchFinal" ELSE "patchShards")
           /\ updated' = [updated EXCEPT ![w] = shards]
           /\ todo' = [todo EXCEPT ![w] = {}]
  <2>1. PICK step : step = IF AllTerminal(shards) THEN "patchFinal" ELSE "patchShards" OBVIOUS
  <2>2. Goto(w, step) BY <1>2, <2>1
  <2>3. pc'[w] = step /\ \A v \in Workers : v # w => pc'[v] = pc[v] BY <2>2, GotoPc
  <2>4. updated'[w] = shards BY <1>2 DEF TypeInv, LocalTyped
  <2>5. LeftToDo(w)' BY <2>1, <2>3, <2>4 DEF LeftToDo, AllTerminal
  <2>6. PollInv(w)' BY <2>1, <2>3, <2>4, <2>5 DEF PollInv, Follows
  <2> QED BY <2>1, <2>3, <2>6 DEF StepInv, StartInv, PlanInv, CancelInv, StartSteps, CancelSteps
<1> QED BY <1>1, <1>2 DEF Conclude

(* So does going on to the next shard.                                     *)
LEMMA AfterPollControl ==
  ASSUME TypeInv, NEW w \in Workers, NEW shards, NEW rest, AfterPoll(w, shards, rest),
         Follows(w, shards, FALSE)', rest \subseteq InPhase(cr.shards, "Running"), cr' = cr
  PROVE  StepInv(w)' /\ \A v \in Workers : v # w => pc'[v] = pc[v]
<1>1. CASE Conclude(w, shards)
  <2>1. Follows(w, shards, TRUE)' BY DEF Follows
  <2> QED BY <1>1, <2>1, ConcludeControl
<1>2. CASE /\ rest # {} \/ (FreeSlots(shards) > 0 /\ InPhase(shards, "Pending") # {})
           /\ Goto(w, IF rest # {} THEN "pollShards" ELSE "refill")
           /\ updated' = [updated EXCEPT ![w] = shards]
           /\ todo' = [todo EXCEPT ![w] = rest]
  <2>1. PICK step : step = IF rest # {} THEN "pollShards" ELSE "refill" OBVIOUS
  <2>2. Goto(w, step) BY <1>2, <2>1
  <2>3. pc'[w] = step /\ \A v \in Workers : v # w => pc'[v] = pc[v] BY <2>2, GotoPc
  <2>4. updated'[w] = shards /\ todo'[w] = rest BY <1>2 DEF TypeInv, LocalTyped
  <2>5. LeftToDo(w)' BY <1>2, <2>1, <2>3, <2>4 DEF LeftToDo, FreeSlots, InPhase
  <2>6. PollInv(w)' BY <2>1, <2>3, <2>4, <2>5 DEF PollInv, Follows
  <2> QED BY <2>1, <2>3, <2>6 DEF StepInv, StartInv, PlanInv, CancelInv, StartSteps, CancelSteps
<1> QED BY <1>1, <1>2 DEF AfterPoll

(* The shard a loop visits next is one it has to visit.                    *)
LEMMA TodoFirst ==
  ASSUME TypeInv, NEW w \in Workers, todo[w] # {}
  PROVE  /\ Min(todo[w]) \in todo[w] /\ Min(todo[w]) \in Indices
         /\ \A l \in todo[w] : Min(todo[w]) <= l
<1>1. todo[w] \subseteq Indices BY DEF TypeInv, LocalTyped
<1>2. todo[w] \in SUBSET Nat BY <1>1, MaxShardsBound DEF Indices
<1> QED BY <1>1, <1>2, MinMember

(* createJob: an existing Job is kept, else there is a new one for its     *)
(* targets.                                                                *)
LEMMA PutJobEffect ==
  ASSUME TypeInv, NEW k \in Indices, NEW limit, PutJob(k, limit)
  PROVE  /\ \A l \in Indices : l # k => jobs'[l] = jobs[l]
         /\ outcomes' = outcomes
         /\ \/ Exists(k) /\ jobs' = jobs /\ acted' = acted
            \/ /\ ~Exists(k)
               /\ jobs'[k] = [state |-> "active", targets |-> AnsibleTargets(configMap, limit), ttl |-> FALSE]
               /\ \A h \in InvNames : acted'[h] = IF h \in AnsibleTargets(configMap, limit) /\ acted[h] < 2
                                                  THEN acted[h] + 1 ELSE acted[h]
BY DEF PutJob, Exists, jobVars, TypeInv, JobsTyped

(* An attempt to create shard k's Job removes none, and marks none for     *)
(* collection.                                                             *)
LEMMA TryJob ==
  ASSUME TypeInv, NEW k \in Indices, NEW limit, NEW answer,
         IF answer = "refused" THEN UNCHANGED jobVars ELSE PutJob(k, limit)
  PROVE  /\ \A l \in Indices : (Exists(l) => Exists(l)') /\ (jobs'[l].ttl => jobs[l].ttl)
         /\ answer # "refused" => Exists(k)'
<1>1. CASE answer = "refused"
  <2>1. jobs' = jobs BY <1>1 DEF jobVars
  <2> QED BY <1>1, <2>1 DEF Exists
<1>2. CASE answer # "refused"
  <2>1. PutJob(k, limit) BY <1>2
  <2>2. \A l \in Indices : l # k => jobs'[l] = jobs[l] BY <2>1, PutJobEffect
  <2>3. CASE Exists(k) /\ jobs' = jobs BY <2>2, <2>3 DEF Exists
  <2>4. CASE jobs'[k] = [state |-> "active", targets |-> AnsibleTargets(configMap, limit), ttl |-> FALSE]
    <3>1. jobs'[k].state = "active" /\ jobs'[k].ttl = FALSE BY <2>4
    <3> QED BY <2>2, <3>1 DEF Exists
  <2> QED BY <2>1, <2>3, <2>4, PutJobEffect
<1> QED BY <1>1, <1>2

(* deleteJob touches no other Job.                                         *)
LEMMA RemoveJobEffect ==
  ASSUME TypeInv, NEW k, RemoveJob(k)
  PROVE  /\ \A l \in Indices : l # k => jobs'[l] = jobs[l]
         /\ k \in Indices => jobs'[k] = NoJob
         /\ \A l \in Indices : (jobs'[l].ttl => jobs[l].ttl) /\ (Exists(l)' => Exists(l))
         /\ outcomes' = outcomes /\ acted' = acted
BY DEF RemoveJob, TypeInv, JobsTyped, NoJob, Exists

(* A reconcile is not disturbed by what goes on elsewhere, as long as only *)
(* Jobs on record go away.                                                 *)
LEMMA StepInvKept ==
  ASSUME TypeInv, StoredInv, NEW w \in Workers, StepInv(w),
         pc'[w] = pc[w], obj'[w] = obj[w], updated'[w] = updated[w], todo'[w] = todo[w],
         groups'[w] = groups[w], configMap' = configMap,
         cr'.phase = cr.phase, cr'.shards = cr.shards, cr.cancel => cr'.cancel,
         \A k \in Indices : Exists(k) =>
           Exists(k)' \/ (k \in DOMAIN cr.shards /\ cr.shards[k].phase # "Pending")
  PROVE  StepInv(w)'
<1>1. DOMAIN cr.shards \subseteq Indices
  <2>1. cr.shards \in ShardSeqs BY DEF TypeInv, RunsTyped
  <2> QED BY <2>1, ShardSeqFacts
<1>2. DOMAIN updated[w] \subseteq Indices
  <2>1. updated[w] \in ShardSeqs BY DEF TypeInv, LocalTyped
  <2> QED BY <2>1, ShardSeqFacts
<1>3. StartInv(w)' BY DEF StepInv, StartInv
<1>4. PlanInv(w)'
  <2> SUFFICES ASSUME pc[w] \in {"startShards", "patchRunning"} PROVE Planned(w)' BY DEF PlanInv
  <2>1. Planned(w) BY DEF StepInv, PlanInv
  <2>2. cr.shards = <<>> BY DEF StepInv, StartInv, StartSteps, StoredInv
  <2>3. \A k \in InPhase(updated[w], "Running") : Exists(k)'
    <3>1. \A k \in InPhase(updated[w], "Running") : k \in Indices /\ Exists(k)
      BY <2>1, <1>2 DEF Planned, InPhase
    <3>2. DOMAIN cr.shards = {} BY <2>2
    <3> QED BY <3>1, <3>2
  <2> QED BY <2>1, <2>3 DEF Planned
<1>5. PollInv(w)'
  <2> SUFFICES ASSUME pc[w] \in PollSteps
               PROVE  /\ Follows(w, updated[w], pc[w] \in {"startPending", "patchShards", "patchFinal"})'
                      /\ LeftToDo(w)'
    BY DEF PollInv
  <2>1. /\ Follows(w, updated[w], pc[w] \in {"startPending", "patchShards", "patchFinal"})
        /\ LeftToDo(w)
    BY DEF StepInv, PollInv
  <2>2. LeftToDo(w)' BY <2>1 DEF LeftToDo
  <2> QED BY <2>1, <2>2, <1>1 DEF Follows
<1>6. CancelInv(w)' BY DEF StepInv, CancelInv
<1> QED BY <1>3, <1>4, <1>5, <1>6 DEF StepInv

(* The control invariant holds at the start.                               *)
LEMMA InitControl == Init => ControlInv
<1> SUFFICES ASSUME Init PROVE ControlInv OBVIOUS
<1>1. \A w \in Workers : pc[w] = "idle" BY DEF Init
<1>2. \A w \in Workers : StepInv(w)
  BY <1>1 DEF StepInv, StartInv, PlanInv, PollInv, CancelInv, StartSteps, PollSteps, CancelSteps
<1>3. StoredInv BY DEF Init, NewRun, StoredInv
<1>4. TtlInv BY DEF Init, NoJob, TtlInv
<1> QED BY <1>1, <1>2, <1>3, <1>4 DEF ControlInv, Alone

(* Users, Kubernetes, crashes and restarts keep the control invariant.     *)
LEMMA WorldControl ==
  ASSUME TypeInv, ControlInv,
         RequestCancel \/ EditInventory \/ FinishJob \/ ExpireJob \/ Resync \/ Crash \/ Restart
  PROVE  ControlInv'
<1>0. \A k \in Indices : jobs[k].state \in {"absent", "active"} \cup Results /\ jobs[k].ttl \in BOOLEAN
  BY DEF TypeInv, JobsTyped
<1>1. CASE Crash
  <2>1. \A w \in Workers : pc'[w] = "idle" BY <1>1 DEF Crash
  <2>2. \A w \in Workers : StepInv(w)' BY <2>1, IdleStepInv
  <2> QED BY <1>1, <2>1, <2>2 DEF Crash, ControlInv, Alone, StoredInv, TtlInv, jobVars
<1>2. ASSUME RequestCancel \/ EditInventory \/ FinishJob \/ ExpireJob \/ Resync \/ Restart
      PROVE  ControlInv'
  <2>1. UNCHANGED localVars /\ configMap' = configMap
    BY <1>2 DEF RequestCancel, EditInventory, FinishJob, ExpireJob, Resync, Restart
  <2>2. cr'.phase = cr.phase /\ cr'.shards = cr.shards /\ (cr.cancel => cr'.cancel)
    BY <1>2 DEF RequestCancel, EditInventory, FinishJob, ExpireJob, Resync, Restart, runVars,
                TypeInv, RunsTyped
  <2>3. /\ \A k \in Indices : jobs'[k].ttl => jobs[k].ttl
        /\ \A k \in Indices : Exists(k) => Exists(k)' \/ jobs[k].ttl
    <3>1. CASE ExpireJob
      <4>1. PICK k \in Indices : jobs[k].ttl /\ RemoveJob(k) BY <3>1 DEF ExpireJob
      <4> QED BY <4>1, RemoveJobEffect DEF Exists
    <3>2. CASE FinishJob
      <4>1. PICK k \in Indices, r \in Results : jobs' = [jobs EXCEPT ![k].state = r] BY <3>2 DEF FinishJob
      <4>2. \A l \in Indices : l # k => jobs'[l] = jobs[l] BY <4>1 DEF TypeInv, JobsTyped
      <4>3. jobs'[k].ttl = jobs[k].ttl /\ jobs'[k].state = r
        <5>1. PICK j : j = jobs[k] OBVIOUS
        <5>2. jobs'[k] = [j EXCEPT !.state = r] BY <4>1, <5>1 DEF TypeInv, JobsTyped
        <5>3. j \in [state: {"absent", "active"} \cup Results, targets: SUBSET InvNames, ttl: BOOLEAN]
          BY <5>1 DEF TypeInv, JobsTyped
        <5> QED BY <5>1, <5>2, <5>3
      <4> QED BY <4>2, <4>3 DEF Exists, Results
    <3>3. CASE RequestCancel \/ EditInventory \/ Resync \/ Restart
      BY <3>3 DEF RequestCancel, EditInventory, Resync, Restart, jobVars, Exists
    <3> QED BY <1>2, <3>1, <3>2, <3>3
  <2>4. \A k \in Indices : Exists(k) =>
          Exists(k)' \/ (k \in DOMAIN cr.shards /\ cr.shards[k].phase # "Pending")
    BY <2>3 DEF ControlInv, TtlInv
  <2>5. \A w \in Workers : StepInv(w)'
    BY <2>1, <2>2, <2>4, StepInvKept DEF localVars, ControlInv
  <2> QED BY <2>1, <2>2, <2>3, <2>5 DEF ControlInv, Alone, StoredInv, TtlInv, localVars
<1> QED BY <1>1, <1>2

(* So does the start of a reconcile.                                       *)
LEMMA FireTimerControl ==
  ASSUME TypeInv, ControlInv, OneAtATime, NEW w \in Workers, FireTimer(w)
  PROVE  ControlInv'
<1>1. \A v \in Workers : pc[v] = "idle" BY DEF FireTimer, OneAtATime
<1>2. cr' = cr /\ UNCHANGED jobVars BY DEF FireTimer
<1>3. StoredInv' /\ TtlInv' BY <1>2 DEF ControlInv, StoredInv, TtlInv, jobVars
<1>4. CASE cr.phase \in Terminal
  <2>1. pc' = pc BY <1>4 DEF FireTimer, localVars
  <2> QED BY <2>1, <1>1, <1>3, IdleStepInv DEF ControlInv, Alone
<1>5. CASE cr.phase \notin Terminal
  <2>0. /\ cr.cancel \in BOOLEAN /\ cr.shards \in ShardSeqs
        /\ cr.phase \in {"None", "Resolving", "Running"}
    <3>1. cr \in [cancel: BOOLEAN, phase: Phases, shards: ShardSeqs] BY DEF TypeInv, RunsTyped
    <3> HIDE DEF ShardSeqs
    <3>2. cr.cancel \in BOOLEAN /\ cr.shards \in ShardSeqs /\ cr.phase \in Phases BY <3>1
    <3> QED BY <3>2, <1>5 DEF Phases
  <2>1. /\ pc'[w] = EntryStep(cr) /\ obj'[w] = cr /\ updated'[w] = cr.shards
        /\ todo'[w] = IF EntryStep(cr) = "deleteJobs" THEN DOMAIN cr.shards \ InPhase(cr.shards, "Pending")
                      ELSE ToPoll(cr.shards)
        /\ \A v \in Workers : v # w => pc'[v] = pc[v]
    BY <1>5 DEF FireTimer, TypeInv, LocalTyped
  <2>2. Alone' /\ \A v \in Workers : v # w => StepInv(v)'
    BY <2>1, <1>1, IdleStepInv DEF Alone
  <2>3. InPhase(cr.shards, "Pending") \subseteq DOMAIN cr.shards BY DEF InPhase
  <2>4. StartInv(w)'
    BY <2>0, <2>1, <1>2 DEF StartInv, StartSteps, EntryStep, ControlInv, StoredInv
  <2>5. PlanInv(w)' BY <2>1 DEF PlanInv, EntryStep
  <2>6. PollInv(w)'
    <3> SUFFICES ASSUME pc'[w] \in PollSteps PROVE PollInv(w)' BY DEF PollInv
    <3>1. pc'[w] = "pollShards" /\ cr.phase = "Running" BY <2>1 DEF EntryStep, PollSteps
    <3>2. todo'[w] = InPhase(cr.shards, "Running") BY <3>1, <2>1 DEF ToPoll
    <3>3. Follows(w, updated[w], FALSE)' BY <3>1, <2>1, <1>2 DEF Follows
    <3>4. LeftToDo(w)' BY <3>1, <3>2, <1>2 DEF LeftToDo, InPhase
    <3> QED BY <3>1, <3>3, <3>4 DEF PollInv, Follows
  <2>7. CancelInv(w)'
    <3> SUFFICES ASSUME pc'[w] \in CancelSteps PROVE CancelInv(w)' BY DEF CancelInv
    <3>1. cr.cancel /\ cr.phase # "None" BY <2>0, <2>1 DEF EntryStep, CancelSteps
    <3>2. EntryStep(cr) = "deleteJobs" => InPhase(cr.shards, "Pending") # DOMAIN cr.shards
      BY <3>1 DEF EntryStep
    <3> QED BY <3>1, <3>2, <2>0, <2>1, <2>3, <1>2 DEF CancelInv
  <2> QED BY <1>3, <2>2, <2>4, <2>5, <2>6, <2>7 DEF ControlInv, StepInv
<1> QED BY <1>4, <1>5

(* The types a reconcile's step relies on.                                 *)
LEMMA StepTypes ==
  ASSUME TypeInv, NEW w \in Workers
  PROVE  /\ cr \in [cancel: BOOLEAN, phase: Phases, shards: ShardSeqs]
         /\ cr.shards \in ShardSeqs /\ updated[w] \in ShardSeqs /\ obj[w].shards \in ShardSeqs
         /\ DOMAIN cr.shards \subseteq Indices /\ DOMAIN updated[w] \subseteq Indices
         /\ todo[w] \subseteq Indices
<1>1. cr.shards \in ShardSeqs /\ updated[w] \in ShardSeqs /\ obj[w].shards \in ShardSeqs
  BY DEF TypeInv, RunsTyped, LocalTyped
<1> QED BY <1>1, ShardSeqFacts DEF TypeInv, RunsTyped, LocalTyped

(* What patching the run's status leaves stored.                           *)
LEMMA PatchEffect ==
  ASSUME TypeInv, NEW w \in Workers, NEW phase, NEW shards, NEW answer,
         PatchRunStatus(w, phase, shards, answer)
  PROVE  /\ cr' = cr \/ (/\ cr'.phase = phase /\ cr'.cancel = cr.cancel
                         /\ cr'.shards = IF shards # <<>> THEN shards ELSE cr.shards)
         /\ Spend(answer)
<1>1. cr \in [cancel: BOOLEAN, phase: Phases, shards: ShardSeqs] BY DEF TypeInv, RunsTyped
<1>2. PICK s : s = IF shards # <<>> THEN shards ELSE cr.shards OBVIOUS
<1>3. cr' = IF answer = "refused" THEN cr ELSE [cr EXCEPT !.phase = phase, !.shards = s]
  BY <1>2 DEF PatchRunStatus
<1> HIDE DEF ShardSeqs, Phases
<1>4. answer # "refused" => cr'.phase = phase /\ cr'.cancel = cr.cancel /\ cr'.shards = s
  BY <1>1, <1>3
<1>5. answer = "refused" => cr' = cr BY <1>3
<1> QED BY <1>2, <1>4, <1>5 DEF PatchRunStatus

(* The patches of the status that end a reconcile keep it.                 *)
LEMMA PatchEndControl ==
  ASSUME TypeInv, ControlInv, NEW w \in Workers,
         \/ PatchCancelled(w) \/ PatchRunning(w) \/ PatchEmpty(w) \/ PatchError(w)
         \/ PatchShards(w) \/ PatchFinal(w)
  PROVE  ControlInv'
<1>0. Return(w) /\ jobs' = jobs /\ pc[w] # "idle"
  BY DEF PatchCancelled, PatchRunning, PatchEmpty, PatchError, PatchShards, PatchFinal, jobVars
<1>1. StepInv(w) /\ StoredInv /\ TtlInv BY DEF ControlInv
<1>2. StoredInv' /\ TtlInv'
  <2>0. CASE cr' = cr BY <2>0, <1>0, <1>1 DEF StoredInv, TtlInv
  <2>1. CASE PatchCancelled(w)
    <3>1. PICK answer : PatchRunStatus(w, "Cancelled", obj[w].shards, answer) BY <2>1 DEF PatchCancelled
    <3>2. obj[w].shards = cr.shards BY <2>1, <1>1 DEF PatchCancelled, StepInv, CancelInv, CancelSteps
    <3>3. cr' = cr \/ (cr'.phase = "Cancelled" /\ cr'.shards = cr.shards) BY <3>1, <3>2, PatchEffect
    <3> QED BY <3>3, <2>0, <1>0, <1>1 DEF StoredInv, TtlInv
  <2>2. CASE PatchRunning(w)
    <3>1. PICK answer : PatchRunStatus(w, "Running", updated[w], answer) BY <2>2 DEF PatchRunning
    <3>2. Planned(w) /\ cr.phase \in {"None", "Resolving"}
      BY <2>2, <1>1 DEF PatchRunning, StepInv, PlanInv, StartInv, StartSteps
    <3>3. updated[w] # <<>>
      <4>1. groups[w] \in Inventories BY <3>2 DEF Planned
      <4>2. PICK s : s = ShardHosts(groups[w], MaxAmountOfHosts) OBVIOUS
      <4>3. s # <<>> /\ DOMAIN updated[w] = DOMAIN s BY <3>2, <4>2 DEF Planned
      <4>8. DOMAIN s # {} BY <4>1, <4>2, <4>3, PendingShards
      <4>9. updated[w] \in ShardSeqs BY StepTypes
      <4> QED BY <4>3, <4>8, <4>9, ShardSeqFacts
    <3>4. cr' = cr \/ (cr'.phase = "Running" /\ cr'.shards # <<>>) BY <3>1, <3>3, PatchEffect
    <3>5. \A k \in Indices : ~jobs[k].ttl
      <4>1. cr.shards = <<>> BY <3>2, <1>1 DEF StoredInv
      <4>2. DOMAIN cr.shards = {} BY <4>1
      <4> QED BY <4>2, <1>1 DEF TtlInv
    <3> QED BY <3>4, <3>5, <2>0, <1>0, <1>1 DEF StoredInv, TtlInv
  <2>3. CASE PatchEmpty(w) \/ PatchError(w)
    <3>1. PICK phase, answer : phase \in {"Succeeded", "Error"} /\ PatchRunStatus(w, phase, <<>>, answer)
      BY <2>3, <1>1 DEF PatchEmpty, PatchError, StepInv, StartInv, StartSteps
    <3>2. cr.shards = <<>> BY <2>3, <1>1 DEF PatchEmpty, PatchError, StepInv, StartInv, StartSteps, StoredInv
    <3>3. cr' = cr \/ (cr'.phase = phase /\ cr'.shards = <<>>) BY <3>1, <3>2, PatchEffect
    <3>4. DOMAIN cr.shards = {} BY <3>2
    <3>5. cr'.shards = <<>> => DOMAIN cr'.shards = {} OBVIOUS
    <3> QED BY <3>1, <3>2, <3>3, <3>4, <3>5, <2>0, <1>0, <1>1 DEF StoredInv, TtlInv
  <2>4. CASE PatchShards(w) \/ PatchFinal(w)
    <3>1. PICK phase, answer :
            /\ phase \in {"Running", "Succeeded", "Failed"}
            /\ PatchRunStatus(w, phase, updated[w], answer)
            /\ phase = "Running" \/ (pc[w] = "patchFinal" /\ phase = FinalPhase(updated[w]))
      <4>1. PatchShards(w) => obj[w].phase = "Running"
        BY <1>1 DEF PatchShards, StepInv, PollInv, PollSteps, Follows
      <4>2. FinalPhase(updated[w]) \in {"Succeeded", "Failed"} BY DEF FinalPhase
      <4> QED BY <2>4, <4>1, <4>2 DEF PatchShards, PatchFinal
    <3>2. Follows(w, updated[w], TRUE) /\ LeftToDo(w)
      BY <2>4, <1>1 DEF PatchShards, PatchFinal, StepInv, PollInv, PollSteps, Follows
    <3>3. updated[w] # <<>>
      <4>1. cr.shards # <<>> BY <3>2, <1>1 DEF Follows, StoredInv
      <4> QED BY <4>1, <3>2, StepTypes, ShardSeqFacts DEF Follows
    <3>4. cr' = cr \/ (cr'.phase = phase /\ cr'.shards = updated[w]) BY <3>1, <3>3, PatchEffect
    <3>5. ASSUME cr'.phase = phase, cr'.shards = updated[w] PROVE StoredInv'
      <4>1. CASE phase = "Running" BY <3>3, <3>5, <4>1 DEF StoredInv
      <4>2. CASE pc[w] = "patchFinal" /\ phase = FinalPhase(updated[w])
        <5>1. AllTerminal(updated[w]) BY <4>2, <3>2 DEF LeftToDo
        <5>2. phase = "Succeeded" => \A k \in DOMAIN updated[w] : updated[w][k].phase = "Succeeded"
          BY <4>2 DEF FinalPhase
        <5>3. phase = "Failed" => \E k \in DOMAIN updated[w] : updated[w][k].phase \in {"Failed", "Error"}
          BY <4>2, <5>1 DEF FinalPhase, AllTerminal, TerminalShard
        <5> QED BY <3>1, <3>3, <3>5, <5>2, <5>3 DEF StoredInv
      <4> QED BY <3>1, <4>1, <4>2
    <3>6. ASSUME cr'.shards = updated[w] PROVE TtlInv'
      BY <3>2, <3>6, <1>0, <1>1 DEF Follows, TtlInv, TerminalShard
    <3> QED BY <3>4, <3>5, <3>6, <2>0
  <2> QED BY <2>1, <2>2, <2>3, <2>4
<1>3. StepInv(w)' /\ \A v \in Workers : v # w => pc'[v] = pc[v] BY <1>0, ReturnStepInv
<1> QED BY <1>0, <1>2, <1>3, ToControl

(* The steps of startParallelRun and of cancellation keep it.              *)
LEMMA StartStepControl ==
  ASSUME TypeInv, ControlInv, NEW w \in Workers,
         DeleteJobs(w) \/ PatchResolving(w) \/ Prepare(w) \/ StartShard(w)
  PROVE  ControlInv'
<1>0. pc[w] # "idle" BY DEF DeleteJobs, PatchResolving, Prepare, StartShard
<1>1. StepInv(w) /\ StoredInv /\ TtlInv BY DEF ControlInv
<1>2. todo \in [Workers -> SUBSET Indices] /\ updated \in [Workers -> ShardSeqs] /\ pc \in [Workers -> Steps]
      /\ groups \in [Workers -> Inventories \cup {<<>>}]
  BY DEF TypeInv, LocalTyped
<1>3. CASE DeleteJobs(w)
  <2>0. cr' = cr /\ CancelInv(w) /\ pc[w] = "deleteJobs" BY <1>3, <1>1 DEF DeleteJobs, StepInv
  <2>1. PICK step : step = IF Cardinality(todo[w]) = 1 THEN "patchCancelled" ELSE "deleteJobs" OBVIOUS
  <2>2. Goto(w, step) BY <2>1, <1>3 DEF DeleteJobs
  <2>3. pc'[w] = step /\ obj' = obj /\ \A v \in Workers : v # w => pc'[v] = pc[v] BY <2>2, GotoPc
  <2>4. todo'[w] = todo[w] \ {Min(todo[w])} BY <1>2, <1>3 DEF DeleteJobs
  <2>5. todo[w] # {} /\ todo[w] \subseteq DOMAIN cr.shards \ InPhase(cr.shards, "Pending")
    BY <2>0 DEF CancelInv, CancelSteps
  <2>6. step = "deleteJobs" => todo'[w] # {}
    <3>1. ASSUME todo'[w] = {} PROVE Cardinality(todo[w]) = 1
      <4>1. todo[w] = {Min(todo[w])} BY <3>1, <2>4, <2>5
      <4> QED BY <4>1, FS_Singleton
    <3> QED BY <3>1, <2>1
  <2>7. CancelInv(w)'
    BY <2>0, <2>1, <2>3, <2>4, <2>5, <2>6 DEF CancelInv, CancelSteps, InPhase
  <2>8. StepInv(w)' BY <2>1, <2>3, <2>7 DEF StepInv, StartInv, PlanInv, PollInv, StartSteps, PollSteps
  <2>9. TtlInv'
    <3>1. \A k \in Indices : jobs'[k].ttl => jobs[k].ttl
      <4>1. PICK answer : IF answer = "refused" THEN UNCHANGED jobVars ELSE RemoveJob(Min(todo[w]))
        BY <1>3 DEF DeleteJobs
      <4>2. jobs' = jobs \/ RemoveJob(Min(todo[w])) BY <4>1 DEF jobVars
      <4> QED BY <4>2, RemoveJobEffect
    <3> QED BY <3>1, <2>0, <1>1 DEF TtlInv
  <2>10. StoredInv' BY <2>0, <1>1 DEF StoredInv
  <2> QED BY <1>0, <2>3, <2>8, <2>9, <2>10, ToControl
<1>4. CASE PatchResolving(w)
  <2>0. StartInv(w) /\ pc[w] = "patchResolving" /\ jobs' = jobs BY <1>4, <1>1 DEF PatchResolving, StepInv, jobVars
  <2>1. PICK answer : /\ PatchRunStatus(w, "Resolving", obj[w].shards, answer)
                      /\ Goto(w, IF answer = "ok" THEN "prepare" ELSE "patchError")
    BY <1>4 DEF PatchResolving
  <2>2. obj[w].shards = <<>> /\ cr.phase \in {"None", "Resolving"} /\ cr.shards = <<>>
    BY <2>0, <1>1 DEF StartInv, StartSteps, StoredInv
  <2>3. cr'.phase \in {"None", "Resolving"} /\ cr'.shards = cr.shards BY <2>1, <2>2, PatchEffect
  <2>4. PICK step : step = IF answer = "ok" THEN "prepare" ELSE "patchError" OBVIOUS
  <2>5. pc'[w] = step /\ obj' = obj /\ \A v \in Workers : v # w => pc'[v] = pc[v]
    BY <2>1, <2>4, GotoPc
  <2>6. StepInv(w)'
    BY <2>2, <2>3, <2>4, <2>5 DEF StepInv, StartInv, PlanInv, PollInv, CancelInv, PollSteps, CancelSteps
  <2>7. StoredInv' BY <2>2, <2>3 DEF StoredInv
  <2>8. TtlInv' BY <2>0, <2>3, <1>1 DEF TtlInv
  <2> QED BY <1>0, <2>5, <2>6, <2>7, <2>8, ToControl
<1>5. CASE Prepare(w)
  <2>0. StartInv(w) /\ pc[w] = "prepare" /\ jobs' = jobs /\ cr' = cr
    BY <1>5, <1>1 DEF Prepare, StepInv, jobVars
  <2>1. StoredInv' /\ TtlInv' BY <2>0, <1>1 DEF StoredInv, TtlInv
  <2>2. obj[w].shards = <<>> /\ cr.phase \in {"None", "Resolving"}
    BY <2>0 DEF StartInv, StartSteps
  <2>3. StepInv(w)' /\ \A v \in Workers : v # w => pc'[v] = pc[v]
    <3>1. CASE Return(w) BY <3>1, ReturnStepInv
    <3>2. CASE Goto(w, "patchError")
      <4>1. pc'[w] = "patchError" /\ obj' = obj /\ \A v \in Workers : v # w => pc'[v] = pc[v]
        BY <3>2, GotoPc
      <4> QED BY <4>1, <2>0, <2>2 DEF StepInv, StartInv, PlanInv, PollInv, CancelInv, PollSteps, CancelSteps
    <3>3. ASSUME /\ RenderInventory("ok")
                 /\ groups' = [groups EXCEPT ![w] = inventory]
                 /\ \E shards \in {ShardHosts(inventory, MaxAmountOfHosts)} :
                      /\ updated' = [updated EXCEPT ![w] = Pending(shards)]
                      /\ todo' = [todo EXCEPT ![w] = FirstOf(DOMAIN shards, MaxConcurrentRuns)]
                      /\ pc' = [pc EXCEPT ![w] = IF shards = <<>> THEN "patchEmpty" ELSE "startShards"]
                 /\ UNCHANGED <<obj, armed>>
          PROVE  StepInv(w)' /\ \A v \in Workers : v # w => pc'[v] = pc[v]
      <4>1. PICK shards : /\ shards = ShardHosts(inventory, MaxAmountOfHosts)
              /\ updated' = [updated EXCEPT ![w] = Pending(shards)]
              /\ todo' = [todo EXCEPT ![w] = FirstOf(DOMAIN shards, MaxConcurrentRuns)]
              /\ pc' = [pc EXCEPT ![w] = IF shards = <<>> THEN "patchEmpty" ELSE "startShards"]
        BY <3>3
      <4>2. inventory \in Inventories /\ configMap' = inventory
        BY <3>3 DEF RenderInventory, TypeInv, WorldTyped
      <4>3. PICK step : step = IF shards = <<>> THEN "patchEmpty" ELSE "startShards" OBVIOUS
      <4>4. /\ pc'[w] = step /\ \A v \in Workers : v # w => pc'[v] = pc[v]
            /\ updated'[w] = Pending(shards) /\ todo'[w] = FirstOf(DOMAIN shards, MaxConcurrentRuns)
            /\ groups'[w] = inventory
        BY <4>1, <4>3, <3>3, <1>2
      <4>5. /\ DOMAIN Pending(shards) = DOMAIN shards
            /\ Len(shards) \in Nat /\ DOMAIN shards = 1..Len(shards)
            /\ \A k \in DOMAIN shards : /\ Pending(shards)[k].hostNames = shards[k].hostNames
                                        /\ Pending(shards)[k].phase = "Pending"
        BY <4>1, <4>2, PendingShards
      <4>6. PlanInv(w)'
        <5> SUFFICES ASSUME step = "startShards" PROVE Planned(w)' BY <4>3, <4>4 DEF PlanInv
        <5>1. shards # <<>> BY <4>3
        <5>2. DOMAIN shards # {} BY <4>1, <4>2, <5>1, PendingShards
        <5>3. IsFiniteSet(DOMAIN shards) /\ DOMAIN shards \in SUBSET Nat
          <6>1. 1 \in Int /\ Len(shards) \in Int BY <4>5
          <6>2. IsFiniteSet(1..Len(shards)) BY <6>1, FS_Interval
          <6> QED BY <6>2, <4>5
        <5>4. FirstOf(DOMAIN shards, MaxConcurrentRuns) # {}
          <6>1. MaxConcurrentRuns \in Nat /\ MaxConcurrentRuns > 0 BY ParallelAssumption
          <6> QED BY <6>1, <5>2, <5>3, FirstOfCorrect
        <5>5. InPhase(Pending(shards), "Running") = {} BY <4>5 DEF InPhase
        <5>6. InPhase(updated'[w], "Running") = {} BY <5>5, <4>4
        <5> QED BY <4>1, <4>2, <4>4, <4>5, <5>1, <5>4, <5>6 DEF Planned, InPhase
      <4>7. StartInv(w)' BY <2>0, <2>2, <3>3 DEF StartInv
      <4> QED BY <4>3, <4>4, <4>6, <4>7 DEF StepInv, PollInv, CancelInv, PollSteps, CancelSteps
    <3> QED BY <1>5, <3>1, <3>2, <3>3 DEF Prepare
  <2> QED BY <1>0, <2>1, <2>3, ToControl
<1>6. CASE StartShard(w)
  <2>0. StartInv(w) /\ Planned(w) /\ pc[w] = "startShards" /\ cr' = cr /\ configMap' = configMap
    BY <1>6, <1>1 DEF StartShard, StepInv, PlanInv
  <2>1. PICK answer, k, limit :
          /\ k = Min(todo[w])
          /\ IF answer = "refused" THEN UNCHANGED jobVars ELSE PutJob(k, limit)
          /\ \/ Return(w)
             \/ /\ answer = "ok"
                /\ updated' = [updated EXCEPT ![w] = Started(w, k)]
                /\ todo' = [todo EXCEPT ![w] = @ \ {k}]
                /\ Goto(w, IF todo[w] = {k} THEN "patchRunning" ELSE "startShards")
    BY <1>6 DEF StartShard
  <2>2. todo[w] # {} BY <2>0 DEF Planned
  <2>3. k \in todo[w] /\ k \in Indices BY <2>1, <2>2, TodoFirst
  <2>4. /\ \A l \in Indices : (Exists(l) => Exists(l)') /\ (jobs'[l].ttl => jobs[l].ttl)
        /\ answer # "refused" => Exists(k)'
    BY <2>1, <2>3, TryJob
  <2>5. StoredInv' /\ TtlInv' BY <2>0, <2>4, <1>1 DEF StoredInv, TtlInv
  <2>6. StepInv(w)' /\ \A v \in Workers : v # w => pc'[v] = pc[v]
    <3>1. CASE Return(w) BY <3>1, ReturnStepInv
    <3>2. CASE /\ answer = "ok"
               /\ updated' = [updated EXCEPT ![w] = Started(w, k)]
               /\ todo' = [todo EXCEPT ![w] = @ \ {k}]
               /\ Goto(w, IF todo[w] = {k} THEN "patchRunning" ELSE "startShards")
      <4>1. PICK step : step = IF todo[w] = {k} THEN "patchRunning" ELSE "startShards" OBVIOUS
      <4>2. pc'[w] = step /\ obj' = obj /\ groups' = groups /\ \A v \in Workers : v # w => pc'[v] = pc[v]
        BY <3>2, <4>1, GotoPc
      <4>3. PICK u : u = updated[w] OBVIOUS
      <4>4. PICK t : t = [u EXCEPT ![k].phase = "Running"] OBVIOUS
      <4>5. updated'[w] = t /\ todo'[w] = todo[w] \ {k} BY <3>2, <4>3, <4>4, <1>2 DEF Started
      <4>6. /\ DOMAIN t = DOMAIN u
            /\ \A l \in DOMAIN u : /\ t[l].hostNames = u[l].hostNames
                                   /\ t[l].phase = IF l = k THEN "Running" ELSE u[l].phase
        <5>1. "Running" \in ShardPhases BY DEF ShardPhases
        <5>2. u \in ShardSeqs BY <4>3, <1>2
        <5> QED BY <5>1, <5>2, <4>4, SetPhase
      <4>7. PICK s : s = ShardHosts(groups[w], MaxAmountOfHosts) OBVIOUS
      <4>8. /\ DOMAIN u = DOMAIN s /\ s # <<>> /\ groups[w] \in Inventories /\ configMap = groups[w]
            /\ \A l \in DOMAIN s : u[l].hostNames = s[l].hostNames /\ u[l].phase \in {"Pending", "Running"}
            /\ todo[w] \cap InPhase(u, "Running") = {}
            /\ todo[w] \cup InPhase(u, "Running") = FirstOf(DOMAIN s, MaxConcurrentRuns)
            /\ \A l \in InPhase(u, "Running") : Exists(l)
        BY <2>0, <4>3, <4>7 DEF Planned
      <4>9. k \in DOMAIN u BY <2>3, <4>8 DEF FirstOf
      <4>10. InPhase(t, "Running") = InPhase(u, "Running") \cup {k} BY <4>6, <4>9 DEF InPhase
      <4>11. DOMAIN u \subseteq Indices BY <4>3, StepTypes
      <4>12. \A l \in InPhase(t, "Running") : Exists(l)'
        <5>1. \A l \in InPhase(u, "Running") : l \in Indices BY <4>11 DEF InPhase
        <5> QED BY <5>1, <4>8, <4>10, <2>4, <3>2
      <4>13. s = ShardHosts(groups'[w], MaxAmountOfHosts) BY <4>2, <4>7
      <4>14. Planned(w)'
        <5>1. todo'[w] \cap InPhase(t, "Running") = {} BY <4>5, <4>8, <4>10
        <5>2. todo'[w] \cup InPhase(t, "Running") = FirstOf(DOMAIN s, MaxConcurrentRuns)
          BY <4>5, <4>8, <4>10, <2>3
        <5>3. step = "startShards" => todo'[w] # {} BY <4>1, <4>5, <2>3
        <5>4. step = "patchRunning" => todo'[w] = {} BY <4>1, <4>5
        <5>5. \A l \in DOMAIN s : t[l].hostNames = s[l].hostNames /\ t[l].phase \in {"Pending", "Running"}
          BY <4>6, <4>8
        <5> QED BY <2>0, <4>2, <4>5, <4>6, <4>8, <4>12, <4>13, <5>1, <5>2, <5>3, <5>4, <5>5
            DEF Planned, InPhase
      <4>15. StartInv(w)' BY <2>0, <4>2 DEF StartInv, StartSteps
      <4> QED BY <4>1, <4>2, <4>14, <4>15 DEF StepInv, PlanInv, PollInv, CancelInv, PollSteps, CancelSteps
    <3> QED BY <2>1, <3>1, <3>2
  <2> QED BY <1>0, <2>5, <2>6, ToControl
<1> QED BY <1>3, <1>4, <1>5, <1>6

(* A Running shard that is set to a terminal phase.                        *)
LEMMA FollowsFinished ==
  ASSUME TypeInv, NEW w \in Workers, Follows(w, updated[w], FALSE),
         NEW k \in InPhase(cr.shards, "Running"), cr' = cr, obj' = obj
  PROVE  \A phase \in {"Succeeded", "Failed", "Error"} :
            \E t : t = [updated[w] EXCEPT ![k].phase = phase] /\ Follows(w, t, FALSE)'
<1>1. TAKE phase \in {"Succeeded", "Failed", "Error"}
<1>2. PICK u : u = updated[w] OBVIOUS
<1>3. PICK t : t = [u EXCEPT ![k].phase = phase] OBVIOUS
<1>4. phase \in ShardPhases BY DEF ShardPhases, TerminalShard
<1>5. u \in ShardSeqs BY <1>2, StepTypes
<1>6. /\ DOMAIN t = DOMAIN u
      /\ \A l \in DOMAIN u : /\ t[l].hostNames = u[l].hostNames
                             /\ t[l].phase = IF l = k THEN phase ELSE u[l].phase
  BY <1>3, <1>4, <1>5, SetPhase
<1>7. Follows(w, u, FALSE) BY <1>2
<1>8. Follows(w, t, FALSE)' BY <1>6, <1>7 DEF Follows, InPhase, TerminalShard
<1>9. t = [updated[w] EXCEPT ![k].phase = phase] BY <1>2, <1>3
<1> QED BY <1>8, <1>9

(* A step that polls leaves obj alone, or resets it.                       *)
LEMMA ConcludeObj ==
  ASSUME TypeInv, NEW w \in Workers, NEW shards, Conclude(w, shards)
  PROVE  (obj' = obj /\ pc'[w] # "idle") \/ Return(w)
<1>1. CASE Return(w) BY <1>1
<1>2. CASE Goto(w, IF AllTerminal(shards) THEN "patchFinal" ELSE "patchShards")
  <2>1. PICK step : step = IF AllTerminal(shards) THEN "patchFinal" ELSE "patchShards" OBVIOUS
  <2>2. Goto(w, step) BY <1>2, <2>1
  <2> QED BY <2>1, <2>2, GotoPc
<1> QED BY <1>1, <1>2 DEF Conclude

LEMMA AfterPollObj ==
  ASSUME TypeInv, NEW w \in Workers, NEW shards, NEW rest, AfterPoll(w, shards, rest)
  PROVE  (obj' = obj /\ pc'[w] # "idle") \/ Return(w)
<1>1. CASE Conclude(w, shards) BY <1>1, ConcludeObj
<1>2. CASE Goto(w, IF rest # {} THEN "pollShards" ELSE "refill")
  <2>1. PICK step : step = IF rest # {} THEN "pollShards" ELSE "refill" OBVIOUS
  <2>2. Goto(w, step) BY <1>2, <2>1
  <2> QED BY <2>1, <2>2, GotoPc
<1> QED BY <1>1, <1>2 DEF AfterPoll

(* Polling a shard and marking its Job for collection keep it.             *)
LEMMA PollControl ==
  ASSUME TypeInv, ControlInv, NEW w \in Workers, PollShard(w) \/ PatchTtl(w)
  PROVE  ControlInv'
<1>0. pc[w] \in {"pollShards", "patchTtl"} /\ cr' = cr BY DEF PollShard, PatchTtl
<1>1. StepInv(w) /\ StoredInv /\ TtlInv BY DEF ControlInv
<1>2. Follows(w, updated[w], FALSE) /\ todo[w] \subseteq InPhase(cr.shards, "Running")
  BY <1>0, <1>1 DEF StepInv, PollInv, PollSteps, LeftToDo, Follows
<1>3. StoredInv' BY <1>0, <1>1 DEF StoredInv
<1>4. PICK k : k = Min(todo[w]) OBVIOUS
<1>5. todo[w] # {} => k \in todo[w] /\ k \in InPhase(cr.shards, "Running") BY <1>2, <1>4, TodoFirst
<1>6. TtlInv'
  <2>1. \A l \in Indices : jobs'[l].ttl => jobs[l].ttl \/ l \in InPhase(cr.shards, "Running")
    <3>1. CASE jobs' = jobs BY <3>1
    <3>2. CASE PatchTtl(w)
      <4>1. todo[w] # {} BY <3>2, <1>1 DEF PatchTtl, StepInv, PollInv, PollSteps, LeftToDo
      <4>2. jobs' = jobs \/ jobs' = [jobs EXCEPT ![k].ttl = TRUE] BY <3>2, <1>4 DEF PatchTtl
      <4>3. jobs' = [jobs EXCEPT ![k].ttl = TRUE] => \A l \in Indices : l # k => jobs'[l] = jobs[l]
        BY DEF TypeInv, JobsTyped
      <4> QED BY <4>1, <4>2, <4>3, <1>5
    <3> QED BY <3>1, <3>2 DEF PollShard, jobVars
  <2> QED BY <2>1, <1>0, <1>1 DEF TtlInv, InPhase
<1>7. StepInv(w)' /\ \A v \in Workers : v # w => pc'[v] = pc[v]
  <2>0. ASSUME NEW shards, NEW rest, AfterPoll(w, shards, rest), rest \subseteq todo[w],
               obj' = obj => Follows(w, shards, FALSE)'
        PROVE  StepInv(w)' /\ \A v \in Workers : v # w => pc'[v] = pc[v]
    <3>1. CASE Return(w) BY <3>1, ReturnStepInv
    <3>2. CASE obj' = obj
      <4>1. Follows(w, shards, FALSE)' BY <2>0, <3>2
      <4>2. rest \subseteq InPhase(cr.shards, "Running") BY <2>0, <1>2
      <4> QED BY <2>0, <4>1, <4>2, <1>0, AfterPollControl
    <3> QED BY <2>0, <3>1, <3>2, AfterPollObj
  <2>1. obj' = obj => Follows(w, updated[w], FALSE)
    BY <1>2
  <2>2. ASSUME AfterPoll(w, updated[w], todo[w] \ {k}) \/ (AfterPoll(w, updated[w], {}))
        PROVE  StepInv(w)' /\ \A v \in Workers : v # w => pc'[v] = pc[v]
    <3>1. PICK u, rest : u = updated[w] /\ rest \subseteq todo[w] /\ AfterPoll(w, u, rest) BY <2>2
    <3>2. obj' = obj => Follows(w, u, FALSE)' BY <3>1, <1>0, <1>2 DEF Follows
    <3> QED BY <3>1, <3>2, <2>0
  <2>3. ASSUME todo[w] # {}, AfterPoll(w, [updated[w] EXCEPT ![k].phase = "Error"], todo[w] \ {k})
        PROVE  StepInv(w)' /\ \A v \in Workers : v # w => pc'[v] = pc[v]
    <3>1. PICK t : t = [updated[w] EXCEPT ![k].phase = "Error"] OBVIOUS
    <3>2. k \in InPhase(cr.shards, "Running") BY <2>3, <1>5
    <3>3. obj' = obj => Follows(w, t, FALSE)'
      <4> SUFFICES ASSUME obj' = obj PROVE Follows(w, t, FALSE)' OBVIOUS
      <4>1. \E s : s = [updated[w] EXCEPT ![k].phase = "Error"] /\ Follows(w, s, FALSE)'
        BY <3>2, <1>0, <1>2, FollowsFinished
      <4> QED BY <4>1, <3>1
    <3>4. AfterPoll(w, t, todo[w] \ {k}) BY <3>1, <2>3
    <3> QED BY <3>3, <3>4, <2>0
  <2>4. ASSUME todo[w] # {}, Goto(w, "patchTtl"), UNCHANGED todo,
               updated' = [updated EXCEPT ![w] = [updated[w] EXCEPT ![k].phase = ShardPhase(jobs[k].state)]]
        PROVE  StepInv(w)' /\ \A v \in Workers : v # w => pc'[v] = pc[v]
    <3>1. PICK t : t = [updated[w] EXCEPT ![k].phase = ShardPhase(jobs[k].state)] OBVIOUS
    <3>2. ShardPhase(jobs[k].state) \in {"Succeeded", "Failed", "Error"} BY DEF ShardPhase
    <3>3. pc'[w] = "patchTtl" /\ obj' = obj /\ \A v \in Workers : v # w => pc'[v] = pc[v]
      BY <2>4, GotoPc
    <3>4. Follows(w, t, FALSE)'
      <4>1. PICK phase : phase = ShardPhase(jobs[k].state) OBVIOUS
      <4>2. k \in InPhase(cr.shards, "Running") BY <2>4, <1>5
      <4>3. \E s : s = [updated[w] EXCEPT ![k].phase = phase] /\ Follows(w, s, FALSE)'
        BY <4>1, <4>2, <3>2, <3>3, <1>0, <1>2, FollowsFinished
      <4> QED BY <4>1, <4>3, <3>1
    <3>5. updated'[w] = t BY <2>4, <3>1 DEF TypeInv, LocalTyped
    <3>6. PollInv(w)'
      <4>1. LeftToDo(w)' BY <3>3, <2>4, <1>0, <1>2 DEF LeftToDo, InPhase
      <4>2. Follows(w, updated[w], FALSE)' BY <3>4, <3>5 DEF Follows
      <4> QED BY <4>1, <4>2, <3>3 DEF PollInv, Follows
    <3> QED BY <3>3, <3>6 DEF StepInv, StartInv, PlanInv, CancelInv, StartSteps, CancelSteps
  <2>5. CASE PollShard(w)
    <3>1. CASE todo[w] = {} /\ AfterPoll(w, updated[w], {}) BY <3>1, <2>2
    <3>2. CASE AfterPoll(w, updated[w], todo[w] \ {k}) BY <3>2, <2>2
    <3>3. CASE todo[w] # {} /\ AfterPoll(w, [updated[w] EXCEPT ![k].phase = "Error"], todo[w] \ {k})
      BY <3>3, <2>3
    <3>4. CASE /\ todo[w] # {} /\ Goto(w, "patchTtl") /\ UNCHANGED todo
               /\ updated' = [updated EXCEPT ![w] = [updated[w] EXCEPT ![k].phase = ShardPhase(jobs[k].state)]]
      BY <3>4, <2>4
    <3> QED BY <2>5, <1>4, <3>1, <3>2, <3>3, <3>4 DEF PollShard
  <2>6. CASE PatchTtl(w)
    <3>1. AfterPoll(w, updated[w], todo[w] \ {k}) BY <2>6, <1>4 DEF PatchTtl
    <3> QED BY <3>1, <2>2
  <2> QED BY <2>5, <2>6
<1>8. pc[w] # "idle" BY <1>0
<1> QED BY <1>3, <1>6, <1>7, <1>8, ToControl

(* Resolving the inventory again keeps it.                                 *)
LEMMA RefillControl ==
  ASSUME TypeInv, ControlInv, NEW w \in Workers, Refill(w)
  PROVE  ControlInv'
<1>0. pc[w] = "refill" /\ cr' = cr /\ jobs' = jobs BY DEF Refill, jobVars
<1>1. StepInv(w) /\ StoredInv /\ TtlInv BY DEF ControlInv
<1>2. Follows(w, updated[w], FALSE) /\ FreeSlots(updated[w]) > 0 /\ InPhase(updated[w], "Pending") # {}
  BY <1>0, <1>1 DEF StepInv, PollInv, PollSteps, LeftToDo, Follows
<1>3. StoredInv' /\ TtlInv' BY <1>0, <1>1 DEF StoredInv, TtlInv
<1>4. StepInv(w)' /\ \A v \in Workers : v # w => pc'[v] = pc[v]
  <2>1. CASE Conclude(w, updated[w])
    <3>1. CASE Return(w) BY <3>1, ReturnStepInv
    <3>2. CASE obj' = obj
      <4>1. PICK u : u = updated[w] OBVIOUS
      <4>2. Follows(w, u, TRUE)' BY <4>1, <3>2, <1>0, <1>2 DEF Follows
      <4> QED BY <4>1, <4>2, <2>1, <1>0, ConcludeControl
    <3> QED BY <2>1, <3>1, <3>2, ConcludeObj
  <2>2. CASE /\ RenderInventory("ok")
             /\ groups' = [groups EXCEPT ![w] = inventory]
             /\ pc' = [pc EXCEPT ![w] = "startPending"]
             /\ todo' = [todo EXCEPT ![w] = FirstOf(InPhase(updated[w], "Pending"),
                                                    FreeSlots(updated[w]))]
             /\ UNCHANGED <<obj, updated, armed>>
    <3>1. /\ pc'[w] = "startPending" /\ \A v \in Workers : v # w => pc'[v] = pc[v]
          /\ groups'[w] = inventory /\ obj' = obj /\ updated' = updated
          /\ todo'[w] = FirstOf(InPhase(updated[w], "Pending"), FreeSlots(updated[w]))
      BY <2>2 DEF TypeInv, LocalTyped
    <3>2. configMap' = inventory /\ inventory \in Inventories
      BY <2>2 DEF RenderInventory, TypeInv, WorldTyped
    <3>3. /\ FirstOf(InPhase(updated[w], "Pending"), FreeSlots(updated[w])) \subseteq InPhase(updated[w], "Pending")
          /\ FirstOf(InPhase(updated[w], "Pending"), FreeSlots(updated[w])) # {}
      <4>1. PICK S, n : S = InPhase(updated[w], "Pending") /\ n = FreeSlots(updated[w]) OBVIOUS
      <4>2. /\ S \in SUBSET Nat /\ IsFiniteSet(S)
            /\ IsFiniteSet(InPhase(updated[w], "Running"))
        <5>1. updated[w] \in ShardSeqs BY StepTypes
        <5>2. DOMAIN updated[w] = 1..Len(updated[w]) /\ Len(updated[w]) \in Nat BY <5>1, ShardSeqFacts
        <5>3. 1 \in Int /\ Len(updated[w]) \in Int BY <5>2
        <5>4. IsFiniteSet(DOMAIN updated[w]) BY <5>2, <5>3, FS_Interval
        <5>5. S \subseteq DOMAIN updated[w] /\ InPhase(updated[w], "Running") \subseteq DOMAIN updated[w]
          BY <4>1 DEF InPhase
        <5>6. IsFiniteSet(S) /\ IsFiniteSet(InPhase(updated[w], "Running")) BY <5>4, <5>5, FS_Subset
        <5> QED BY <5>2, <5>5, <5>6
      <4>3. n \in Nat
        <5>1. Cardinality(InPhase(updated[w], "Running")) \in Nat BY <4>2, FS_CardinalityType
        <5>2. MaxConcurrentRuns \in Nat BY ParallelAssumption
        <5>3. n \in Int BY <4>1, <5>1, <5>2 DEF FreeSlots
        <5> QED BY <5>3, <4>1, <1>2
      <4>4. FirstOf(S, n) \subseteq S /\ FirstOf(S, n) # {}
        BY <4>1, <4>2, <4>3, <1>2, FirstOfCorrect
      <4> QED BY <4>1, <4>4
    <3>4. LeftToDo(w)' BY <3>1, <3>2, <3>3 DEF LeftToDo, InPhase
    <3>5. PollInv(w)' BY <3>1, <3>4, <1>0, <1>2 DEF PollInv, Follows
    <3> QED BY <3>1, <3>5 DEF StepInv, StartInv, PlanInv, CancelInv, StartSteps, CancelSteps
  <2> QED BY <2>1, <2>2 DEF Refill
<1>5. pc[w] # "idle" BY <1>0
<1> QED BY <1>3, <1>4, <1>5, ToControl

(* Starting a pending shard keeps it.                                      *)
LEMMA StartPendingControl ==
  ASSUME TypeInv, ControlInv, NEW w \in Workers, StartPending(w)
  PROVE  ControlInv'
<1>0. pc[w] = "startPending" /\ cr' = cr /\ configMap' = configMap BY DEF StartPending
<1>1. StepInv(w) /\ StoredInv /\ TtlInv BY DEF ControlInv
<1>2. /\ Follows(w, updated[w], TRUE) /\ todo[w] # {} /\ todo[w] \subseteq InPhase(updated[w], "Pending")
      /\ groups[w] \in Inventories /\ configMap = groups[w]
  BY <1>0, <1>1 DEF StepInv, PollInv, PollSteps, LeftToDo, Follows
<1>3. PICK answer, k, limit :
          /\ k = Min(todo[w])
          /\ IF answer = "refused" THEN UNCHANGED jobVars ELSE PutJob(k, limit)
          /\ \/ Conclude(w, updated[w])
             \/ answer = "ok" /\ Conclude(w, Started(w, k))
             \/ /\ answer = "ok" /\ todo[w] # {k}
                /\ Goto(w, "startPending")
                /\ updated' = [updated EXCEPT ![w] = Started(w, k)]
                /\ todo' = [todo EXCEPT ![w] = @ \ {k}]
  BY DEF StartPending
<1>4. k \in todo[w] /\ k \in Indices BY <1>2, <1>3, TodoFirst
<1>5. /\ \A l \in Indices : (Exists(l) => Exists(l)') /\ (jobs'[l].ttl => jobs[l].ttl)
      /\ answer # "refused" => Exists(k)'
  BY <1>3, <1>4, TryJob
<1>6. StoredInv' /\ TtlInv' BY <1>0, <1>1, <1>5 DEF StoredInv, TtlInv
<1>7. PICK u : u = updated[w] OBVIOUS
<1>8. PICK t : t = [u EXCEPT ![k].phase = "Running"] OBVIOUS
<1>9. t = Started(w, k) BY <1>7, <1>8 DEF Started
<1>10. /\ DOMAIN t = DOMAIN u
       /\ \A l \in DOMAIN u : /\ t[l].hostNames = u[l].hostNames
                              /\ t[l].phase = IF l = k THEN "Running" ELSE u[l].phase
  <2>1. "Running" \in ShardPhases BY DEF ShardPhases
  <2>2. u \in ShardSeqs BY <1>7, StepTypes
  <2> QED BY <2>1, <2>2, <1>8, SetPhase
<1>11. DOMAIN cr.shards \subseteq Indices /\ DOMAIN u = DOMAIN cr.shards
  BY <1>2, <1>7, StepTypes DEF Follows
<1>12. obj' = obj => Follows(w, u, TRUE)'
  BY <1>0, <1>2, <1>5, <1>7, <1>11 DEF Follows
<1>13. k \in InPhase(cr.shards, "Pending")
  BY <1>2, <1>4 DEF Follows, InPhase, TerminalShard
<1>14. answer = "ok" /\ obj' = obj => Follows(w, t, TRUE)'
  <2> SUFFICES ASSUME answer = "ok", obj' = obj PROVE Follows(w, t, TRUE)' OBVIOUS
  <2>1. Follows(w, u, TRUE)' /\ Exists(k)' BY <1>5, <1>12
  <2> QED BY <2>1, <1>0, <1>10, <1>13 DEF Follows, InPhase
<1>15. StepInv(w)' /\ \A v \in Workers : v # w => pc'[v] = pc[v]
  <2>0. CASE Return(w) BY <2>0, ReturnStepInv
  <2>1. CASE Conclude(w, updated[w])
    <3>1. Conclude(w, u) BY <2>1, <1>7
    <3> QED BY <3>1, <2>0, <1>0, <1>12, ConcludeControl, ConcludeObj
  <2>2. CASE answer = "ok" /\ Conclude(w, t) BY <2>2, <2>0, <1>0, <1>14, ConcludeControl, ConcludeObj
  <2>3. CASE /\ answer = "ok" /\ todo[w] # {k}
             /\ Goto(w, "startPending")
             /\ updated' = [updated EXCEPT ![w] = t]
             /\ todo' = [todo EXCEPT ![w] = @ \ {k}]
    <3>1. pc'[w] = "startPending" /\ obj' = obj /\ groups' = groups /\ \A v \in Workers : v # w => pc'[v] = pc[v]
      BY <2>3, GotoPc
    <3>2. updated'[w] = t /\ todo'[w] = todo[w] \ {k} BY <2>3 DEF TypeInv, LocalTyped
    <3>3. Follows(w, t, TRUE)' BY <3>1, <2>3, <1>14
    <3>4. todo'[w] # {} /\ todo'[w] \subseteq InPhase(t, "Pending")
      BY <3>2, <2>3, <1>2, <1>4, <1>7, <1>10 DEF InPhase
    <3>5. LeftToDo(w)' BY <3>1, <3>2, <3>4, <1>0, <1>2 DEF LeftToDo, InPhase
    <3>6. PollInv(w)' BY <3>1, <3>2, <3>3, <3>5 DEF PollInv, Follows
    <3> QED BY <3>1, <3>6 DEF StepInv, StartInv, PlanInv, CancelInv, StartSteps, CancelSteps
  <2> QED BY <1>3, <1>9, <2>1, <2>2, <2>3
<1>16. pc[w] # "idle" BY <1>0
<1> QED BY <1>6, <1>15, <1>16, ToControl

(* Every step keeps the control invariant, while reconciles do not         *)
(* overlap.                                                                *)
LEMMA StepControl ==
  ASSUME OneAtATime
  PROVE  TypeInv /\ ControlInv /\ [Next]_vars => ControlInv'
<1> SUFFICES ASSUME TypeInv, ControlInv, [Next]_vars PROVE ControlInv' OBVIOUS
<1>1. CASE RequestCancel \/ EditInventory \/ FinishJob \/ ExpireJob \/ Resync \/ Crash \/ Restart
  BY <1>1, WorldControl
<1>2. ASSUME NEW w \in Workers, FireTimer(w) PROVE ControlInv' BY <1>2, FireTimerControl
<1>3. ASSUME NEW w \in Workers, Reconcile(w) PROVE ControlInv'
  BY <1>3, PatchEndControl, StartStepControl, PollControl, RefillControl, StartPendingControl DEF Reconcile
<1>4. CASE UNCHANGED vars
  <2>1. UNCHANGED localVars /\ cr' = cr /\ jobs' = jobs /\ configMap' = configMap
    BY <1>4 DEF vars, jobVars
  <2>2. \A w \in Workers : StepInv(w)'
    BY <2>1, StepInvKept DEF localVars, ControlInv, Exists
  <2> QED BY <2>1, <2>2 DEF ControlInv, Alone, StoredInv, TtlInv, localVars
<1> QED BY <1>1, <1>2, <1>3, <1>4 DEF Next

-----------------------------------------------------------------------------
(***************************************************************************)
(* Shards that are over and their Jobs.                                    *)
(***************************************************************************)

(* A reconcile moves its own program counter only.                         *)
LEMMA OwnPc ==
  ASSUME TypeInv, NEW w \in Workers, Reconcile(w)
  PROVE  pc[w] # "idle" /\ \A v \in Workers : v # w => pc'[v] = pc[v]
<1> DEFINE Own == \A v \in Workers : v # w => pc'[v] = pc[v]
<1>1. ASSUME NEW step, Goto(w, step) PROVE Own BY <1>1, GotoPc
<1>2. ASSUME Return(w) PROVE Own BY <1>2, ResetPc DEF Return
<1>3. ASSUME NEW shards, Conclude(w, shards) PROVE Own BY <1>3, <1>1, <1>2 DEF Conclude
<1>4. ASSUME NEW shards, NEW rest, AfterPoll(w, shards, rest) PROVE Own
  BY <1>4, <1>1, <1>3 DEF AfterPoll
<1>5. ASSUME NEW step, pc' = [pc EXCEPT ![w] = step] PROVE Own BY <1>5 DEF TypeInv, LocalTyped
<1> HIDE DEF Own
<1>6. CASE \/ PatchCancelled(w) \/ PatchRunning(w) \/ PatchEmpty(w) \/ PatchError(w)
           \/ PatchShards(w) \/ PatchFinal(w)
  BY <1>6, <1>2 DEF PatchCancelled, PatchRunning, PatchEmpty, PatchError, PatchShards, PatchFinal, Own
<1>7. CASE DeleteJobs(w) \/ PatchResolving(w)
  BY <1>7, <1>1 DEF DeleteJobs, PatchResolving, Own
<1>8. CASE Prepare(w) BY <1>8, <1>1, <1>2, <1>5 DEF Prepare, Own
<1>9. CASE StartShard(w) BY <1>9, <1>1, <1>2 DEF StartShard, Own
<1>10. CASE PollShard(w) BY <1>10, <1>1, <1>4 DEF PollShard, Own
<1>11. CASE PatchTtl(w) BY <1>11, <1>4 DEF PatchTtl, Own
<1>12. CASE Refill(w) BY <1>12, <1>3, <1>5 DEF Refill, Own
<1>13. CASE StartPending(w) BY <1>13, <1>1, <1>3 DEF StartPending, Own
<1> QED BY <1>6, <1>7, <1>8, <1>9, <1>10, <1>11, <1>12, <1>13 DEF Reconcile

(* The others stand still.                                                 *)
LEMMA OthersIdle ==
  ASSUME TypeInv, ControlInv, OneAtATime, NEW w \in Workers, FireTimer(w) \/ Reconcile(w),
         NEW v \in Workers, v # w
  PROVE  pc[v] = "idle" /\ pc'[v] = "idle"
<1>1. CASE Reconcile(w)
  <2>1. pc[w] # "idle" /\ pc'[v] = pc[v] BY <1>1, OwnPc
  <2>2. pc[v] = "idle" BY <2>1 DEF ControlInv, Alone
  <2> QED BY <2>1, <2>2
<1>2. CASE FireTimer(w)
  <2>1. pc[v] = "idle" BY <1>2 DEF FireTimer, OneAtATime
  <2>2. pc'[v] = pc[v] BY <1>2 DEF FireTimer, localVars, TypeInv, LocalTyped
  <2> QED BY <2>1, <2>2
<1> QED BY <1>1, <1>2

(* The shard statuses a poll arrives at are the ones it goes on with.      *)
LEMMA ConcludeUpdated ==
  ASSUME TypeInv, NEW w \in Workers, NEW shards, Conclude(w, shards)
  PROVE  \/ pc'[w] = "idle" /\ shards = obj[w].shards
         \/ /\ updated'[w] = shards
            /\ pc'[w] = IF AllTerminal(shards) THEN "patchFinal" ELSE "patchShards"
<1>1. CASE Return(w) /\ shards = obj[w].shards BY <1>1, ResetPc DEF Return
<1>2. CASE /\ Goto(w, IF AllTerminal(shards) THEN "patchFinal" ELSE "patchShards")
           /\ updated' = [updated EXCEPT ![w] = shards]
  <2>1. PICK step : step = IF AllTerminal(shards) THEN "patchFinal" ELSE "patchShards" OBVIOUS
  <2>2. pc'[w] = step BY <1>2, <2>1, GotoPc
  <2> QED BY <1>2, <2>1, <2>2 DEF TypeInv, LocalTyped
<1> QED BY <1>1, <1>2 DEF Conclude

(* Likewise if the loop goes on.                                           *)
LEMMA AfterPollUpdated ==
  ASSUME TypeInv, NEW w \in Workers, NEW shards, NEW rest, AfterPoll(w, shards, rest)
  PROVE  \/ pc'[w] = "idle"
         \/ /\ updated'[w] = shards
            /\ pc'[w] \in {"pollShards", "refill", "patchFinal", "patchShards"}
<1>1. CASE Conclude(w, shards) BY <1>1, ConcludeUpdated
<1>2. CASE /\ Goto(w, IF rest # {} THEN "pollShards" ELSE "refill")
           /\ updated' = [updated EXCEPT ![w] = shards]
  <2>1. PICK step : step = IF rest # {} THEN "pollShards" ELSE "refill" OBVIOUS
  <2>2. pc'[w] = step BY <1>2, <2>1, GotoPc
  <2> QED BY <1>2, <2>1, <2>2 DEF TypeInv, LocalTyped
<1> QED BY <1>1, <1>2 DEF AfterPoll

-----------------------------------------------------------------------------
(* Shards that are over are so for a reason: their Job ended, or was lost. *)
Backed(shards) ==
  \A k \in DOMAIN shards : /\ shards[k].phase = "Succeeded" => "succeeded" \in outcomes[k]
                           /\ shards[k].phase = "Failed" => "failed" \in outcomes[k]

JobInv ==
  /\ \A k \in Indices :
       /\ jobs[k].state \in Results => jobs[k].state \in outcomes[k]
       /\ Exists(k) => k <= MaxConcurrentRuns \/ k \in DOMAIN cr.shards
  /\ Backed(cr.shards)
  /\ \A w \in Workers : pc[w] \in PollSteps => Backed(updated[w])

LEMMA InitJob == Init => JobInv
<1> SUFFICES ASSUME Init PROVE JobInv OBVIOUS
<1>1. cr.shards = <<>> BY DEF Init, NewRun
<1>2. DOMAIN cr.shards = {} BY <1>1
<1> QED BY <1>2 DEF Init, JobInv, Backed, Exists, NoJob, Results, PollSteps

(* Outcomes are only added.                                                *)
LEMMA WorldJob ==
  ASSUME TypeInv, JobInv,
         \/ RequestCancel \/ EditInventory \/ FinishJob \/ ExpireJob \/ Resync \/ Crash \/ Restart
         \/ UNCHANGED vars
  PROVE  JobInv'
<1>1. cr'.shards = cr.shards
  BY DEF RequestCancel, EditInventory, FinishJob, ExpireJob, Resync, Crash, Restart, runVars, vars,
         TypeInv, RunsTyped
<1>2. \A w \in Workers : pc'[w] = "idle" \/ (pc'[w] = pc[w] /\ updated'[w] = updated[w])
  BY DEF RequestCancel, EditInventory, FinishJob, ExpireJob, Resync, Crash, Restart, localVars, vars
<1>3. \A k \in Indices : /\ outcomes[k] \subseteq outcomes'[k]
                         /\ jobs'[k].state \in Results => jobs'[k].state \in outcomes'[k]
                         /\ Exists(k)' => Exists(k)
  <2>1. CASE FinishJob
    <3>1. PICK k \in Indices, r \in Results : /\ jobs[k].state = "active"
                                              /\ jobs' = [jobs EXCEPT ![k].state = r]
                                              /\ outcomes' = [outcomes EXCEPT ![k] = @ \cup {r}]
      BY <2>1 DEF FinishJob
    <3>2. PICK j : j = jobs[k] OBVIOUS
    <3>3. jobs'[k].state = r
      <4>1. jobs'[k] = [j EXCEPT !.state = r] BY <3>1, <3>2 DEF TypeInv, JobsTyped
      <4>2. j \in [state: {"absent", "active"} \cup Results, targets: SUBSET InvNames, ttl: BOOLEAN]
        BY <3>2 DEF TypeInv, JobsTyped
      <4> QED BY <4>1, <4>2
    <3>4. \A l \in Indices : l # k => jobs'[l] = jobs[l] BY <3>1 DEF TypeInv, JobsTyped
    <3>5. outcomes'[k] = outcomes[k] \cup {r} /\ \A l \in Indices : l # k => outcomes'[l] = outcomes[l]
      BY <3>1 DEF TypeInv, JobsTyped
    <3> QED BY <3>1, <3>3, <3>4, <3>5 DEF JobInv, Exists
  <2>2. CASE ExpireJob
    <3>1. PICK k \in Indices : RemoveJob(k) BY <2>2 DEF ExpireJob
    <3>2. /\ \A l \in Indices : l # k => jobs'[l] = jobs[l]
          /\ jobs'[k] = NoJob /\ outcomes' = outcomes BY <3>1, RemoveJobEffect
    <3> QED BY <3>2 DEF JobInv, Exists, NoJob, Results
  <2>3. CASE jobs' = jobs /\ outcomes' = outcomes BY <2>3 DEF JobInv, Exists
  <2> QED BY <2>1, <2>2, <2>3
      DEF RequestCancel, EditInventory, Resync, Crash, Restart, jobVars, vars
<1>4. DOMAIN cr.shards \subseteq Indices /\ \A w \in Workers : DOMAIN updated[w] \subseteq Indices
  <2>1. cr.shards \in ShardSeqs /\ \A w \in Workers : updated[w] \in ShardSeqs
    BY DEF TypeInv, RunsTyped, LocalTyped
  <2> QED BY <2>1, ShardSeqFacts
<1>5. Backed(cr.shards)' BY <1>1, <1>3, <1>4 DEF JobInv, Backed
<1>6. \A w \in Workers : pc'[w] \in PollSteps => Backed(updated[w])'
  <2>1. "idle" \notin PollSteps BY DEF PollSteps
  <2> QED BY <2>1, <1>2, <1>3, <1>4 DEF JobInv, Backed
<1> QED BY <1>1, <1>3, <1>5, <1>6 DEF JobInv

(* A shard is set to a terminal phase by what its Job ended with.          *)
LEMMA ReconcileJob ==
  ASSUME TypeInv, ControlInv, OneAtATime, JobInv, NEW w \in Workers, FireTimer(w) \/ Reconcile(w)
  PROVE  JobInv'
<1>0. StepInv(w) /\ StoredInv BY DEF ControlInv
<1>1. \A v \in Workers : v # w => pc'[v] \notin PollSteps BY OthersIdle DEF PollSteps
<1>2. DOMAIN cr.shards \subseteq Indices /\ DOMAIN updated[w] \subseteq Indices BY StepTypes
<1>3. ASSUME outcomes' = outcomes,
             \A k \in Indices : /\ jobs'[k].state \in Results => jobs'[k].state = jobs[k].state
                                /\ Exists(k)' => Exists(k) \/ k <= MaxConcurrentRuns \/ k \in DOMAIN cr.shards,
             DOMAIN cr.shards \subseteq DOMAIN cr'.shards, Backed(cr'.shards),
             pc'[w] \in PollSteps => Backed(updated'[w])
      PROVE  JobInv'
  <2>1. Backed(cr.shards)' BY <1>3 DEF Backed
  <2>2. \A v \in Workers : pc'[v] \in PollSteps => Backed(updated[v])' BY <1>1, <1>3 DEF Backed
  <2> QED BY <1>3, <2>1, <2>2 DEF JobInv
<1>4. ASSUME UNCHANGED jobVars
      PROVE  /\ outcomes' = outcomes
             /\ \A k \in Indices : /\ jobs'[k].state \in Results => jobs'[k].state = jobs[k].state
                                   /\ Exists(k)' => Exists(k) \/ k <= MaxConcurrentRuns \/ k \in DOMAIN cr.shards
  BY <1>4 DEF jobVars, Exists
<1>5. CASE FireTimer(w)
  <2>1. cr' = cr /\ UNCHANGED jobVars BY <1>5 DEF FireTimer
  <2>2. pc'[w] \in PollSteps => Backed(updated'[w])
    <3>1. CASE cr.phase \in Terminal BY <3>1, <1>5 DEF FireTimer, localVars, PollSteps
    <3>2. CASE cr.phase \notin Terminal
      <4>1. updated'[w] = cr.shards BY <3>2, <1>5 DEF FireTimer, TypeInv, LocalTyped
      <4> QED BY <4>1 DEF JobInv
    <3> QED BY <3>1, <3>2
  <2> QED BY <2>1, <2>2, <1>3, <1>4 DEF JobInv
<1>6. CASE \/ PatchCancelled(w) \/ PatchRunning(w) \/ PatchEmpty(w) \/ PatchError(w)
           \/ PatchShards(w) \/ PatchFinal(w)
  <2>1. Return(w) /\ UNCHANGED jobVars
    BY <1>6 DEF PatchCancelled, PatchRunning, PatchEmpty, PatchError, PatchShards, PatchFinal
  <2>2. pc'[w] \notin PollSteps BY <2>1, ResetPc DEF Return, PollSteps
  <2>3. DOMAIN cr.shards \subseteq DOMAIN cr'.shards /\ Backed(cr'.shards)
    <3>1. ASSUME NEW phase, NEW shards, NEW answer, PatchRunStatus(w, phase, shards, answer),
                 shards # <<>> => DOMAIN cr.shards \subseteq DOMAIN shards /\ Backed(shards)
          PROVE  DOMAIN cr.shards \subseteq DOMAIN cr'.shards /\ Backed(cr'.shards)
      BY <3>1, PatchEffect DEF JobInv
    <3>2. CASE PatchCancelled(w)
      <4>1. obj[w].shards = cr.shards BY <3>2, <1>0 DEF PatchCancelled, StepInv, CancelInv, CancelSteps
      <4> QED BY <3>1, <3>2, <4>1 DEF PatchCancelled, JobInv
    <3>3. CASE PatchRunning(w)
      <4>1. Planned(w) /\ cr.shards = <<>>
        BY <3>3, <1>0 DEF PatchRunning, StepInv, PlanInv, StartInv, StartSteps, StoredInv
      <4>2. DOMAIN cr.shards = {} BY <4>1
      <4>3. Backed(updated[w]) BY <4>1 DEF Planned, Backed
      <4> QED BY <3>1, <3>3, <4>2, <4>3 DEF PatchRunning
    <3>4. CASE PatchEmpty(w) BY <3>1, <3>4 DEF PatchEmpty
    <3>5. CASE PatchError(w)
      <4>1. obj[w].shards = <<>> BY <3>5, <1>0 DEF PatchError, StepInv, StartInv, StartSteps
      <4> QED BY <3>1, <3>5, <4>1 DEF PatchError
    <3>6. CASE PatchShards(w) \/ PatchFinal(w)
      <4>1. DOMAIN updated[w] = DOMAIN cr.shards /\ Backed(updated[w])
        BY <3>6, <1>0 DEF PatchShards, PatchFinal, StepInv, PollInv, PollSteps, Follows, JobInv
      <4> QED BY <3>1, <3>6, <4>1 DEF PatchShards, PatchFinal
    <3> QED BY <1>6, <3>2, <3>3, <3>4, <3>5, <3>6
  <2> QED BY <2>1, <2>2, <2>3, <1>3, <1>4
<1>7. CASE DeleteJobs(w)
  <2>1. cr' = cr BY <1>7 DEF DeleteJobs
  <2>2. PICK answer, k : IF answer = "refused" THEN UNCHANGED jobVars ELSE RemoveJob(k)
    BY <1>7 DEF DeleteJobs
  <2>3. /\ outcomes' = outcomes
        /\ \A l \in Indices : jobs'[l] = jobs[l] \/ jobs'[l] = NoJob
    <3>1. CASE UNCHANGED jobVars BY <3>1 DEF jobVars
    <3>2. CASE RemoveJob(k)
      <4>1. \A l \in Indices : l # k => jobs'[l] = jobs[l] BY <3>2, RemoveJobEffect
      <4>2. outcomes' = outcomes /\ (k \in Indices => jobs'[k] = NoJob) BY <3>2, RemoveJobEffect
      <4> QED BY <4>1, <4>2
    <3> QED BY <2>2, <3>1, <3>2
  <2>4. pc'[w] \notin PollSteps
    <3>1. PICK step \in {"patchCancelled", "deleteJobs"} : Goto(w, step) BY <1>7 DEF DeleteJobs
    <3> QED BY <3>1, GotoPc DEF PollSteps
  <2>5. \A l \in Indices : /\ jobs'[l].state \in Results => jobs'[l].state = jobs[l].state
                           /\ Exists(l)' => Exists(l)
    BY <2>3 DEF NoJob, Exists, Results
  <2> QED BY <2>1, <2>3, <2>4, <2>5, <1>3 DEF JobInv
<1>8. CASE PatchResolving(w)
  <2>1. UNCHANGED jobVars BY <1>8 DEF PatchResolving
  <2>2. PICK answer : /\ PatchRunStatus(w, "Resolving", <<>>, answer)
                      /\ Goto(w, IF answer = "ok" THEN "prepare" ELSE "patchError")
    BY <1>8, <1>0 DEF PatchResolving, StepInv, StartInv, StartSteps
  <2>3. cr'.shards = cr.shards BY <2>2, PatchEffect
  <2>4. PICK step \in {"prepare", "patchError"} : Goto(w, step) BY <2>2
  <2>5. pc'[w] \notin PollSteps BY <2>4, GotoPc DEF PollSteps
  <2> QED BY <2>1, <2>3, <2>5, <1>3, <1>4 DEF JobInv
<1>9. CASE Prepare(w)
  <2>1. UNCHANGED jobVars /\ cr' = cr BY <1>9 DEF Prepare
  <2>2. pc'[w] \in {"idle", "patchError", "patchEmpty", "startShards"}
    <3>1. CASE Return(w) BY <3>1, ResetPc DEF Return
    <3>2. CASE Goto(w, "patchError") BY <3>2, GotoPc
    <3>3. ASSUME NEW step \in {"patchEmpty", "startShards"}, pc' = [pc EXCEPT ![w] = step]
          PROVE  pc'[w] = step
      BY <3>3 DEF TypeInv, LocalTyped
    <3>4. CASE \E shards : pc' = [pc EXCEPT ![w] = IF shards = <<>> THEN "patchEmpty" ELSE "startShards"]
      BY <3>3, <3>4
    <3> QED BY <1>9, <3>1, <3>2, <3>4 DEF Prepare
  <2>3. pc'[w] \notin PollSteps BY <2>2 DEF PollSteps
  <2> QED BY <2>1, <2>3, <1>3, <1>4 DEF JobInv
<1>10. CASE StartShard(w)
  <2>0. Planned(w) /\ cr' = cr /\ pc[w] = "startShards"
    BY <1>10, <1>0 DEF StartShard, StepInv, PlanInv
  <2>1. PICK answer, k, limit :
          /\ k = Min(todo[w])
          /\ IF answer = "refused" THEN UNCHANGED jobVars ELSE PutJob(k, limit)
          /\ Return(w) \/ Goto(w, IF todo[w] = {k} THEN "patchRunning" ELSE "startShards")
    BY <1>10 DEF StartShard
  <2>2. k \in todo[w] /\ k \in Indices
    <3>1. todo[w] # {} BY <2>0 DEF Planned
    <3> QED BY <2>1, <3>1, TodoFirst
  <2>3. k <= MaxConcurrentRuns
    <3>1. PICK s : s = ShardHosts(groups[w], MaxAmountOfHosts) OBVIOUS
    <3>2. k \in FirstOf(DOMAIN s, MaxConcurrentRuns) /\ groups[w] \in Inventories
      BY <2>0, <2>2, <3>1 DEF Planned
    <3>3. Len(s) \in Nat /\ DOMAIN s = 1..Len(s) BY <3>1, <3>2, PendingShards
    <3>4. MaxConcurrentRuns \in Nat BY ParallelAssumption
    <3>5. FirstOf(1..Len(s), MaxConcurrentRuns) = {l \in 1..Len(s) : l <= MaxConcurrentRuns}
      BY <3>3, <3>4, FirstOfInterval
    <3> QED BY <3>2, <3>3, <3>5
  <2>4. pc'[w] \notin PollSteps
    <3>1. CASE Return(w) BY <3>1, ResetPc DEF Return, PollSteps
    <3>2. CASE \E step \in {"patchRunning", "startShards"} : Goto(w, step) BY <3>2, GotoPc DEF PollSteps
    <3> QED BY <2>1, <3>1, <3>2
  <2>5. CASE UNCHANGED jobVars BY <2>0, <2>4, <2>5, <1>3, <1>4 DEF JobInv
  <2>6. CASE PutJob(k, limit)
    <3>1. /\ \A l \in Indices : l # k => jobs'[l] = jobs[l]
          /\ jobs' = jobs \/ jobs'[k].state = "active"
          /\ outcomes' = outcomes
      <4>1. ASSUME jobs'[k] = [state |-> "active", targets |-> AnsibleTargets(configMap, limit), ttl |-> FALSE]
            PROVE  jobs'[k].state = "active"
        BY <4>1
      <4> QED BY <2>2, <2>6, <4>1, PutJobEffect
    <3>2. \A l \in Indices : /\ jobs'[l].state \in Results => jobs'[l].state = jobs[l].state
                             /\ Exists(l)' => Exists(l) \/ l = k
      BY <3>1 DEF Results, Exists
    <3> QED BY <2>0, <2>3, <2>4, <3>1, <3>2, <1>3 DEF JobInv
  <2> QED BY <2>1, <2>5, <2>6
<1>11. CASE PollShard(w)
  <2>1. UNCHANGED jobVars /\ cr' = cr /\ pc[w] = "pollShards" BY <1>11 DEF PollShard
  <2>2. Backed(updated[w]) /\ todo[w] \subseteq InPhase(cr.shards, "Running")
    BY <2>1, <1>0 DEF JobInv, StepInv, PollInv, PollSteps, LeftToDo
  <2>3. PICK k : k = Min(todo[w]) OBVIOUS
  <2>4. todo[w] # {} => k \in Indices BY <2>3, TodoFirst
  <2>5. ASSUME NEW phase \in {"Error", "Succeeded", "Failed"}, NEW t, t = [updated[w] EXCEPT ![k].phase = phase],
               phase = "Succeeded" => "succeeded" \in outcomes[k],
               phase = "Failed" => "failed" \in outcomes[k]
        PROVE  Backed(t)
    <3>1. phase \in ShardPhases BY DEF ShardPhases, TerminalShard
    <3>2. PICK u : u = updated[w] OBVIOUS
    <3>3. u \in ShardSeqs BY <3>2, StepTypes
    <3>4. t = [u EXCEPT ![k].phase = phase] BY <2>5, <3>2
    <3>5. DOMAIN t = DOMAIN u /\ \A l \in DOMAIN u : t[l].phase = IF l = k THEN phase ELSE u[l].phase
      BY <3>1, <3>3, <3>4, SetPhase
    <3> QED BY <3>5, <3>2, <2>2, <2>5 DEF Backed
  <2>6. pc'[w] \in PollSteps => Backed(updated'[w])
    <3>0. "idle" \notin PollSteps BY DEF PollSteps
    <3>1. CASE \E rest : AfterPoll(w, updated[w], rest) BY <3>0, <3>1, <2>2, AfterPollUpdated
    <3>2. CASE AfterPoll(w, [updated[w] EXCEPT ![k].phase = "Error"], todo[w] \ {k})
      <4>1. PICK t : t = [updated[w] EXCEPT ![k].phase = "Error"] OBVIOUS
      <4>2. Backed(t) BY <4>1, <2>5
      <4>3. AfterPoll(w, t, todo[w] \ {k}) BY <4>1, <3>2
      <4> QED BY <3>0, <4>2, <4>3, AfterPollUpdated
    <3>3. CASE /\ todo[w] # {} /\ jobs[k].state \in Results
               /\ updated' = [updated EXCEPT ![w] = [updated[w] EXCEPT ![k].phase = ShardPhase(jobs[k].state)]]
      <4>1. PICK t : t = [updated[w] EXCEPT ![k].phase = ShardPhase(jobs[k].state)] OBVIOUS
      <4>2. jobs[k].state \in outcomes[k] BY <2>4, <3>3 DEF JobInv
      <4>3. PICK phase \in {"Succeeded", "Failed"} :
              /\ phase = ShardPhase(jobs[k].state)
              /\ phase = "Succeeded" => "succeeded" \in outcomes[k]
              /\ phase = "Failed" => "failed" \in outcomes[k]
        BY <4>2, <3>3 DEF ShardPhase, Results
      <4>4. Backed(t) BY <4>1, <4>3, <2>5
      <4>5. updated'[w] = t BY <3>3, <4>1 DEF TypeInv, LocalTyped
      <4> QED BY <4>4, <4>5
    <3> QED BY <1>11, <2>3, <3>1, <3>2, <3>3 DEF PollShard
  <2> QED BY <2>1, <2>6, <1>3, <1>4 DEF JobInv
<1>12. CASE PatchTtl(w)
  <2>1. cr' = cr /\ outcomes' = outcomes /\ Backed(updated[w])
    BY <1>12 DEF PatchTtl, JobInv, PollSteps
  <2>2. PICK k, rest : /\ jobs' = jobs \/ jobs' = [jobs EXCEPT ![k].ttl = TRUE]
                       /\ AfterPoll(w, updated[w], rest)
    BY <1>12 DEF PatchTtl
  <2>3. \A l \in Indices : jobs'[l].state = jobs[l].state
    <3>1. TAKE l \in Indices
    <3>2. CASE jobs' = [jobs EXCEPT ![k].ttl = TRUE] /\ l = k
      <4>1. PICK j : j = jobs[k] OBVIOUS
      <4>2. jobs'[k] = [j EXCEPT !.ttl = TRUE] BY <3>2, <4>1 DEF TypeInv, JobsTyped
      <4>3. j \in [state: {"absent", "active"} \cup Results, targets: SUBSET InvNames, ttl: BOOLEAN]
        BY <3>2, <4>1 DEF TypeInv, JobsTyped
      <4> QED BY <3>2, <4>1, <4>2, <4>3
    <3>3. CASE jobs' = [jobs EXCEPT ![k].ttl = TRUE] /\ l # k BY <3>3 DEF TypeInv, JobsTyped
    <3> QED BY <2>2, <3>2, <3>3
  <2>4. pc'[w] \in PollSteps => Backed(updated'[w])
    BY <2>1, <2>2, AfterPollUpdated DEF PollSteps
  <2> QED BY <2>1, <2>3, <2>4, <1>3 DEF JobInv, Exists
<1>13. CASE Refill(w)
  <2>1. UNCHANGED jobVars /\ cr' = cr /\ Backed(updated[w]) BY <1>13 DEF Refill, JobInv, PollSteps
  <2>2. pc'[w] \in PollSteps => Backed(updated'[w])
    <3>1. CASE Conclude(w, updated[w]) BY <3>1, <2>1, ConcludeUpdated DEF PollSteps
    <3>2. CASE updated' = updated BY <3>2, <2>1
    <3> QED BY <1>13, <3>1, <3>2 DEF Refill
  <2> QED BY <2>1, <2>2, <1>3, <1>4 DEF JobInv
<1>14. CASE StartPending(w)
  <2>0. /\ cr' = cr /\ Backed(updated[w]) /\ Follows(w, updated[w], TRUE)
        /\ todo[w] # {} /\ todo[w] \subseteq InPhase(updated[w], "Pending")
    BY <1>14, <1>0 DEF StartPending, JobInv, PollSteps, StepInv, PollInv, LeftToDo
  <2>1. PICK answer, k, limit :
          /\ k = Min(todo[w])
          /\ IF answer = "refused" THEN UNCHANGED jobVars ELSE PutJob(k, limit)
          /\ \/ Conclude(w, updated[w])
             \/ Conclude(w, Started(w, k))
             \/ updated' = [updated EXCEPT ![w] = Started(w, k)]
    BY <1>14 DEF StartPending
  <2>2. k \in todo[w] /\ k \in Indices BY <2>0, <2>1, TodoFirst
  <2>3. k \in DOMAIN cr.shards BY <2>0, <2>2 DEF InPhase, Follows
  <2>4. PICK t : t = Started(w, k) OBVIOUS
  <2>5. Backed(t)
    <3>1. "Running" \in ShardPhases BY DEF ShardPhases
    <3>2. PICK u : u = updated[w] OBVIOUS
    <3>3. u \in ShardSeqs BY <3>2, StepTypes
    <3>4. t = [u EXCEPT ![k].phase = "Running"] BY <2>4, <3>2 DEF Started
    <3>5. DOMAIN t = DOMAIN u /\ \A l \in DOMAIN u : t[l].phase = IF l = k THEN "Running" ELSE u[l].phase
      BY <3>1, <3>3, <3>4, SetPhase
    <3> QED BY <3>5, <3>2, <2>0 DEF Backed
  <2>6. pc'[w] \in PollSteps => Backed(updated'[w])
    <3>0. "idle" \notin PollSteps BY DEF PollSteps
    <3>1. CASE Conclude(w, updated[w]) BY <3>0, <3>1, <2>0, ConcludeUpdated
    <3>2. CASE Conclude(w, t) BY <3>0, <3>2, <2>5, ConcludeUpdated
    <3>3. CASE updated' = [updated EXCEPT ![w] = t] BY <3>3, <2>5 DEF TypeInv, LocalTyped
    <3> QED BY <2>1, <2>4, <3>1, <3>2, <3>3
  <2>7. CASE UNCHANGED jobVars BY <2>0, <2>6, <2>7, <1>3, <1>4 DEF JobInv
  <2>8. CASE PutJob(k, limit)
    <3>1. /\ \A l \in Indices : l # k => jobs'[l] = jobs[l]
          /\ jobs' = jobs \/ jobs'[k].state = "active"
          /\ outcomes' = outcomes
      <4>1. ASSUME jobs'[k] = [state |-> "active", targets |-> AnsibleTargets(configMap, limit), ttl |-> FALSE]
            PROVE  jobs'[k].state = "active"
        BY <4>1
      <4> QED BY <2>2, <2>8, <4>1, PutJobEffect
    <3>2. \A l \in Indices : /\ jobs'[l].state \in Results => jobs'[l].state = jobs[l].state
                             /\ Exists(l)' => Exists(l) \/ l = k
      BY <3>1 DEF Results, Exists
    <3> QED BY <2>0, <2>3, <2>6, <3>1, <3>2, <1>3 DEF JobInv
  <2> QED BY <2>1, <2>7, <2>8
<1> QED BY <1>5, <1>6, <1>7, <1>8, <1>9, <1>10, <1>11, <1>12, <1>13, <1>14 DEF Reconcile

-----------------------------------------------------------------------------
(***************************************************************************)
(* The slots that are taken, by Jobs on record and by Jobs a reconcile has *)
(* created or lost; no more than MaxConcurrentRuns while no call fails.    *)
(***************************************************************************)

(* The shards that take a slot: Running ones whose Job is active, and      *)
(* those that have a Job but no record.                                    *)
Taken == {k \in DOMAIN cr.shards : \/ cr.shards[k].phase = "Running" /\ Active(k)
                                   \/ cr.shards[k].phase = "Pending" /\ Exists(k)}

Over(shards) == \A k \in DOMAIN shards : shards[k].phase \in TerminalShard => ~Active(k)

(* Of the Pending shards, those in F come first.                           *)
Initial(F) == \A k \in F, l \in InPhase(cr.shards, "Pending") : l < k => l \in F

Unrecorded == InPhase(cr.shards, "Pending") \cap Taken
Launched(w) == InPhase(cr.shards, "Pending") \cap InPhase(updated[w], "Running")
Slots(w) == InPhase(updated[w], "Running") \cup todo[w]

StoredSlots == Over(cr.shards) /\ Initial(Unrecorded) /\ Cardinality(Taken) <= MaxConcurrentRuns

StepSlots(w) ==
  /\ pc[w] \in PollSteps => Over(updated[w])
  /\ pc[w] = "startPending" =>
       Initial(Launched(w) \cup todo[w]) /\ Cardinality(Slots(w)) <= MaxConcurrentRuns

SlotsInv == StoredSlots /\ \A w \in Workers : StepSlots(w)

SlotInv == faults = 0 => SlotsInv

-----------------------------------------------------------------------------
(* The sets of shards that are counted are finite.                         *)
LEMMA FiniteShards ==
  ASSUME NEW s \in ShardSeqs
  PROVE  /\ IsFiniteSet(DOMAIN s) /\ DOMAIN s \in SUBSET Nat
         /\ \A S : S \subseteq DOMAIN s => IsFiniteSet(S) /\ Cardinality(S) \in Nat
<1>1. DOMAIN s = 1..Len(s) /\ Len(s) \in Nat BY ShardSeqFacts
<1>2. 1 \in Int /\ Len(s) \in Int BY <1>1
<1>3. IsFiniteSet(DOMAIN s) BY <1>1, <1>2, FS_Interval
<1>4. \A S : S \subseteq DOMAIN s => IsFiniteSet(S) /\ Cardinality(S) \in Nat
  BY <1>3, FS_Subset, FS_CardinalityType
<1> QED BY <1>1, <1>3, <1>4

(* Fewer slots are taken when Jobs finish.                                 *)
LEMMA SmallerTaken ==
  ASSUME TypeInv, Cardinality(Taken) <= MaxConcurrentRuns, Taken' \subseteq Taken
  PROVE  Cardinality(Taken)' <= MaxConcurrentRuns
<1>1. Taken \subseteq DOMAIN cr.shards /\ cr.shards \in ShardSeqs BY DEF Taken, TypeInv, RunsTyped
<1>2. IsFiniteSet(Taken) /\ Cardinality(Taken) \in Nat BY <1>1, FiniteShards
<1>3. Cardinality(Taken') \in Nat /\ Cardinality(Taken') <= Cardinality(Taken)
  BY <1>2, FS_Subset, FS_CardinalityType
<1> QED BY <1>2, <1>3, ParallelAssumption

(* Jobs may finish, and those go away whose shards are not Pending.        *)
LEMMA StoredSlotsKept ==
  ASSUME TypeInv, StoredSlots, cr'.shards = cr.shards,
         \A k \in Indices : Active(k)' => Active(k),
         \A k \in InPhase(cr.shards, "Pending") : (Exists(k)' => Exists(k)) /\ (Exists(k) => Exists(k)')
  PROVE  StoredSlots'
<1>1. DOMAIN cr.shards \subseteq Indices
  <2>1. cr.shards \in ShardSeqs BY DEF TypeInv, RunsTyped
  <2> QED BY <2>1, ShardSeqFacts
<1>2. Over(cr.shards)' BY <1>1 DEF StoredSlots, Over
<1>3. Taken' \subseteq Taken BY <1>1 DEF Taken, InPhase
<1>4. Cardinality(Taken)' <= MaxConcurrentRuns BY <1>3, SmallerTaken DEF StoredSlots
<1>5. Unrecorded' = Unrecorded BY DEF Unrecorded, Taken, InPhase
<1>6. Initial(Unrecorded)' BY <1>5 DEF StoredSlots, Initial
<1> QED BY <1>2, <1>4, <1>6 DEF StoredSlots

LEMMA InitSlots == Init => SlotInv
<1> SUFFICES ASSUME Init PROVE SlotsInv BY DEF SlotInv
<1>1. cr.shards = <<>> BY DEF Init, NewRun
<1>2. DOMAIN cr.shards = {} BY <1>1
<1>3. Taken = {} /\ Unrecorded = {} BY <1>2 DEF Taken, Unrecorded, InPhase
<1>4. Cardinality(Taken) = 0 BY <1>3, FS_EmptySet
<1>5. StoredSlots BY <1>2, <1>3, <1>4, ParallelAssumption DEF StoredSlots, Over, Initial
<1>6. \A w \in Workers : StepSlots(w) BY DEF Init, StepSlots, PollSteps
<1> QED BY <1>5, <1>6 DEF SlotsInv

(* A Job that ends is still there.                                         *)
LEMMA FinishEffect ==
  ASSUME TypeInv, FinishJob
  PROVE  \A k \in Indices : (Active(k)' => Active(k)) /\ (Exists(k)' => Exists(k)) /\ (Exists(k) => Exists(k)')
<1>1. PICK k \in Indices, r \in Results : jobs[k].state = "active" /\ jobs' = [jobs EXCEPT ![k].state = r]
  BY DEF FinishJob
<1>2. PICK j : j = jobs[k] OBVIOUS
<1>3. jobs'[k].state = r
  <2>1. jobs'[k] = [j EXCEPT !.state = r] BY <1>1, <1>2 DEF TypeInv, JobsTyped
  <2>2. j \in [state: {"absent", "active"} \cup Results, targets: SUBSET InvNames, ttl: BOOLEAN]
    BY <1>2 DEF TypeInv, JobsTyped
  <2> QED BY <2>1, <2>2
<1>4. \A l \in Indices : l # k => jobs'[l] = jobs[l] BY <1>1 DEF TypeInv, JobsTyped
<1> QED BY <1>1, <1>3, <1>4 DEF Active, Exists, Results

(* Users, Kubernetes, crashes and restarts take no slot.                   *)
LEMMA WorldSlots ==
  ASSUME TypeInv, ControlInv, SlotInv,
         \/ RequestCancel \/ EditInventory \/ FinishJob \/ ExpireJob \/ Resync \/ Crash \/ Restart
         \/ UNCHANGED vars
  PROVE  SlotInv'
<1>0. faults' = faults
  BY DEF RequestCancel, EditInventory, FinishJob, ExpireJob, Resync, Crash, Restart, vars
<1> SUFFICES ASSUME faults = 0 PROVE SlotsInv' BY <1>0 DEF SlotInv
<1>1. StoredSlots /\ \A w \in Workers : StepSlots(w) BY DEF SlotInv, SlotsInv
<1>2. cr'.shards = cr.shards
  BY DEF RequestCancel, EditInventory, FinishJob, ExpireJob, Resync, Crash, Restart, runVars, vars,
         TypeInv, RunsTyped
<1>3. \A w \in Workers : \/ pc'[w] = "idle"
                         \/ pc'[w] = pc[w] /\ updated'[w] = updated[w] /\ todo'[w] = todo[w]
  BY DEF RequestCancel, EditInventory, FinishJob, ExpireJob, Resync, Crash, Restart, localVars, vars
<1>4. /\ \A k \in Indices : Active(k)' => Active(k)
      /\ \A k \in InPhase(cr.shards, "Pending") : (Exists(k)' => Exists(k)) /\ (Exists(k) => Exists(k)')
  <2>0. InPhase(cr.shards, "Pending") \subseteq Indices
    <3>1. cr.shards \in ShardSeqs BY DEF TypeInv, RunsTyped
    <3> QED BY <3>1, ShardSeqFacts DEF InPhase
  <2>1. CASE FinishJob BY <2>0, <2>1, FinishEffect
  <2>2. CASE ExpireJob
    <3>1. PICK k \in Indices : jobs[k].ttl /\ RemoveJob(k) BY <2>2 DEF ExpireJob
    <3>2. /\ \A l \in Indices : l # k => jobs'[l] = jobs[l]
          /\ jobs'[k] = NoJob BY <3>1, RemoveJobEffect
    <3>3. k \notin InPhase(cr.shards, "Pending") BY <3>1 DEF ControlInv, TtlInv, InPhase
    <3>4. ~Active(k)' BY <3>2 DEF Active, NoJob
    <3> QED BY <2>0, <3>2, <3>3, <3>4 DEF Active, Exists
  <2>3. CASE jobs' = jobs BY <2>3 DEF Active, Exists
  <2> QED BY <2>1, <2>2, <2>3
      DEF RequestCancel, EditInventory, Resync, Crash, Restart, jobVars, vars
<1>5. StoredSlots' BY <1>1, <1>2, <1>4, StoredSlotsKept
<1>6. ASSUME NEW w \in Workers PROVE StepSlots(w)'
  <2>1. CASE pc'[w] = "idle" BY <2>1 DEF StepSlots, PollSteps
  <2>2. CASE pc'[w] = pc[w] /\ updated'[w] = updated[w] /\ todo'[w] = todo[w]
    <3>1. DOMAIN updated[w] \subseteq Indices BY StepTypes
    <3>2. pc'[w] \in PollSteps => Over(updated[w])' BY <3>1, <2>2, <1>1, <1>4 DEF StepSlots, Over
    <3>3. Launched(w)' = Launched(w) /\ Slots(w)' = Slots(w) BY <2>2, <1>2 DEF Launched, Slots, InPhase
    <3> QED BY <3>2, <3>3, <2>2, <1>1, <1>2 DEF StepSlots, Initial, InPhase
  <2> QED BY <2>1, <2>2, <1>3
<1> QED BY <1>5, <1>6 DEF SlotsInv

LEMMA ToSlots ==
  ASSUME TypeInv, ControlInv, OneAtATime, NEW w \in Workers, FireTimer(w) \/ Reconcile(w),
         StoredSlots', StepSlots(w)'
  PROVE  SlotsInv'
<1>1. \A v \in Workers : v # w => pc'[v] = "idle" BY OthersIdle
<1>2. \A v \in Workers : v # w => StepSlots(v)' BY <1>1 DEF StepSlots, PollSteps
<1> QED BY <1>2 DEF SlotsInv

(* A reconcile starts with the slots that are on record.                   *)
LEMMA FireTimerSlots ==
  ASSUME TypeInv, ControlInv, OneAtATime, SlotsInv, NEW w \in Workers, FireTimer(w)
  PROVE  SlotsInv'
<1>1. cr' = cr /\ jobs' = jobs BY DEF FireTimer, jobVars
<1>2. StoredSlots' BY <1>1, StoredSlotsKept DEF SlotsInv, Active, Exists
<1>3. StepSlots(w)'
  <2>1. CASE cr.phase \in Terminal
    <3>1. UNCHANGED localVars BY <2>1 DEF FireTimer
    <3>2. pc[w] = "idle" /\ pc' = pc BY <3>1 DEF FireTimer, localVars
    <3> QED BY <3>2 DEF StepSlots, PollSteps
  <2>2. CASE cr.phase \notin Terminal
    <3>1. updated'[w] = cr.shards /\ pc'[w] = EntryStep(cr) BY <2>2 DEF FireTimer, TypeInv, LocalTyped
    <3>2. Over(cr.shards)' BY <1>2 DEF StoredSlots
    <3>3. Over(updated[w])' BY <3>1, <3>2, <1>1 DEF Over
    <3>4. pc'[w] # "startPending" BY <3>1 DEF EntryStep
    <3> QED BY <3>3, <3>4 DEF StepSlots
  <2> QED BY <2>1, <2>2
<1> QED BY <1>2, <1>3, ToSlots

(* Steps of a reconcile that leave the stored shards alone and do not      *)
(* poll.                                                                   *)
LEMMA StartSlots ==
  ASSUME TypeInv, ControlInv, OneAtATime, SlotsInv, NEW w \in Workers,
         DeleteJobs(w) \/ PatchResolving(w) \/ Prepare(w) \/ StartShard(w)
  PROVE  SlotsInv'
<1>0. StepInv(w) /\ StoredInv /\ StoredSlots BY DEF ControlInv, SlotsInv
<1>1. Reconcile(w) BY DEF Reconcile
<1>2. ASSUME pc'[w] \notin PollSteps PROVE StepSlots(w)' BY <1>2 DEF StepSlots, PollSteps
<1>3. CASE DeleteJobs(w)
  <2>1. PICK answer, k : /\ k = Min(todo[w])
                         /\ IF answer = "refused" THEN UNCHANGED jobVars ELSE RemoveJob(k)
    BY <1>3 DEF DeleteJobs
  <2>2. cr' = cr BY <1>3 DEF DeleteJobs
  <2>3. todo[w] # {} /\ todo[w] \subseteq DOMAIN cr.shards \ InPhase(cr.shards, "Pending")
    BY <1>3, <1>0 DEF DeleteJobs, StepInv, CancelInv, CancelSteps
  <2>4. k \in Indices /\ k \notin InPhase(cr.shards, "Pending") BY <2>1, <2>3, TodoFirst
  <2>5. \A l \in Indices : l # k => jobs'[l] = jobs[l] BY <2>1, RemoveJobEffect DEF jobVars
  <2>6. jobs' = jobs \/ jobs'[k] = NoJob BY <2>1, <2>4, RemoveJobEffect DEF jobVars
  <2>7. InPhase(cr.shards, "Pending") \subseteq Indices BY StepTypes DEF InPhase
  <2>8. /\ \A l \in Indices : Active(l)' => Active(l)
        /\ \A l \in InPhase(cr.shards, "Pending") : (Exists(l)' => Exists(l)) /\ (Exists(l) => Exists(l)')
    BY <2>4, <2>5, <2>6, <2>7 DEF Active, Exists, NoJob
  <2>9. StoredSlots' BY <2>2, <2>8, <1>0, StoredSlotsKept
  <2>10. PICK step \in {"patchCancelled", "deleteJobs"} : Goto(w, step) BY <1>3 DEF DeleteJobs
  <2>11. StepSlots(w)' BY <2>10, <1>2, GotoPc DEF PollSteps
  <2> QED BY <2>9, <2>11, <1>1, ToSlots
<1>4. CASE PatchResolving(w)
  <2>1. PICK answer, step : /\ PatchRunStatus(w, "Resolving", <<>>, answer)
                            /\ Goto(w, step) /\ step \in {"prepare", "patchError"}
    BY <1>4, <1>0 DEF PatchResolving, StepInv, StartInv, StartSteps
  <2>2. cr'.shards = cr.shards BY <2>1, PatchEffect
  <2>3. jobs' = jobs BY <1>4 DEF PatchResolving, jobVars
  <2>4. StoredSlots' BY <2>2, <2>3, <1>0, StoredSlotsKept DEF Active, Exists
  <2>5. StepSlots(w)' BY <2>1, <1>2, GotoPc DEF PollSteps
  <2> QED BY <2>4, <2>5, <1>1, ToSlots
<1>5. CASE Prepare(w)
  <2>1. cr' = cr /\ jobs' = jobs BY <1>5 DEF Prepare, jobVars
  <2>2. StoredSlots' BY <2>1, <1>0, StoredSlotsKept DEF Active, Exists
  <2>3. pc'[w] \notin PollSteps
    <3>1. CASE Return(w) BY <3>1, ResetPc DEF Return, PollSteps
    <3>2. CASE Goto(w, "patchError") BY <3>2, GotoPc DEF PollSteps
    <3>3. ASSUME NEW step \in {"patchEmpty", "startShards"}, pc' = [pc EXCEPT ![w] = step]
          PROVE  pc'[w] \notin PollSteps
      BY <3>3 DEF TypeInv, LocalTyped, PollSteps
    <3>4. CASE \E shards : pc' = [pc EXCEPT ![w] = IF shards = <<>> THEN "patchEmpty" ELSE "startShards"]
      BY <3>3, <3>4
    <3> QED BY <1>5, <3>1, <3>2, <3>4 DEF Prepare
  <2> QED BY <2>2, <2>3, <1>1, <1>2, ToSlots
<1>6. CASE StartShard(w)
  <2>1. cr' = cr /\ cr.shards = <<>>
    BY <1>6, <1>0 DEF StartShard, StepInv, StartInv, StartSteps, StoredInv
  <2>2. DOMAIN cr'.shards = {} BY <2>1
  <2>3. Taken' = {} /\ Unrecorded' = {} BY <2>2 DEF Taken, Unrecorded, InPhase
  <2>4. Cardinality(Taken') = 0 BY <2>3, FS_EmptySet
  <2>5. StoredSlots' BY <2>2, <2>3, <2>4, ParallelAssumption DEF StoredSlots, Over, Initial
  <2>6. pc'[w] \notin PollSteps
    <3>1. CASE Return(w) BY <3>1, ResetPc DEF Return, PollSteps
    <3>2. CASE \E step \in {"patchRunning", "startShards"} : Goto(w, step) BY <3>2, GotoPc DEF PollSteps
    <3> QED BY <1>6, <3>1, <3>2 DEF StartShard
  <2> QED BY <2>5, <2>6, <1>1, <1>2, ToSlots
<1> QED BY <1>3, <1>4, <1>5, <1>6

(* Storing the status takes no more slots than the reconcile counted.      *)
LEMMA PatchEndSlots ==
  ASSUME TypeInv, ControlInv, OneAtATime, JobInv, SlotsInv, NEW w \in Workers, faults' = 0,
         \/ PatchCancelled(w) \/ PatchRunning(w) \/ PatchEmpty(w) \/ PatchError(w)
         \/ PatchShards(w) \/ PatchFinal(w)
  PROVE  SlotsInv'
<1>0. StepInv(w) /\ StoredInv /\ StoredSlots /\ StepSlots(w) BY DEF ControlInv, SlotsInv
<1>1. Reconcile(w) BY DEF Reconcile
<1>2. Return(w) /\ jobs' = jobs
  BY DEF PatchCancelled, PatchRunning, PatchEmpty, PatchError, PatchShards, PatchFinal, jobVars
<1>3. StepSlots(w)' BY <1>2, ResetPc DEF Return, StepSlots, PollSteps
<1>4. StoredSlots'
  <2>0. CASE cr'.shards = cr.shards BY <2>0, <1>0, <1>2, StoredSlotsKept DEF Active, Exists
  <2>1. CASE PatchCancelled(w) \/ PatchEmpty(w) \/ PatchError(w)
    <3>1. PICK phase, shards, answer : /\ PatchRunStatus(w, phase, shards, answer)
                                       /\ shards \in {<<>>, cr.shards}
      BY <2>1, <1>0 DEF PatchCancelled, PatchEmpty, PatchError, StepInv, CancelInv, CancelSteps,
                        StartInv, StartSteps
    <3>2. cr'.shards = cr.shards BY <3>1, PatchEffect
    <3> QED BY <3>2, <2>0
  <2>2. CASE PatchRunning(w)
    <3>1. PICK answer : PatchRunStatus(w, "Running", updated[w], answer) BY <2>2 DEF PatchRunning
    <3>2. Planned(w) /\ cr.shards = <<>> /\ todo[w] = {}
      BY <2>2, <1>0 DEF PatchRunning, StepInv, PlanInv, StartInv, StartSteps, StoredInv, Planned
    <3>3. CASE cr'.shards = updated[w]
      <4>1. PICK s, F : /\ s = ShardHosts(groups[w], MaxAmountOfHosts)
                        /\ F = FirstOf(DOMAIN s, MaxConcurrentRuns) OBVIOUS
      <4>2. /\ DOMAIN updated[w] = DOMAIN s /\ groups[w] \in Inventories
            /\ InPhase(updated[w], "Running") = F
            /\ \A k \in DOMAIN s : updated[w][k].phase \in {"Pending", "Running"}
        BY <3>2, <4>1 DEF Planned
      <4>3. DOMAIN s = 1..Len(s) /\ Len(s) \in Nat /\ DOMAIN s \subseteq Indices BY <4>1, <4>2, PendingShards
      <4>4. MaxConcurrentRuns \in Nat BY ParallelAssumption
      <4>5. F = {k \in DOMAIN s : k <= MaxConcurrentRuns} BY <4>1, <4>3, <4>4, FirstOfInterval
      <4>6. Over(cr.shards)' BY <3>3, <4>2 DEF Over, TerminalShard
      <4>7. \A k \in InPhase(updated[w], "Pending") : ~Exists(k)'
        <5>1. TAKE k \in InPhase(updated[w], "Pending")
        <5>2. k \in DOMAIN s /\ k \notin F BY <4>2 DEF InPhase
        <5>3. DOMAIN cr.shards = {} BY <3>2
        <5> QED BY <5>2, <5>3, <4>3, <4>5, <1>2 DEF JobInv, Exists
      <4>8. Unrecorded' = {} BY <4>7, <3>3 DEF Unrecorded, Taken, InPhase, Exists
      <4>9. Taken' \subseteq F BY <4>2, <4>7, <3>3 DEF Taken, InPhase, Exists
      <4>10. Cardinality(F) <= MaxConcurrentRuns /\ IsFiniteSet(F)
        <5>1. DOMAIN s \in SUBSET Nat BY <4>3
        <5>2. IsFiniteSet(DOMAIN s)
          <6>1. 1 \in Int /\ Len(s) \in Int BY <4>3
          <6> QED BY <6>1, <4>3, FS_Interval
        <5> QED BY <5>1, <5>2, <4>1, <4>4, FirstOfCorrect
      <4>11. Cardinality(Taken') \in Nat /\ Cardinality(Taken') <= Cardinality(F) /\ Cardinality(F) \in Nat
        BY <4>9, <4>10, FS_Subset, FS_CardinalityType
      <4> QED BY <4>4, <4>6, <4>8, <4>10, <4>11 DEF StoredSlots, Initial
    <3>4. cr'.shards = cr.shards \/ cr'.shards = updated[w] BY <3>1, PatchEffect
    <3> QED BY <3>3, <3>4, <2>0
  <2>3. CASE PatchShards(w) \/ PatchFinal(w)
    <3>1. PICK phase, answer : PatchRunStatus(w, phase, updated[w], answer)
      BY <2>3 DEF PatchShards, PatchFinal
    <3>2. Follows(w, updated[w], TRUE) /\ Over(updated[w])
      BY <2>3, <1>0 DEF PatchShards, PatchFinal, StepInv, PollInv, PollSteps, Follows, StepSlots
    <3>3. CASE cr'.shards = updated[w]
      <4>1. Over(cr.shards)' BY <3>2, <3>3, <1>2 DEF Over, Active
      <4>2. Taken' \subseteq Taken BY <3>2, <3>3, <1>2 DEF Taken, Follows, Active, Exists, TerminalShard
      <4>3. InPhase(updated[w], "Pending") \subseteq InPhase(cr.shards, "Pending")
        BY <3>2 DEF Follows, InPhase, TerminalShard
      <4>4. Unrecorded' = Unrecorded \cap InPhase(updated[w], "Pending")
        BY <4>2, <4>3, <3>2, <3>3, <1>2 DEF Unrecorded, Taken, InPhase, Exists, Active, Follows
      <4>5. Initial(Unrecorded)' BY <4>3, <4>4, <3>3, <1>0 DEF StoredSlots, Initial, InPhase
      <4>6. Cardinality(Taken)' <= MaxConcurrentRuns BY <4>2, <1>0, SmallerTaken DEF StoredSlots
      <4> QED BY <4>1, <4>5, <4>6 DEF StoredSlots
    <3>4. cr'.shards = cr.shards \/ cr'.shards = updated[w] BY <3>1, PatchEffect
    <3> QED BY <3>3, <3>4, <2>0
  <2> QED BY <2>1, <2>2, <2>3
<1> QED BY <1>1, <1>3, <1>4, ToSlots

(* A shard that is over gives its slot up only if its Job is over.         *)
LEMMA PollSlots ==
  ASSUME TypeInv, ControlInv, OneAtATime, SlotsInv, NEW w \in Workers, faults' = 0,
         PollShard(w) \/ PatchTtl(w)
  PROVE  SlotsInv'
<1>0. StepInv(w) /\ StoredSlots /\ Over(updated[w]) /\ cr' = cr
  BY DEF ControlInv, SlotsInv, StepSlots, PollSteps, PollShard, PatchTtl
<1>1. Reconcile(w) BY DEF Reconcile
<1>2. PICK k : k = Min(todo[w]) OBVIOUS
<1>3. \A l : (Active(l)' => Active(l)) /\ (Exists(l)' => Exists(l)) /\ (Exists(l) => Exists(l)')
  <2>1. CASE jobs' = jobs BY <2>1 DEF Active, Exists
  <2>2. CASE jobs' = [jobs EXCEPT ![k].ttl = TRUE]
    <3>1. \A l : jobs'[l].state = jobs[l].state
      <4>1. TAKE l
      <4>2. CASE l = k /\ k \in Indices
        <5>1. PICK j : j = jobs[k] OBVIOUS
        <5>2. jobs'[k] = [j EXCEPT !.ttl = TRUE] BY <2>2, <4>2, <5>1 DEF TypeInv, JobsTyped
        <5>3. j \in [state: {"absent", "active"} \cup Results, targets: SUBSET InvNames, ttl: BOOLEAN]
          BY <4>2, <5>1 DEF TypeInv, JobsTyped
        <5> QED BY <4>2, <5>1, <5>2, <5>3
      <4>3. CASE l # k \/ k \notin Indices
        <5>1. k \notin Indices => jobs' = jobs BY <2>2 DEF TypeInv, JobsTyped
        <5>2. jobs'[l] = jobs[l] BY <2>2, <4>3, <5>1 DEF TypeInv, JobsTyped
        <5> QED BY <5>2
      <4> QED BY <4>2, <4>3
    <3> QED BY <3>1 DEF Active, Exists
  <2> QED BY <2>1, <2>2, <1>2 DEF PollShard, PatchTtl, jobVars
<1>4. StoredSlots' BY <1>0, <1>3, StoredSlotsKept
<1>5. ASSUME Over(updated'[w]) \/ pc'[w] = "idle", pc'[w] # "startPending" PROVE StepSlots(w)'
  BY <1>3, <1>5 DEF StepSlots, Over, PollSteps
<1>6. ASSUME NEW shards, NEW rest, AfterPoll(w, shards, rest), Over(shards) PROVE StepSlots(w)'
  <2>1. \/ pc'[w] = "idle"
        \/ updated'[w] = shards /\ pc'[w] \in {"pollShards", "refill", "patchFinal", "patchShards"}
    BY <1>6, AfterPollUpdated
  <2> QED BY <2>1, <1>5, <1>6
<1>7. CASE PatchTtl(w)
  <2>1. AfterPoll(w, updated[w], todo[w] \ {k}) BY <1>7, <1>2 DEF PatchTtl
  <2> QED BY <2>1, <1>0, <1>1, <1>4, <1>6, ToSlots
<1>8. CASE PollShard(w)
  <2>1. ASSUME ~Active(k), NEW phase \in TerminalShard, NEW t, t = [updated[w] EXCEPT ![k].phase = phase]
        PROVE  Over(t)
    <3>1. \A l \in DOMAIN t : l \in DOMAIN updated[w] /\ (l # k => t[l] = updated[w][l]) BY <2>1
    <3> QED BY <3>1, <2>1, <1>0 DEF Over
  <2>2. StepSlots(w)'
    <3>1. CASE todo[w] = {} /\ AfterPoll(w, updated[w], {}) BY <3>1, <1>0, <1>6
    <3>2. ASSUME NEW answer \in {"ok", "refused"}, todo[w] # {}, Spend(answer),
                 \/ /\ answer = "refused" \/ jobs[k].state = "absent"
                    /\ AfterPoll(w, [updated[w] EXCEPT ![k].phase = "Error"], todo[w] \ {k})
                 \/ AfterPoll(w, updated[w], todo[w] \ {k})
                 \/ /\ jobs[k].state \in Results
                    /\ Goto(w, "patchTtl")
                    /\ updated' = [updated EXCEPT ![w] = [updated[w] EXCEPT ![k].phase = ShardPhase(jobs[k].state)]]
          PROVE  StepSlots(w)'
      <4>0. answer = "ok" BY <3>2, SpendTyped
      <4>1. CASE AfterPoll(w, updated[w], todo[w] \ {k}) BY <4>1, <1>0, <1>6
      <4>2. CASE /\ jobs[k].state = "absent"
                 /\ AfterPoll(w, [updated[w] EXCEPT ![k].phase = "Error"], todo[w] \ {k})
        <5>1. PICK t : t = [updated[w] EXCEPT ![k].phase = "Error"] OBVIOUS
        <5>2. "Error" \in TerminalShard /\ ~Active(k) BY <4>2 DEF TerminalShard, Active
        <5>3. Over(t) BY <5>1, <5>2, <2>1
        <5>4. AfterPoll(w, t, todo[w] \ {k}) BY <4>2, <5>1
        <5> QED BY <5>3, <5>4, <1>6
      <4>3. CASE /\ jobs[k].state \in Results
                 /\ Goto(w, "patchTtl")
                 /\ updated' = [updated EXCEPT ![w] = [updated[w] EXCEPT ![k].phase = ShardPhase(jobs[k].state)]]
        <5>1. PICK phase : phase = ShardPhase(jobs[k].state) OBVIOUS
        <5>2. PICK t : t = [updated[w] EXCEPT ![k].phase = phase] OBVIOUS
        <5>3. phase \in TerminalShard /\ ~Active(k)
          BY <4>3, <5>1 DEF TerminalShard, Active, ShardPhase, Results
        <5>4. Over(t) BY <5>2, <5>3, <2>1
        <5>5. updated'[w] = t BY <4>3, <5>1, <5>2 DEF TypeInv, LocalTyped
        <5>6. pc'[w] = "patchTtl" BY <4>3, GotoPc
        <5> QED BY <5>4, <5>5, <5>6, <1>5
      <4> QED BY <3>2, <4>0, <4>1, <4>2, <4>3
    <3> QED BY <1>8, <1>2, <3>1, <3>2 DEF PollShard
  <2> QED BY <2>2, <1>1, <1>4, ToSlots
<1> QED BY <1>7, <1>8

(* Pending shards are chosen for the free slots, those without a Job       *)
(* record first.                                                           *)
LEMMA RefillSlots ==
  ASSUME TypeInv, ControlInv, OneAtATime, SlotsInv, NEW w \in Workers, faults' = 0, Refill(w)
  PROVE  SlotsInv'
<1>0. StepInv(w) /\ StoredSlots /\ Over(updated[w]) /\ cr' = cr /\ jobs' = jobs /\ pc[w] = "refill"
  BY DEF ControlInv, SlotsInv, StepSlots, PollSteps, Refill, jobVars
<1>1. Reconcile(w) BY DEF Reconcile
<1>2. StoredSlots' BY <1>0, StoredSlotsKept DEF Active, Exists
<1>3. PICK P, n : P = InPhase(updated[w], "Pending") /\ n = FreeSlots(updated[w]) OBVIOUS
<1>4. /\ groups' = [groups EXCEPT ![w] = inventory] /\ pc' = [pc EXCEPT ![w] = "startPending"]
      /\ todo' = [todo EXCEPT ![w] = FirstOf(P, n)] /\ updated' = updated
  <2>1. ASSUME NEW answer \in {"refused", "lost"}, RenderInventory(answer) PROVE FALSE
    BY <2>1, SpendTyped DEF RenderInventory
  <2> QED BY <2>1, <1>3 DEF Refill
<1>5. pc'[w] = "startPending" /\ todo'[w] = FirstOf(P, n) BY <1>4 DEF TypeInv, LocalTyped
<1>6. Follows(w, updated[w], FALSE) /\ n > 0
  BY <1>0, <1>3 DEF StepInv, PollInv, PollSteps, LeftToDo, Follows
<1>7. P = InPhase(cr.shards, "Pending") BY <1>3, <1>6 DEF Follows, InPhase, TerminalShard
<1>8. InPhase(cr.shards, "Pending") \cap InPhase(updated[w], "Running") = {} BY <1>6 DEF Follows, InPhase
<1>9. PICK R : R = InPhase(updated[w], "Running") OBVIOUS
<1>10. updated[w] \in ShardSeqs /\ P \subseteq DOMAIN updated[w] /\ R \subseteq DOMAIN updated[w]
  BY <1>3, <1>9, StepTypes DEF InPhase
<1>11. P \in SUBSET Nat /\ IsFiniteSet(P) /\ IsFiniteSet(R) /\ Cardinality(R) \in Nat
  BY <1>10, FiniteShards
<1>12. n = MaxConcurrentRuns - Cardinality(R) /\ n \in Nat
  <2>1. MaxConcurrentRuns \in Nat BY ParallelAssumption
  <2>2. n = MaxConcurrentRuns - Cardinality(R) BY <1>3, <1>9 DEF FreeSlots
  <2> QED BY <2>1, <2>2, <1>6, <1>11
<1>13. PICK F : F = FirstOf(P, n) OBVIOUS
<1>14. /\ F \subseteq P /\ IsFiniteSet(F) /\ Cardinality(F) <= n /\ Cardinality(F) \in Nat
       /\ \A k \in F, l \in P : l < k => l \in F
  BY <1>11, <1>12, <1>13, FirstOfCorrect, FS_CardinalityType
<1>15. Cardinality(R \cup F) <= MaxConcurrentRuns
  <2>1. Cardinality(R \cup F) = Cardinality(R) + Cardinality(F) - Cardinality(R \cap F)
    BY <1>11, <1>14, FS_Union
  <2>2. R \cap F = {} BY <1>7, <1>8, <1>9, <1>14
  <2>3. Cardinality(R \cap F) = 0 BY <2>2, FS_EmptySet
  <2>4. MaxConcurrentRuns \in Nat BY ParallelAssumption
  <2> QED BY <2>1, <2>3, <2>4, <1>11, <1>12, <1>14
<1>16. Slots(w)' = R \cup F BY <1>4, <1>5, <1>9, <1>13 DEF Slots, InPhase
<1>17. Launched(w)' = {} BY <1>0, <1>4, <1>8 DEF Launched, InPhase
<1>18. (Launched(w) \cup todo[w])' = F BY <1>5, <1>13, <1>17
<1>19. Initial(Launched(w) \cup todo[w])'
  BY <1>0, <1>7, <1>14, <1>18 DEF Initial, InPhase
<1>20. Over(updated[w])' BY <1>0, <1>4 DEF Over, Active
<1>21. StepSlots(w)' BY <1>15, <1>16, <1>19, <1>20 DEF StepSlots
<1> QED BY <1>1, <1>2, <1>21, ToSlots

(* The shard that is started next takes a slot only if one is free: all    *)
(* that have one are among those the reconcile has counted.                *)
LEMMA StartPendingSlots ==
  ASSUME TypeInv, ControlInv, OneAtATime, SlotsInv, NEW w \in Workers, faults' = 0, StartPending(w)
  PROVE  SlotsInv'
<1>0. /\ StepInv(w) /\ StoredSlots /\ StepSlots(w) /\ Over(updated[w]) /\ cr' = cr
      /\ pc[w] = "startPending"
  BY DEF ControlInv, SlotsInv, StepSlots, PollSteps, StartPending
<1>1. Reconcile(w) BY DEF Reconcile
<1>2. /\ Follows(w, updated[w], TRUE) /\ todo[w] # {}
      /\ todo[w] \subseteq InPhase(updated[w], "Pending")
      /\ Initial(Launched(w) \cup todo[w]) /\ Cardinality(Slots(w)) <= MaxConcurrentRuns
  BY <1>0 DEF StepInv, PollInv, PollSteps, LeftToDo, StepSlots
<1>3. PICK k, limit :
          /\ k = Min(todo[w])
          /\ PutJob(k, limit)
          /\ \/ todo[w] = {k} /\ Conclude(w, Started(w, k))
             \/ /\ Goto(w, "startPending")
                /\ updated' = [updated EXCEPT ![w] = Started(w, k)]
                /\ todo' = [todo EXCEPT ![w] = @ \ {k}]
  <2>1. PICK answer, k, limit :
          /\ k = Min(todo[w]) /\ Spend(answer)
          /\ IF answer = "refused" THEN UNCHANGED jobVars ELSE PutJob(k, limit)
          /\ \/ answer # "ok" /\ Conclude(w, updated[w])
             \/ answer = "ok" /\ todo[w] = {k} /\ Conclude(w, Started(w, k))
             \/ /\ answer = "ok" /\ todo[w] # {k}
                /\ Goto(w, "startPending")
                /\ updated' = [updated EXCEPT ![w] = Started(w, k)]
                /\ todo' = [todo EXCEPT ![w] = @ \ {k}]
    BY DEF StartPending
  <2>2. answer = "ok" BY <2>1, SpendTyped
  <2> QED BY <2>1, <2>2
<1>4. k \in todo[w] /\ k \in Indices /\ \A l \in todo[w] : k <= l BY <1>2, <1>3, TodoFirst
<1>5. /\ k \in InPhase(cr.shards, "Pending") /\ todo[w] \subseteq InPhase(cr.shards, "Pending")
      /\ InPhase(cr.shards, "Pending") \subseteq Indices /\ Indices \subseteq Nat
  BY <1>2, <1>4, StepTypes DEF Follows, InPhase, TerminalShard, Indices
<1>6. /\ \A l \in Indices : l # k => jobs'[l] = jobs[l]
      /\ (Exists(k) /\ jobs' = jobs) \/ (~Exists(k) /\ jobs'[k].state = "active")
  <2>1. ASSUME jobs'[k] = [state |-> "active", targets |-> AnsibleTargets(configMap, limit), ttl |-> FALSE]
        PROVE  jobs'[k].state = "active"
    BY <2>1
  <2> QED BY <2>1, <1>3, <1>4, PutJobEffect
<1>7. PICK u : u = updated[w] OBVIOUS
<1>8. PICK t : t = [u EXCEPT ![k].phase = "Running"] OBVIOUS
<1>9. t = Started(w, k) BY <1>7, <1>8 DEF Started
<1>10. /\ DOMAIN t = DOMAIN u
       /\ \A l \in DOMAIN u : t[l].phase = IF l = k THEN "Running" ELSE u[l].phase
  <2>1. "Running" \in ShardPhases BY DEF ShardPhases
  <2>2. u \in ShardSeqs BY <1>7, StepTypes
  <2> QED BY <2>1, <2>2, <1>8, SetPhase
<1>11. DOMAIN u = DOMAIN cr.shards /\ DOMAIN u \subseteq Indices /\ k \in DOMAIN u
  BY <1>2, <1>5, <1>7, StepTypes DEF Follows, InPhase
<1>12. \A l \in Launched(w) : Exists(l) BY <1>2 DEF Launched, Follows, InPhase
<1>13. PICK F : F = Launched(w) \cup todo[w] OBVIOUS
<1>14. /\ F \subseteq InPhase(cr.shards, "Pending") /\ k \in F
       /\ \A f \in F, l \in InPhase(cr.shards, "Pending") : l < f => l \in F
       /\ F \subseteq Slots(w)
  BY <1>2, <1>4, <1>5, <1>13 DEF Launched, Initial, Slots
<1>15. StoredSlots'
  <2>1. CASE Exists(k) /\ jobs' = jobs
    BY <2>1, <1>0, StoredSlotsKept DEF Active, Exists
  <2>2. CASE ~Exists(k) /\ jobs'[k].state = "active"
    <3>1. Taken' = Taken \cup {k}
      <4>1. Taken' \subseteq Taken \cup {k}
        BY <1>0, <1>6, <1>11 DEF Taken, Active, Exists
      <4>2. Taken \subseteq Taken'
        <5>1. k \notin Taken BY <2>2, <1>5 DEF Taken, InPhase
        <5> QED BY <5>1, <1>0, <1>6, <1>11 DEF Taken, Active, Exists
      <4>3. k \in Taken' BY <2>2, <1>0, <1>5 DEF Taken, InPhase, Exists
      <4> QED BY <4>1, <4>2, <4>3
    <3>2. k \notin Unrecorded BY <2>2, <1>5 DEF Unrecorded, Taken, InPhase
    <3>3. Taken \subseteq Slots(w)
      <4>1. SUFFICES ASSUME NEW x \in Taken PROVE x \in Slots(w) OBVIOUS
      <4>2. x \in DOMAIN cr.shards BY DEF Taken
      <4>3. CASE cr.shards[x].phase = "Running" /\ Active(x)
        BY <4>2, <4>3, <1>0, <1>2 DEF Slots, InPhase, Follows, Over
      <4>4. CASE cr.shards[x].phase = "Pending" /\ Exists(x)
        <5>1. x \in Unrecorded /\ x \in InPhase(cr.shards, "Pending")
          BY <4>2, <4>4 DEF Unrecorded, InPhase
        <5>2. x # k BY <3>2, <5>1
        <5>3. x \in Nat /\ k \in Nat BY <5>1, <1>5
        <5>4. CASE x < k
          <6>1. x \in F BY <5>1, <5>4, <1>14
          <6> QED BY <6>1, <1>14
        <5>5. CASE k < x
          <6>1. k \in Unrecorded BY <5>1, <5>5, <1>0, <1>5 DEF StoredSlots, Initial
          <6> QED BY <6>1, <3>2
        <5> QED BY <5>2, <5>3, <5>4, <5>5
      <4> QED BY <4>3, <4>4 DEF Taken
    <3>4. Taken' \subseteq Slots(w) BY <3>1, <3>3, <1>14
    <3>5. Cardinality(Taken)' <= MaxConcurrentRuns
      <4>1. Slots(w) \subseteq DOMAIN u BY <1>2, <1>7 DEF Slots, InPhase
      <4>2. IsFiniteSet(Slots(w)) /\ Cardinality(Slots(w)) \in Nat
        <5>1. u \in ShardSeqs BY <1>7, StepTypes
        <5> QED BY <4>1, <5>1, FiniteShards
      <4>3. Cardinality(Taken') \in Nat /\ Cardinality(Taken') <= Cardinality(Slots(w))
        BY <3>4, <4>2, FS_Subset, FS_CardinalityType
      <4> QED BY <4>2, <4>3, <1>2, ParallelAssumption
    <3>6. Unrecorded' = Unrecorded \cup {k}
      BY <3>1, <1>0, <1>5 DEF Unrecorded, InPhase
    <3>7. Initial(Unrecorded)'
      <4>1. SUFFICES ASSUME NEW x \in Unrecorded \cup {k}, NEW l \in InPhase(cr.shards, "Pending"), l < x
                     PROVE  l \in Unrecorded \cup {k}
        BY <3>6, <1>0 DEF Initial, InPhase
      <4>2. CASE x \in Unrecorded BY <4>1, <4>2, <1>0 DEF StoredSlots, Initial
      <4>3. CASE x = k
        <5>1. l \in F BY <4>1, <4>3, <1>14
        <5>2. l \notin todo[w]
          <6>1. l \in Nat /\ k \in Nat BY <4>1, <1>5
          <6> QED BY <6>1, <4>1, <4>3, <1>4
        <5>3. Exists(l) BY <5>1, <5>2, <1>12, <1>13
        <5>4. l \in Taken BY <5>3, <4>1 DEF Taken, InPhase
        <5> QED BY <5>4, <4>1 DEF Unrecorded
      <4> QED BY <4>2, <4>3
    <3>8. Over(cr.shards)'
      <4>1. cr.shards[k].phase = "Pending" BY <1>5 DEF InPhase
      <4>2. \A l \in DOMAIN cr.shards : cr.shards[l].phase \in TerminalShard => l # k /\ l \in Indices
        BY <4>1, <1>11 DEF TerminalShard
      <4> QED BY <4>2, <1>0, <1>6 DEF StoredSlots, Over, Active
    <3> QED BY <3>5, <3>7, <3>8 DEF StoredSlots
  <2> QED BY <2>1, <2>2, <1>6
<1>16. Over(t)'
  <2>1. \A l \in DOMAIN t : t[l].phase \in TerminalShard => l # k /\ l \in Indices /\ u[l].phase = t[l].phase
    BY <1>10, <1>11 DEF TerminalShard
  <2> QED BY <2>1, <1>0, <1>6, <1>7, <1>10 DEF Over, Active
<1>17. StepSlots(w)'
  <2>1. CASE Conclude(w, Started(w, k))
    <3>1. Conclude(w, t) BY <2>1, <1>9
    <3>2. \/ pc'[w] = "idle"
          \/ updated'[w] = t /\ pc'[w] \in {"patchFinal", "patchShards"}
      BY <3>1, ConcludeUpdated
    <3> QED BY <3>2, <1>16 DEF StepSlots, PollSteps, Over
  <2>2. CASE /\ Goto(w, "startPending")
             /\ updated' = [updated EXCEPT ![w] = Started(w, k)]
             /\ todo' = [todo EXCEPT ![w] = @ \ {k}]
    <3>1. updated'[w] = t /\ todo'[w] = todo[w] \ {k} /\ pc'[w] = "startPending"
      BY <2>2, <1>9, GotoPc DEF TypeInv, LocalTyped
    <3>2. InPhase(t, "Running") = InPhase(u, "Running") \cup {k} BY <1>10, <1>11 DEF InPhase
    <3>3. Slots(w)' = InPhase(t, "Running") \cup (todo[w] \ {k}) BY <3>1 DEF Slots, InPhase
    <3>4. Slots(w)' = Slots(w) BY <3>2, <3>3, <1>4, <1>7 DEF Slots
    <3>5. Launched(w)' = InPhase(cr.shards, "Pending") \cap InPhase(t, "Running")
      BY <3>1, <1>0 DEF Launched, InPhase
    <3>6. (Launched(w) \cup todo[w])' = F
      BY <3>1, <3>2, <3>5, <1>4, <1>5, <1>7, <1>13 DEF Launched
    <3>7. Initial(Launched(w) \cup todo[w])' BY <3>6, <1>0, <1>14 DEF Initial, InPhase
    <3>8. Over(updated[w])' BY <3>1, <1>16 DEF Over
    <3> QED BY <3>1, <3>4, <3>7, <3>8, <1>2 DEF StepSlots
  <2> QED BY <1>3, <2>1, <2>2
<1> QED BY <1>1, <1>15, <1>17, ToSlots

(* Failures are not forgotten.                                             *)
LEMMA FaultsCount ==
  ASSUME TypeInv, Next, faults' = 0
  PROVE  faults = 0
<1>1. ASSUME NEW answer, Spend(answer) PROVE faults = 0 BY <1>1, SpendTyped
<1>2. faults' = faults \/ \E answer : Spend(answer)
  <2>1. CASE RequestCancel \/ EditInventory \/ FinishJob \/ ExpireJob \/ Resync \/ Crash \/ Restart
    BY <2>1 DEF RequestCancel, EditInventory, FinishJob, ExpireJob, Resync, Crash, Restart
  <2>2. CASE \E w \in Workers : FireTimer(w) BY <2>2 DEF FireTimer
  <2>3. ASSUME NEW w \in Workers, Reconcile(w) PROVE faults' = faults \/ \E answer : Spend(answer)
    <3>1. CASE \/ PatchCancelled(w) \/ PatchRunning(w) \/ PatchEmpty(w) \/ PatchError(w)
               \/ PatchShards(w) \/ PatchFinal(w) \/ PatchResolving(w)
      BY <3>1 DEF PatchCancelled, PatchRunning, PatchEmpty, PatchError, PatchShards, PatchFinal,
                  PatchResolving, PatchRunStatus
    <3>2. CASE DeleteJobs(w) \/ StartShard(w) \/ PatchTtl(w) \/ StartPending(w)
      BY <3>2 DEF DeleteJobs, StartShard, PatchTtl, StartPending
    <3>3. CASE Prepare(w) BY <3>3 DEF Prepare, RenderInventory
    <3>4. CASE Refill(w) BY <3>4 DEF Refill, RenderInventory
    <3>5. CASE PollShard(w) BY <3>5 DEF PollShard
    <3> QED BY <2>3, <3>1, <3>2, <3>3, <3>4, <3>5 DEF Reconcile
  <2> QED BY <2>1, <2>2, <2>3 DEF Next
<1> QED BY <1>1, <1>2

(* Every step keeps the slots, while reconciles do not overlap.            *)
LEMMA StepSlot ==
  ASSUME OneAtATime
  PROVE  TypeInv /\ ControlInv /\ JobInv /\ SlotInv /\ [Next]_vars => SlotInv'
<1> SUFFICES ASSUME TypeInv, ControlInv, JobInv, SlotInv, [Next]_vars PROVE SlotInv' OBVIOUS
<1>1. CASE \/ RequestCancel \/ EditInventory \/ FinishJob \/ ExpireJob \/ Resync \/ Crash \/ Restart
           \/ UNCHANGED vars
  BY <1>1, WorldSlots
<1>2. ASSUME NEW w \in Workers, FireTimer(w) \/ Reconcile(w) PROVE SlotInv'
  <2> SUFFICES ASSUME faults' = 0 PROVE SlotsInv' BY DEF SlotInv
  <2>1. SlotsInv
    <3>1. Next BY <1>2 DEF Next
    <3> QED BY <3>1, FaultsCount DEF SlotInv
  <2>2. CASE FireTimer(w) BY <2>1, <2>2, FireTimerSlots
  <2>3. CASE Reconcile(w)
    BY <2>1, <2>3, PatchEndSlots, StartSlots, PollSlots, RefillSlots, StartPendingSlots DEF Reconcile
  <2> QED BY <1>2, <2>2, <2>3
<1> QED BY <1>1, <1>2 DEF Next

(* Every step keeps what terminal shards say of their Jobs.                *)
LEMMA StepJob ==
  ASSUME OneAtATime
  PROVE  TypeInv /\ ControlInv /\ JobInv /\ [Next]_vars => JobInv'
<1> SUFFICES ASSUME TypeInv, ControlInv, JobInv, [Next]_vars PROVE JobInv' OBVIOUS
<1>1. CASE \/ RequestCancel \/ EditInventory \/ FinishJob \/ ExpireJob \/ Resync \/ Crash \/ Restart
           \/ UNCHANGED vars
  BY <1>1, WorldJob
<1>2. ASSUME NEW w \in Workers, FireTimer(w) \/ Reconcile(w) PROVE JobInv' BY <1>2, ReconcileJob
<1> QED BY <1>1, <1>2 DEF Next

(* Active Jobs have taken slots.                                           *)
LEMMA SlotsBound ==
  ASSUME TypeInv, JobInv, SlotInv
  PROVE  ConcurrencyLimit
<1> SUFFICES ASSUME faults = 0 PROVE Cardinality(ActiveJobs) <= MaxConcurrentRuns BY DEF ConcurrencyLimit
<1>1. StoredSlots BY DEF SlotInv, SlotsInv
<1>2. cr.shards \in ShardSeqs BY DEF TypeInv, RunsTyped
<1>3. DOMAIN cr.shards = 1..Len(cr.shards) /\ Len(cr.shards) \in Nat BY <1>2, ShardSeqFacts
<1>4. MaxConcurrentRuns \in Nat BY ParallelAssumption
<1>5. \A k \in ActiveJobs : k \in Indices /\ k \in Nat /\ k >= 1 /\ (k <= MaxConcurrentRuns \/ k \in DOMAIN cr.shards)
  BY MaxShardsBound DEF ActiveJobs, JobInv, Exists, Indices
<1>6. CASE Len(cr.shards) >= MaxConcurrentRuns
  <2>1. ActiveJobs \subseteq DOMAIN cr.shards BY <1>3, <1>4, <1>5, <1>6
  <2>2. ActiveJobs \subseteq Taken
    <3>1. \A k \in DOMAIN cr.shards : cr.shards[k].phase \in ShardPhases BY <1>2, ShardSeqFacts
    <3> QED BY <3>1, <2>1, <1>1 DEF ActiveJobs, Taken, StoredSlots, Over, Active, Exists, ShardPhases
  <2>3. Taken \subseteq DOMAIN cr.shards BY DEF Taken
  <2>4. IsFiniteSet(Taken) /\ Cardinality(Taken) \in Nat BY <2>3, <1>2, FiniteShards
  <2>5. Cardinality(ActiveJobs) \in Nat /\ Cardinality(ActiveJobs) <= Cardinality(Taken)
    BY <2>2, <2>4, FS_Subset, FS_CardinalityType
  <2> QED BY <2>4, <2>5, <1>1, <1>4 DEF StoredSlots
<1>7. CASE ~(Len(cr.shards) >= MaxConcurrentRuns)
  <2>1. ActiveJobs \subseteq 1..MaxConcurrentRuns BY <1>3, <1>4, <1>5, <1>7
  <2>2. 1 \in Int /\ MaxConcurrentRuns \in Int BY <1>4
  <2>3. IsFiniteSet(1..MaxConcurrentRuns) /\ Cardinality(1..MaxConcurrentRuns) =
          IF 1 > MaxConcurrentRuns THEN 0 ELSE MaxConcurrentRuns - 1 + 1
    BY <2>2, FS_Interval
  <2>4. Cardinality(ActiveJobs) \in Nat /\ Cardinality(ActiveJobs) <= Cardinality(1..MaxConcurrentRuns)
    BY <2>1, <2>3, FS_Subset, FS_CardinalityType
  <2> QED BY <2>3, <2>4, <1>4
<1> QED BY <1>6, <1>7

(* schemas/src/runs.ts, "at most maxConcurrentRuns are ever in flight at   *)
(* once for this run": the two loops of run-controller.ts that start       *)
(* shards (541-549 and 793-815) keep to it between them, whatever the      *)
(* number of shards and wherever the operator crashes, as long as          *)
(* reconciles of the run do not overlap.                                   *)
THEOREM ConcurrencyLimitHolds ==
  ASSUME OneAtATime
  PROVE  Spec => []ConcurrencyLimit
<1> DEFINE IInv == TypeInv /\ ControlInv /\ JobInv /\ SlotInv
<1>1. Init => IInv BY InitTyped, InitControl, InitJob, InitSlots
<1>2. IInv /\ [Next]_vars => IInv' BY StepTyped, StepControl, StepJob, StepSlot
<1>3. IInv => ConcurrencyLimit BY SlotsBound
<1> HIDE DEF IInv
<1> QED BY <1>1, <1>2, <1>3, PTL DEF Spec

-----------------------------------------------------------------------------
(***************************************************************************)
(* Jobs that are active are on record, or about to be, while no call fails *)
(* and the operator does not crash.                                        *)
(***************************************************************************)

(* A reconcile that will record shard k as Running.                        *)
Recording(w, k) ==
  /\ pc[w] \in {"startShards", "patchRunning", "startPending", "patchShards", "patchFinal"}
  /\ k \in DOMAIN updated[w] /\ updated[w][k].phase = "Running"

(* The stored status has shard k running.                                  *)
Stored(k) == k \in DOMAIN cr.shards /\ cr.shards[k].phase = "Running"

OnRecord(k) == Stored(k) \/ \E w \in Workers : Recording(w, k)

StepRecords(w) ==
  /\ pc[w] # "patchError"
  /\ pc[w] = "deleteJobs" => ActiveJobs \subseteq todo[w]
  /\ pc[w] = "patchCancelled" => ActiveJobs = {}

RecordsInv ==
  /\ \A k \in ActiveJobs : OnRecord(k)
  /\ cr.phase \in Terminal => ActiveJobs = {}
  /\ \A w \in Workers : StepRecords(w)

RecordInv == faults = 0 /\ crashes = 0 => RecordsInv

-----------------------------------------------------------------------------
(* A step of one reconcile, when it is the only one under way.             *)
LEMMA ToRecords ==
  ASSUME TypeInv, ControlInv, OneAtATime, NEW w \in Workers, FireTimer(w) \/ Reconcile(w),
         \A k \in ActiveJobs' : Stored(k)' \/ Recording(w, k)',
         cr'.phase \in Terminal => ActiveJobs' = {}, StepRecords(w)'
  PROVE  RecordsInv'
<1>1. \A v \in Workers : v # w => pc'[v] = "idle" BY OthersIdle
<1>2. \A v \in Workers : v # w => StepRecords(v)' BY <1>1 DEF StepRecords
<1>3. \A k \in ActiveJobs' : OnRecord(k)' BY DEF OnRecord
<1> QED BY <1>2, <1>3 DEF RecordsInv

(* What is on record before a reconcile's step: its own records or stored. *)
LEMMA OwnRecords ==
  ASSUME TypeInv, ControlInv, OneAtATime, RecordsInv, NEW w \in Workers, Reconcile(w),
         NEW k \in ActiveJobs
  PROVE  Stored(k) \/ Recording(w, k)
<1>1. \A v \in Workers : v # w => pc[v] = "idle" BY OthersIdle
<1>2. \A v \in Workers : v # w => ~Recording(v, k) BY <1>1 DEF Recording
<1> QED BY <1>2 DEF RecordsInv, OnRecord

LEMMA InitRecords == Init => RecordInv
<1> SUFFICES ASSUME Init PROVE RecordsInv BY DEF RecordInv
<1>1. ActiveJobs = {} BY DEF Init, ActiveJobs, NoJob
<1> QED BY <1>1 DEF Init, RecordsInv, StepRecords

(* Users and Kubernetes create no Job.                                     *)
LEMMA WorldRecords ==
  ASSUME TypeInv, RecordInv,
         \/ RequestCancel \/ EditInventory \/ FinishJob \/ ExpireJob \/ Resync \/ Crash \/ Restart
         \/ UNCHANGED vars
  PROVE  RecordInv'
<1> SUFFICES ASSUME faults' = 0, crashes' = 0 PROVE RecordsInv' BY DEF RecordInv
<1>1. ~Crash
  <2>1. crashes \in Nat BY ParallelAssumption DEF TypeInv, WorldTyped
  <2> QED BY <2>1 DEF Crash
<1>2. RecordsInv
  BY <1>1 DEF RecordInv, RequestCancel, EditInventory, FinishJob, ExpireJob, Resync, Restart, vars
<1>3. cr'.phase = cr.phase /\ cr'.shards = cr.shards /\ UNCHANGED localVars
  BY <1>1 DEF RequestCancel, EditInventory, FinishJob, ExpireJob, Resync, Restart, runVars, vars,
              TypeInv, RunsTyped
<1>4. ActiveJobs' \subseteq ActiveJobs
  <2>1. CASE FinishJob BY <2>1, FinishEffect DEF ActiveJobs, Active
  <2>2. CASE ExpireJob
    <3>1. PICK k \in Indices : RemoveJob(k) BY <2>2 DEF ExpireJob
    <3>2. (\A l \in Indices : l # k => jobs'[l] = jobs[l]) /\ jobs'[k] = NoJob BY <3>1, RemoveJobEffect
    <3> QED BY <3>2 DEF ActiveJobs, NoJob
  <2>3. CASE jobs' = jobs BY <2>3 DEF ActiveJobs
  <2> QED BY <1>1, <2>1, <2>2, <2>3 DEF RequestCancel, EditInventory, Resync, Restart, jobVars, vars
<1>5. \A k : OnRecord(k) => OnRecord(k)' BY <1>3 DEF OnRecord, Stored, Recording, localVars
<1>6. \A w \in Workers : StepRecords(w)' BY <1>2, <1>3, <1>4 DEF RecordsInv, StepRecords, localVars
<1> QED BY <1>2, <1>3, <1>4, <1>5, <1>6 DEF RecordsInv

LEMMA FireTimerRecords ==
  ASSUME TypeInv, ControlInv, OneAtATime, RecordsInv, NEW w \in Workers, FireTimer(w)
  PROVE  RecordsInv'
<1>1. cr' = cr /\ ActiveJobs' = ActiveJobs BY DEF FireTimer, jobVars, ActiveJobs
<1>2. \A v \in Workers : pc[v] = "idle" BY DEF FireTimer, OneAtATime
<1>3. \A k \in ActiveJobs : Stored(k) BY <1>2 DEF RecordsInv, OnRecord, Recording
<1>4. \A k \in ActiveJobs' : Stored(k)' BY <1>1, <1>3 DEF Stored
<1>5. StepRecords(w)'
  <2>1. CASE cr.phase \in Terminal
    <3>1. pc' = pc BY <2>1 DEF FireTimer, localVars
    <3> QED BY <3>1, <1>2 DEF StepRecords
  <2>2. CASE cr.phase \notin Terminal
    <3>1. /\ pc'[w] = EntryStep(cr)
          /\ todo'[w] = IF EntryStep(cr) = "deleteJobs" THEN DOMAIN cr.shards \ InPhase(cr.shards, "Pending")
                        ELSE ToPoll(cr.shards)
      BY <2>2 DEF FireTimer, TypeInv, LocalTyped
    <3>2. EntryStep(cr) # "patchError" BY DEF EntryStep
    <3>3. EntryStep(cr) = "patchCancelled" => InPhase(cr.shards, "Pending") = DOMAIN cr.shards
      BY DEF EntryStep
    <3>4. EntryStep(cr) = "patchCancelled" => ActiveJobs = {} BY <3>3, <1>3 DEF Stored, InPhase
    <3>5. EntryStep(cr) = "deleteJobs" => ActiveJobs \subseteq todo'[w]
      BY <3>1, <1>3 DEF Stored, InPhase
    <3> QED BY <3>1, <3>2, <3>4, <3>5, <1>1 DEF StepRecords
  <2> QED BY <2>1, <2>2
<1> QED BY <1>1, <1>4, <1>5, ToRecords DEF RecordsInv

(* A status patch that succeeds is stored.                                 *)
LEMMA PatchStored ==
  ASSUME TypeInv, NEW w \in Workers, NEW phase, NEW shards, NEW answer,
         PatchRunStatus(w, phase, shards, answer), faults' = 0
  PROVE  answer = "ok" /\ cr'.phase = phase /\ cr'.shards = IF shards # <<>> THEN shards ELSE cr.shards
<1>1. cr \in [cancel: BOOLEAN, phase: Phases, shards: ShardSeqs] BY DEF TypeInv, RunsTyped
<1>2. PICK s : s = IF shards # <<>> THEN shards ELSE cr.shards OBVIOUS
<1>3. answer = "ok" BY SpendTyped DEF PatchRunStatus
<1>4. cr' = [cr EXCEPT !.phase = phase, !.shards = s]
  BY <1>2, <1>3 DEF PatchRunStatus
<1> HIDE DEF ShardSeqs, Phases
<1> QED BY <1>1, <1>2, <1>3, <1>4

(* Storing the status puts the reconcile's Jobs on record.                 *)
LEMMA PatchEndRecords ==
  ASSUME TypeInv, ControlInv, OneAtATime, SlotsInv, RecordsInv, NEW w \in Workers, faults' = 0,
         \/ PatchCancelled(w) \/ PatchRunning(w) \/ PatchEmpty(w) \/ PatchError(w)
         \/ PatchShards(w) \/ PatchFinal(w)
  PROVE  RecordsInv'
<1>0. StepInv(w) /\ StoredInv /\ StepSlots(w) /\ StepRecords(w)
  BY DEF ControlInv, SlotsInv, RecordsInv
<1>1. Reconcile(w) BY DEF Reconcile
<1>2. Return(w) /\ ActiveJobs' = ActiveJobs
  BY DEF PatchCancelled, PatchRunning, PatchEmpty, PatchError, PatchShards, PatchFinal, jobVars, ActiveJobs
<1>3. StepRecords(w)' BY <1>2, ResetPc DEF Return, StepRecords
<1>4. \A k \in ActiveJobs : Stored(k) \/ Recording(w, k) BY <1>1, OwnRecords
<1>5. /\ \A k \in ActiveJobs : Stored(k)'
      /\ cr'.phase \in Terminal => ActiveJobs = {}
  <2>1. CASE PatchCancelled(w)
    <3>1. ActiveJobs = {} BY <2>1, <1>0 DEF PatchCancelled, StepRecords
    <3> QED BY <3>1
  <2>2. CASE PatchError(w) BY <2>2, <1>0 DEF PatchError, StepRecords
  <2>3. CASE PatchEmpty(w)
    <3>1. cr.shards = <<>> /\ pc[w] = "patchEmpty"
      BY <2>3, <1>0 DEF PatchEmpty, StepInv, StartInv, StartSteps, StoredInv
    <3>2. DOMAIN cr.shards = {} BY <3>1
    <3>3. ActiveJobs = {} BY <3>1, <3>2, <1>4 DEF Stored, Recording
    <3> QED BY <3>3
  <2>4. CASE PatchRunning(w)
    <3>1. PICK answer : PatchRunStatus(w, "Running", updated[w], answer) BY <2>4 DEF PatchRunning
    <3>2. cr.shards = <<>> BY <2>4, <1>0 DEF PatchRunning, StepInv, StartInv, StartSteps, StoredInv
    <3>3. DOMAIN cr.shards = {} BY <3>2
    <3>4. cr'.phase = "Running" /\ cr'.shards = IF updated[w] # <<>> THEN updated[w] ELSE cr.shards
      BY <3>1, PatchStored
    <3>5. cr'.shards = updated[w] BY <3>2, <3>4
    <3> QED BY <3>3, <3>4, <3>5, <1>4 DEF Stored, Recording, Terminal
  <2>5. CASE PatchShards(w) \/ PatchFinal(w)
    <3>1. PICK phase, answer : /\ PatchRunStatus(w, phase, updated[w], answer)
                               /\ phase = "Running" \/ pc[w] = "patchFinal"
      <4>1. PatchShards(w) => obj[w].phase = "Running"
        BY <1>0 DEF PatchShards, StepInv, PollInv, PollSteps, Follows
      <4> QED BY <2>5, <4>1 DEF PatchShards, PatchFinal
    <3>2. Follows(w, updated[w], TRUE) /\ LeftToDo(w) /\ Over(updated[w])
      BY <2>5, <1>0 DEF PatchShards, PatchFinal, StepInv, PollInv, PollSteps, Follows, StepSlots
    <3>3. updated[w] # <<>>
      <4>1. cr.shards # <<>> BY <3>2, <1>0 DEF Follows, StoredInv
      <4> QED BY <4>1, <3>2, StepTypes, ShardSeqFacts DEF Follows
    <3>4. cr'.phase = phase /\ cr'.shards = updated[w] BY <3>1, <3>3, PatchStored
    <3>5. \A k \in ActiveJobs : k \in DOMAIN updated[w] /\ updated[w][k].phase = "Running"
      <4>1. TAKE k \in ActiveJobs
      <4>2. CASE Recording(w, k) BY <4>2 DEF Recording
      <4>3. CASE Stored(k)
        BY <4>3, <3>2 DEF Stored, Follows, Over, Active, ActiveJobs, TerminalShard
      <4> QED BY <4>2, <4>3, <1>4
    <3>6. pc[w] = "patchFinal" => ActiveJobs = {}
      BY <3>2, <3>5 DEF LeftToDo, AllTerminal, TerminalShard
    <3> QED BY <3>1, <3>4, <3>5, <3>6 DEF Stored, Terminal
  <2> QED BY <2>1, <2>2, <2>3, <2>4, <2>5
<1> QED BY <1>1, <1>2, <1>3, <1>5, ToRecords

(* A Job created by startParallelRun is about to be recorded; a cancelled  *)
(* run's Jobs are deleted.                                                 *)
LEMMA StartRecords ==
  ASSUME TypeInv, ControlInv, OneAtATime, RecordsInv, NEW w \in Workers, faults' = 0,
         DeleteJobs(w) \/ PatchResolving(w) \/ Prepare(w) \/ StartShard(w)
  PROVE  RecordsInv'
<1>0. StepInv(w) /\ StoredInv /\ StepRecords(w) BY DEF ControlInv, RecordsInv
<1>1. Reconcile(w) BY DEF Reconcile
<1>2. \A k \in ActiveJobs : Stored(k) \/ Recording(w, k) BY <1>1, OwnRecords
<1>3. CASE DeleteJobs(w)
  <2>1. PICK k : k = Min(todo[w]) OBVIOUS
  <2>2. RemoveJob(k)
    <3>1. PICK answer : Spend(answer) /\ IF answer = "refused" THEN UNCHANGED jobVars ELSE RemoveJob(k)
      BY <1>3, <2>1 DEF DeleteJobs
    <3> QED BY <3>1, SpendTyped
  <2>3. cr' = cr /\ pc[w] = "deleteJobs" BY <1>3 DEF DeleteJobs
  <2>4. ActiveJobs \subseteq todo[w] BY <2>3, <1>0 DEF StepRecords
  <2>5. ActiveJobs' \subseteq ActiveJobs \ {k}
    <3>1. (\A l \in Indices : l # k => jobs'[l] = jobs[l]) /\ (k \in Indices => jobs'[k] = NoJob)
      BY <2>2, RemoveJobEffect
    <3> QED BY <3>1 DEF ActiveJobs, NoJob
  <2>6. todo'[w] = todo[w] \ {k} BY <1>3, <2>1 DEF DeleteJobs, TypeInv, LocalTyped
  <2>7. PICK step : step = IF Cardinality(todo[w]) = 1 THEN "patchCancelled" ELSE "deleteJobs" OBVIOUS
  <2>8. Goto(w, step) BY <1>3, <2>7 DEF DeleteJobs
  <2>9. pc'[w] = step BY <2>8, GotoPc
  <2>10. step = "patchCancelled" => todo[w] = {k}
    <3>1. SUFFICES ASSUME step = "patchCancelled" PROVE todo[w] = {k} OBVIOUS
    <3>2. Cardinality(todo[w]) = 1 BY <3>1, <2>7
    <3>3. todo[w] # {} /\ todo[w] \subseteq DOMAIN cr.shards \ InPhase(cr.shards, "Pending")
      BY <2>3, <1>0 DEF StepInv, CancelInv, CancelSteps
    <3>4. IsFiniteSet(todo[w])
      <4>1. todo[w] \subseteq DOMAIN cr.shards /\ cr.shards \in ShardSeqs BY <3>3, StepTypes
      <4> QED BY <4>1, FiniteShards
    <3>5. PICK x : todo[w] = {x} BY <3>2, <3>4, FS_Singleton
    <3>6. k \in todo[w] BY <2>1, <3>3, TodoFirst
    <3> QED BY <3>5, <3>6
  <2>11. StepRecords(w)' BY <2>4, <2>5, <2>6, <2>7, <2>9, <2>10 DEF StepRecords
  <2>12. \A l \in ActiveJobs' : Stored(l)' BY <2>3, <2>5, <1>2 DEF Stored, Recording
  <2>13. cr'.phase \in Terminal => ActiveJobs' = {} BY <2>3, <2>5 DEF RecordsInv
  <2> QED BY <2>11, <2>12, <2>13, <1>1, ToRecords
<1>4. CASE PatchResolving(w) \/ Prepare(w)
  <2>1. cr.shards = <<>> /\ pc[w] \in {"patchResolving", "prepare"}
    BY <1>4, <1>0 DEF PatchResolving, Prepare, StepInv, StartInv, StartSteps, StoredInv
  <2>2. DOMAIN cr.shards = {} BY <2>1
  <2>3. ActiveJobs = {} BY <2>1, <2>2, <1>2 DEF Stored, Recording
  <2>4. ActiveJobs' = {} BY <1>4, <2>3 DEF PatchResolving, Prepare, jobVars, ActiveJobs
  <2>5. pc'[w] # "patchError"
    <3>1. CASE PatchResolving(w)
      <4>1. PICK answer : /\ PatchRunStatus(w, "Resolving", obj[w].shards, answer)
                          /\ Goto(w, IF answer = "ok" THEN "prepare" ELSE "patchError")
        BY <3>1 DEF PatchResolving
      <4>2. answer = "ok" BY <4>1, SpendTyped DEF PatchRunStatus
      <4>3. Goto(w, "prepare") BY <4>1, <4>2
      <4> QED BY <4>3, GotoPc
    <3>2. CASE Prepare(w)
      <4>1. ASSUME NEW answer \in {"refused", "lost"}, RenderInventory(answer) PROVE FALSE
        BY <4>1, SpendTyped DEF RenderInventory
      <4>2. PICK shards : pc' = [pc EXCEPT ![w] = IF shards = <<>> THEN "patchEmpty" ELSE "startShards"]
        BY <3>2, <4>1 DEF Prepare
      <4> QED BY <4>2 DEF TypeInv, LocalTyped
    <3> QED BY <1>4, <3>1, <3>2
  <2>6. StepRecords(w)' BY <2>4, <2>5 DEF StepRecords
  <2> QED BY <2>4, <2>6, <1>1, ToRecords
<1>5. CASE StartShard(w)
  <2>0. Planned(w) /\ cr' = cr /\ cr.phase \notin Terminal /\ cr.shards = <<>>
    BY <1>5, <1>0 DEF StartShard, StepInv, PlanInv, StartInv, StartSteps, StoredInv, Terminal
  <2>1. PICK k, limit :
          /\ k = Min(todo[w]) /\ PutJob(k, limit)
          /\ updated' = [updated EXCEPT ![w] = Started(w, k)]
          /\ Goto(w, IF todo[w] = {k} THEN "patchRunning" ELSE "startShards")
    <3>1. PICK answer, k, limit :
          /\ k = Min(todo[w]) /\ Spend(answer)
          /\ IF answer = "refused" THEN UNCHANGED jobVars ELSE PutJob(k, limit)
          /\ \/ answer # "ok"
             \/ /\ updated' = [updated EXCEPT ![w] = Started(w, k)]
                /\ Goto(w, IF todo[w] = {k} THEN "patchRunning" ELSE "startShards")
      BY <1>5 DEF StartShard
    <3>2. answer = "ok" BY <3>1, SpendTyped
    <3> QED BY <3>1, <3>2
  <2>2. k \in todo[w] /\ k \in Indices
    <3>1. todo[w] # {} BY <1>5, <2>0 DEF Planned, StartShard
    <3> QED BY <2>1, <3>1, TodoFirst
  <2>3. ActiveJobs' \subseteq ActiveJobs \cup {k}
    <3>1. \A l \in Indices : l # k => jobs'[l] = jobs[l] BY <2>1, <2>2, PutJobEffect
    <3> QED BY <3>1 DEF ActiveJobs
  <2>4. PICK step \in {"patchRunning", "startShards"} : Goto(w, step) BY <2>1
  <2>5. pc'[w] \in {"patchRunning", "startShards"} BY <2>4, GotoPc
  <2>6. PICK u : u = updated[w] OBVIOUS
  <2>7. PICK t : t = [u EXCEPT ![k].phase = "Running"] OBVIOUS
  <2>8. updated'[w] = t BY <2>1, <2>6, <2>7 DEF Started, TypeInv, LocalTyped
  <2>9. DOMAIN t = DOMAIN u /\ \A l \in DOMAIN u : t[l].phase = IF l = k THEN "Running" ELSE u[l].phase
    <3>1. "Running" \in ShardPhases BY DEF ShardPhases
    <3>2. u \in ShardSeqs BY <2>6, StepTypes
    <3> QED BY <3>1, <3>2, <2>7, SetPhase
  <2>10. k \in DOMAIN u
    <3>1. PICK s : s = ShardHosts(groups[w], MaxAmountOfHosts) OBVIOUS
    <3>2. k \in FirstOf(DOMAIN s, MaxConcurrentRuns) /\ DOMAIN u = DOMAIN s
      BY <2>0, <2>2, <2>6, <3>1 DEF Planned
    <3> QED BY <3>2 DEF FirstOf
  <2>11. \A l \in ActiveJobs : l \in DOMAIN u /\ u[l].phase = "Running"
    <3>1. DOMAIN cr.shards = {} BY <2>0
    <3> QED BY <3>1, <1>2, <2>6 DEF Stored, Recording
  <2>12. \A l \in ActiveJobs' : Recording(w, l)'
    BY <2>3, <2>5, <2>8, <2>9, <2>10, <2>11 DEF Recording
  <2>13. StepRecords(w)' BY <2>5 DEF StepRecords
  <2> QED BY <2>0, <2>12, <2>13, <1>1, ToRecords
<1> QED BY <1>3, <1>4, <1>5

(* Polling creates no Job, and the run is not over.                        *)
LEMMA PollRecords ==
  ASSUME TypeInv, ControlInv, OneAtATime, RecordsInv, NEW w \in Workers, faults' = 0,
         PollShard(w) \/ PatchTtl(w) \/ Refill(w)
  PROVE  RecordsInv'
<1>0. StepInv(w) BY DEF ControlInv
<1>1. Reconcile(w) BY DEF Reconcile
<1>2. cr' = cr /\ pc[w] \in {"pollShards", "patchTtl", "refill"} BY DEF PollShard, PatchTtl, Refill
<1>3. cr.phase = "Running" BY <1>0, <1>2 DEF StepInv, PollInv, PollSteps, Follows
<1>4. \A k \in ActiveJobs : Stored(k)
  <2>1. \A k \in ActiveJobs : Stored(k) \/ Recording(w, k) BY <1>1, OwnRecords
  <2> QED BY <2>1, <1>2 DEF Recording
<1>5. ActiveJobs' \subseteq ActiveJobs
  <2>1. CASE jobs' = jobs BY <2>1 DEF ActiveJobs
  <2>2. CASE \E k : jobs' = [jobs EXCEPT ![k].ttl = TRUE]
    <3>1. PICK k : jobs' = [jobs EXCEPT ![k].ttl = TRUE] BY <2>2
    <3>2. ASSUME NEW l \in Indices PROVE jobs'[l].state = jobs[l].state
      <4>1. CASE l = k
        <5>1. PICK j : j = jobs[k] OBVIOUS
        <5>2. jobs'[k] = [j EXCEPT !.ttl = TRUE] BY <3>1, <4>1, <5>1 DEF TypeInv, JobsTyped
        <5>3. j \in [state: {"absent", "active"} \cup Results, targets: SUBSET InvNames, ttl: BOOLEAN]
          BY <4>1, <5>1 DEF TypeInv, JobsTyped
        <5> QED BY <4>1, <5>1, <5>2, <5>3
      <4>2. CASE l # k BY <3>1, <4>2 DEF TypeInv, JobsTyped
      <4> QED BY <4>1, <4>2
    <3> QED BY <3>2 DEF ActiveJobs
  <2> QED BY <2>1, <2>2 DEF PollShard, PatchTtl, Refill, jobVars
<1>6. pc'[w] \notin {"patchError", "deleteJobs", "patchCancelled"}
  <2>1. ASSUME NEW shards, Conclude(w, shards) PROVE pc'[w] \in {"idle", "patchFinal", "patchShards"}
    BY <2>1, ConcludeUpdated
  <2>2. ASSUME NEW shards, NEW rest, AfterPoll(w, shards, rest)
        PROVE  pc'[w] \in {"idle", "pollShards", "refill", "patchFinal", "patchShards"}
    BY <2>2, AfterPollUpdated
  <2>3. CASE PollShard(w)
    <3>1. CASE Goto(w, "patchTtl") BY <3>1, GotoPc
    <3> QED BY <2>2, <2>3, <3>1 DEF PollShard
  <2>4. CASE PatchTtl(w) BY <2>2, <2>4 DEF PatchTtl
  <2>5. CASE Refill(w)
    <3>1. CASE pc' = [pc EXCEPT ![w] = "startPending"] BY <3>1 DEF TypeInv, LocalTyped
    <3> QED BY <2>1, <2>5, <3>1 DEF Refill
  <2> QED BY <2>3, <2>4, <2>5
<1>7. \A k \in ActiveJobs' : Stored(k)' BY <1>2, <1>4, <1>5 DEF Stored
<1>8. StepRecords(w)' BY <1>6 DEF StepRecords
<1> QED BY <1>1, <1>2, <1>3, <1>7, <1>8, ToRecords DEF Terminal

(* A Job created for a pending shard is about to be recorded.              *)
LEMMA StartPendingRecords ==
  ASSUME TypeInv, ControlInv, OneAtATime, RecordsInv, NEW w \in Workers, faults' = 0, StartPending(w)
  PROVE  RecordsInv'
<1>0. StepInv(w) /\ cr' = cr /\ pc[w] = "startPending" BY DEF ControlInv, StartPending
<1>1. Reconcile(w) BY DEF Reconcile
<1>2. /\ Follows(w, updated[w], TRUE) /\ todo[w] # {} /\ todo[w] \subseteq InPhase(updated[w], "Pending")
  BY <1>0 DEF StepInv, PollInv, PollSteps, LeftToDo
<1>3. PICK k, limit :
          /\ k = Min(todo[w])
          /\ PutJob(k, limit)
          /\ \/ Conclude(w, Started(w, k))
             \/ /\ Goto(w, "startPending")
                /\ updated' = [updated EXCEPT ![w] = Started(w, k)]
  <2>1. PICK answer, k, limit :
          /\ k = Min(todo[w]) /\ Spend(answer)
          /\ IF answer = "refused" THEN UNCHANGED jobVars ELSE PutJob(k, limit)
          /\ \/ answer # "ok"
             \/ Conclude(w, Started(w, k))
             \/ /\ Goto(w, "startPending")
                /\ updated' = [updated EXCEPT ![w] = Started(w, k)]
    BY DEF StartPending
  <2>2. answer = "ok" BY <2>1, SpendTyped
  <2> QED BY <2>1, <2>2
<1>4. k \in todo[w] /\ k \in Indices BY <1>2, <1>3, TodoFirst
<1>5. ActiveJobs' \subseteq ActiveJobs \cup {k}
  <2>1. \A l \in Indices : l # k => jobs'[l] = jobs[l] BY <1>3, <1>4, PutJobEffect
  <2> QED BY <2>1 DEF ActiveJobs
<1>6. PICK u : u = updated[w] OBVIOUS
<1>7. PICK t : t = [u EXCEPT ![k].phase = "Running"] OBVIOUS
<1>8. t = Started(w, k) BY <1>6, <1>7 DEF Started
<1>9. DOMAIN t = DOMAIN u /\ \A l \in DOMAIN u : t[l].phase = IF l = k THEN "Running" ELSE u[l].phase
  <2>1. "Running" \in ShardPhases BY DEF ShardPhases
  <2>2. u \in ShardSeqs BY <1>6, StepTypes
  <2> QED BY <2>1, <2>2, <1>7, SetPhase
<1>10. \A l \in ActiveJobs' : Stored(l) \/ (l \in DOMAIN t /\ t[l].phase = "Running")
  <2>1. \A l \in ActiveJobs : Stored(l) \/ Recording(w, l) BY <1>1, OwnRecords
  <2>2. k \in DOMAIN u BY <1>2, <1>4, <1>6 DEF InPhase
  <2> QED BY <2>1, <2>2, <1>5, <1>6, <1>9 DEF Recording
<1>11. /\ pc'[w] \in {"idle", "patchFinal", "patchShards", "startPending"}
       /\ updated'[w] = t \/ (t = cr.shards)
       /\ pc'[w] = "idle" => t = cr.shards
  <2>1. CASE Conclude(w, t)
    <3>1. obj[w].shards = cr.shards BY <1>2 DEF Follows
    <3> QED BY <2>1, <3>1, ConcludeUpdated
  <2>2. CASE Goto(w, "startPending") /\ updated' = [updated EXCEPT ![w] = t]
    <3>1. pc'[w] = "startPending" BY <2>2, GotoPc
    <3>2. updated'[w] = t BY <2>2 DEF TypeInv, LocalTyped
    <3> QED BY <3>1, <3>2
  <2> QED BY <1>3, <1>8, <2>1, <2>2
<1>12. \A l \in ActiveJobs' : Stored(l)' \/ Recording(w, l)'
  BY <1>0, <1>10, <1>11 DEF Stored, Recording
<1>13. StepRecords(w)' BY <1>11 DEF StepRecords
<1>14. cr'.phase \notin Terminal BY <1>0, <1>2 DEF Follows, Terminal
<1> QED BY <1>1, <1>12, <1>13, <1>14, ToRecords

(* Every step keeps active Jobs on record, unless a call fails or a crash  *)
(* comes in between.                                                       *)
LEMMA StepRecord ==
  ASSUME OneAtATime
  PROVE  TypeInv /\ ControlInv /\ SlotInv /\ RecordInv /\ [Next]_vars => RecordInv'
<1> SUFFICES ASSUME TypeInv, ControlInv, SlotInv, RecordInv, [Next]_vars PROVE RecordInv' OBVIOUS
<1>1. CASE \/ RequestCancel \/ EditInventory \/ FinishJob \/ ExpireJob \/ Resync \/ Crash \/ Restart
           \/ UNCHANGED vars
  BY <1>1, WorldRecords
<1>2. ASSUME NEW w \in Workers, FireTimer(w) \/ Reconcile(w) PROVE RecordInv'
  <2> SUFFICES ASSUME faults' = 0, crashes' = 0 PROVE RecordsInv' BY DEF RecordInv
  <2>1. SlotsInv /\ RecordsInv
    <3>1. Next BY <1>2 DEF Next
    <3>2. faults = 0 BY <3>1, FaultsCount
    <3>3. crashes' = crashes
      BY <1>2 DEF FireTimer, Reconcile, DeleteJobs, PatchCancelled, PatchResolving, Prepare, StartShard,
        PatchRunning, PatchEmpty, PatchError, PollShard, PatchTtl, Refill, StartPending, PatchShards, PatchFinal
    <3> QED BY <3>2, <3>3 DEF SlotInv, RecordInv
  <2>2. CASE FireTimer(w) BY <2>1, <2>2, FireTimerRecords
  <2>3. CASE Reconcile(w)
    BY <2>1, <2>3, PatchEndRecords, StartRecords, PollRecords, StartPendingRecords DEF Reconcile
  <2> QED BY <1>2, <2>2, <2>3
<1> QED BY <1>1, <1>2 DEF Next

(* What the records say of the result.                                     *)
LEMMA RecordsTell ==
  ASSUME TypeInv, StoredInv, JobInv, RecordInv
  PROVE  ResultOfAllShards
<1>1. Backed(cr.shards) BY DEF JobInv
<1>2. cr.phase = "Succeeded" => \A k \in DOMAIN cr.shards : "succeeded" \in outcomes[k]
  BY <1>1 DEF StoredInv, Backed
<1>3. cr.phase = "Failed" => \E k \in DOMAIN cr.shards :
        "failed" \in outcomes[k] \/ cr.shards[k].phase = "Error"
  BY <1>1 DEF StoredInv, Backed
<1> QED BY <1>2, <1>3 DEF RecordInv, RecordsInv, ResultOfAllShards

(* A run that is over accounts for its shards (FinalPhase, pollShardJob    *)
(* and the cancellation in reconcileRun): it succeeded only if a Job of    *)
(* each shard did, failed only if one did or was lost, and left no Job     *)
(* running unless a call failed or the operator crashed.                   *)
THEOREM ResultOfAllShardsHolds ==
  ASSUME OneAtATime
  PROVE  Spec => []ResultOfAllShards
<1> DEFINE IInv == TypeInv /\ ControlInv /\ JobInv /\ SlotInv /\ RecordInv
<1>1. Init => IInv BY InitTyped, InitControl, InitJob, InitSlots, InitRecords
<1>2. IInv /\ [Next]_vars => IInv' BY StepTyped, StepControl, StepJob, StepSlot, StepRecord
<1>3. IInv => ResultOfAllShards BY RecordsTell DEF ControlInv
<1> HIDE DEF IInv
<1> QED BY <1>1, <1>2, <1>3, PTL DEF Spec

-----------------------------------------------------------------------------
(***************************************************************************)
(* The hosts: whatever the interleaving of failures, crashes, cancellation *)
(* and edits, a shard is a fixed part of the hosts, and it either has      *)
(* begun, then each of its hosts was acted on once, or its hosts are       *)
(* untouched.                                                              *)
(***************************************************************************)

(* An inventory that lists hosts may be regrouped, and no more than that.  *)
HostsStay ==
  "drift" \in Env => \A edit \in Edits : Listed(edit[1]) \in {<<>>, Listed(edit[2])}

(* Hosts have one key, one name and one inventory name each.               *)
HostsNamed == Named(Hosts)

(* The shards of the inventory as it is now.                               *)
Plan == ShardHosts(inventory, MaxAmountOfHosts)

(* Every host of shard k was acted on once, or none was.                   *)
Began(k) == \A h \in Plan[k].limit : acted[h] = 1
Fresh(k) == \A h \in Plan[k].limit : acted[h] = 0

(* Shard k has a Job, or had one that is on record.                        *)
ShardBegan(k) == Exists(k) \/ (k \in DOMAIN cr.shards /\ cr.shards[k].phase # "Pending")

(* What was rendered or resolved lists the inventory's hosts, or none.     *)
RenderedInv ==
  /\ Listed(configMap) \in {<<>>, Listed(inventory)}
  /\ \A w \in Workers :
       /\ Listed(groups[w]) \in {<<>>, Listed(inventory)}
       /\ pc[w] = "startPending" => Listed(groups[w]) = Listed(inventory)
       /\ pc[w] = "patchEmpty" => Listed(configMap) = <<>>
  /\ cr.phase = "Succeeded" /\ cr.shards = <<>> => Listed(configMap) = <<>>

(* Shards on record, and those with a Job, are as planned.                 *)
ShardInv ==
  /\ cr.shards # <<>> =>
       /\ DOMAIN cr.shards = DOMAIN Plan
       /\ \A k \in DOMAIN Plan : cr.shards[k].hostNames = Plan[k].hostNames
  /\ \A k \in Indices : IF Exists(k) THEN k \in DOMAIN Plan /\ jobs[k].targets = Plan[k].limit
                                     ELSE jobs[k].targets = {}

(* Hosts were acted on if their shard has begun.                           *)
ActedInv ==
  /\ \A k \in DOMAIN Plan : (ShardBegan(k) => Began(k)) /\ (~ShardBegan(k) => Fresh(k))
  /\ \A h \in InvNames : (\A k \in DOMAIN Plan : h \notin Plan[k].limit) => acted[h] = 0

HostInv == RenderedInv /\ ShardInv /\ ActedInv

-----------------------------------------------------------------------------
(* An inventory without groups lists nobody.                               *)
LEMMA NothingListed == Listed(<<>>) = <<>>
<1>1. Flatten(<<>>) = <<>>
  <2>1. Len(<<>>) = 0 OBVIOUS
  <2> QED BY <2>1 DEF Flatten, FlattenSeq
<1>2. PICK T : T = {} OBVIOUS
<1>3. <<>> \in Seq(T) OBVIOUS
<1>4. PICK d : d = DistinctHosts(<<>>) OBVIOUS
<1>5. d \in Seq(T) BY <1>3, <1>4, DistinctHostsCorrect
<1>6. d = <<>>
  <2>1. Len(d) = 0
    <3>1. SUFFICES ASSUME Len(d) # 0 PROVE FALSE OBVIOUS
    <3>2. d[1] \in T BY <3>1, <1>5
    <3> QED BY <3>2, <1>2
  <2> QED BY <2>1, <1>5
<1> QED BY <1>1, <1>4, <1>6 DEF Listed

(* An inventory has shards if it lists hosts.                              *)
LEMMA ListedShards ==
  ASSUME NEW g \in Inventories, NEW s, s = ShardHosts(g, MaxAmountOfHosts)
  PROVE  /\ Listed(g) = <<>> => DOMAIN s = {}
         /\ s = <<>> => Listed(g) = <<>>
<1>1. PICK d : d = Listed(g) OBVIOUS
<1>2. g \in Seq(Seq(Hosts)) /\ MaxAmountOfHosts \in Nat \ {0} BY ParallelAssumption
<1>3. ShardsOf(Hosts, d, MaxAmountOfHosts, s) BY <1>1, <1>2, ShardHostsCorrect DEF Listed
<1>4. DOMAIN s = 1..NumShards(Len(d), MaxAmountOfHosts) /\ Len(s) = NumShards(Len(d), MaxAmountOfHosts)
  BY <1>3 DEF ShardsOf
<1>5. d \in Seq(Hosts)
  <2>1. Flatten(g) \in Seq(Hosts) BY <1>2, FlattenType DEF Flatten
  <2> QED BY <2>1, <1>1, DistinctHostsCorrect DEF Listed
<1>6. ASSUME d = <<>>, NEW k \in DOMAIN s PROVE FALSE
  <2>1. Len(d) = 0 /\ 0 \in Nat BY <1>6
  <2>2. k \in 1..NumShards(0, MaxAmountOfHosts) BY <2>1, <1>4
  <2>3. \E i \in Positions(0, MaxAmountOfHosts, k) : i \in 1..0
    BY <2>1, <2>2, <1>2, PositionsPartition
  <2> QED BY <2>3
<1>7. ASSUME s = <<>> PROVE d = <<>>
  <2>1. NumShards(Len(d), MaxAmountOfHosts) = 0 BY <1>4, <1>7
  <2>2. Len(d) = 0
    <3>1. Len(d) \in Nat BY <1>5
    <3> QED BY <3>1, <2>1, <1>2, SomeShards
  <2> QED BY <2>2, <1>5
<1> QED BY <1>1, <1>6, <1>7

(* The shards of the inventory as it is.                                   *)
LEMMA PlanFacts ==
  ASSUME TypeInv, HostsNamed
  PROVE  /\ inventory \in Inventories
         /\ ShardsCover(Plan, AnsibleTargets(inventory, {}), MaxAmountOfHosts)
         /\ DOMAIN Plan \subseteq Indices
         /\ \A k \in DOMAIN Plan : Plan[k].limit \subseteq InvNames
<1>1. inventory \in Inventories BY DEF TypeInv, WorldTyped
<1>2. inventory \in Seq(Seq(Hosts)) /\ MaxAmountOfHosts \in Nat \ {0} BY <1>1, ParallelAssumption
<1>3. ShardsCover(Plan, AnsibleTargets(inventory, {}), MaxAmountOfHosts)
  BY <1>2, ShardHostsCover DEF HostsNamed, Plan
<1>4. DOMAIN Plan \subseteq Indices BY <1>1, PendingShards DEF Plan
<1>5. \A k \in DOMAIN Plan : Plan[k].limit \subseteq InvNames
  <2>1. AnsibleTargets(inventory, {}) \subseteq InvNames BY <1>1, InventoryTyped
  <2> QED BY <2>1, <1>3 DEF ShardsCover
<1> QED BY <1>1, <1>3, <1>4, <1>5

-----------------------------------------------------------------------------
(* What a step may do to the ConfigMap and the resolved groups.            *)
LEMMA ToRendered ==
  ASSUME RenderedInv, inventory' = inventory, configMap' \in {configMap, inventory},
         \A v \in Workers : groups'[v] \in {groups[v], inventory, <<>>},
         \A v \in Workers : pc'[v] = "startPending" =>
           groups'[v] = inventory \/ (pc[v] = "startPending" /\ groups'[v] = groups[v]),
         \A v \in Workers : pc'[v] = "patchEmpty" => Listed(configMap') = <<>>,
         cr'.phase = "Succeeded" /\ cr'.shards = <<>> => Listed(configMap') = <<>>
  PROVE  RenderedInv'
<1>1. Listed(configMap)' = Listed(configMap') /\ Listed(inventory)' = Listed(inventory) BY DEF Listed
<1>2. \A v \in Workers : Listed(groups[v])' = Listed(groups'[v]) BY DEF Listed
<1>3. Listed(configMap') \in {<<>>, Listed(inventory)} BY DEF RenderedInv
<1>4. \A v \in Workers : Listed(groups'[v]) \in {<<>>, Listed(inventory)}
  BY NothingListed DEF RenderedInv
<1>5. \A v \in Workers : pc'[v] = "startPending" => Listed(groups'[v]) = Listed(inventory)
  BY DEF RenderedInv
<1> QED BY <1>1, <1>2, <1>3, <1>4, <1>5 DEF RenderedInv

(* Steps that create no Job.                                               *)
LEMMA ShardsKept ==
  ASSUME TypeInv, HostsNamed, ShardInv, ActedInv, inventory' = inventory, acted' = acted,
         \A k \in Indices : IF Exists(k)' THEN Exists(k) /\ jobs'[k].targets = jobs[k].targets
                                          ELSE jobs'[k].targets = {},
         cr'.shards # <<>> =>
           /\ DOMAIN cr'.shards = DOMAIN Plan
           /\ \A k \in DOMAIN Plan : cr'.shards[k].hostNames = Plan[k].hostNames,
         \A k \in DOMAIN Plan : (ShardBegan(k)' => ShardBegan(k)) /\ (ShardBegan(k) => ShardBegan(k)')
  PROVE  ShardInv' /\ ActedInv'
<1>1. Plan' = Plan BY DEF Plan
<1>2. ShardInv' BY <1>1 DEF ShardInv
<1>3. \A k : (Began(k) => Began(k)') /\ (Fresh(k) => Fresh(k)') BY <1>1 DEF Began, Fresh
<1>4. ActedInv' BY <1>1, <1>3 DEF ActedInv
<1> QED BY <1>2, <1>4

(* A shard's Job is created for its hosts, and finds them untouched.       *)
LEMMA PutJobHosts ==
  ASSUME TypeInv, HostsNamed, ShardInv, ActedInv, inventory' = inventory, cr' = cr,
         NEW k \in DOMAIN Plan, PutJob(k, Plan[k].limit),
         AnsibleTargets(configMap, Plan[k].limit) = Plan[k].limit,
         ~Exists(k) => ~ShardBegan(k)
  PROVE  ShardInv' /\ ActedInv'
<1>0. k \in Indices BY PlanFacts
<1>1. CASE Exists(k) /\ jobs' = jobs /\ acted' = acted
  <2>1. \A l \in Indices : IF Exists(l)' THEN Exists(l) /\ jobs'[l].targets = jobs[l].targets
                                         ELSE jobs'[l].targets = {}
    BY <1>1 DEF ShardInv, Exists
  <2>2. \A l : (ShardBegan(l)' => ShardBegan(l)) /\ (ShardBegan(l) => ShardBegan(l)')
    BY <1>1 DEF ShardBegan, Exists
  <2> QED BY <1>1, <2>1, <2>2, ShardsKept DEF ShardInv
<1>2. CASE /\ ~Exists(k)
           /\ jobs'[k] = [state |-> "active", targets |-> AnsibleTargets(configMap, Plan[k].limit), ttl |-> FALSE]
           /\ \A h \in InvNames : acted'[h] = IF h \in AnsibleTargets(configMap, Plan[k].limit) /\ acted[h] < 2
                                              THEN acted[h] + 1 ELSE acted[h]
  <2>1. PICK p : p = Plan OBVIOUS
  <2>2. Plan' = p BY <2>1 DEF Plan
  <2>3. /\ \A l, m \in DOMAIN p : p[l].limit \cap p[m].limit # {} => l = m
        /\ \A l \in DOMAIN p : p[l].limit \subseteq InvNames
        /\ DOMAIN p \subseteq Indices
    BY <2>1, PlanFacts DEF ShardsCover
  <2>4. jobs'[k].state = "active" /\ jobs'[k].targets = p[k].limit
    <3>1. PICK targets : targets = AnsibleTargets(configMap, Plan[k].limit) OBVIOUS
    <3>2. jobs'[k] = [state |-> "active", targets |-> targets, ttl |-> FALSE] BY <1>2, <3>1
    <3> QED BY <3>1, <3>2, <2>1
  <2>5. \A l \in Indices : l # k => jobs'[l] = jobs[l] BY <1>0, PutJobEffect
  <2>6. \A h \in InvNames : acted'[h] = IF h \in p[k].limit /\ acted[h] < 2 THEN acted[h] + 1 ELSE acted[h]
    BY <1>2, <2>1
  <2>7. \A h \in p[k].limit : acted[h] = 0 BY <1>2, <2>1 DEF ActedInv, Fresh
  <2>8. \A h \in p[k].limit : acted'[h] = 1 BY <2>1, <2>3, <2>6, <2>7
  <2>9. \A h \in InvNames : h \notin p[k].limit => acted'[h] = acted[h] BY <2>6
  <2>10. ShardInv'
    <3>1. \A l \in Indices : l # k => (Exists(l)' => Exists(l)) /\ (Exists(l) => Exists(l)') BY <2>5 DEF Exists
    <3>2. Exists(k)' BY <2>4 DEF Exists
    <3>3. \A l \in Indices : IF Exists(l)' THEN l \in DOMAIN p /\ jobs'[l].targets = p[l].limit
                                           ELSE jobs'[l].targets = {}
      BY <3>1, <3>2, <2>1, <2>4, <2>5 DEF ShardInv
    <3> QED BY <3>3, <2>1, <2>2 DEF ShardInv
  <2>11. ASSUME NEW l \in DOMAIN p PROVE (ShardBegan(l) => Began(l))' /\ (~ShardBegan(l) => Fresh(l))'
    <3>1. CASE l = k
      <4>1. ShardBegan(k)' BY <2>4 DEF ShardBegan, Exists
      <4>2. Began(k)' BY <2>2, <2>8 DEF Began
      <4> QED BY <3>1, <4>1, <4>2
    <3>2. CASE l # k
      <4>1. (ShardBegan(l)' => ShardBegan(l)) /\ (ShardBegan(l) => ShardBegan(l)')
        BY <3>2, <2>3, <2>5 DEF ShardBegan, Exists
      <4>2. \A h \in p[l].limit : acted'[h] = acted[h] BY <3>2, <2>1, <2>3, <2>9
      <4> QED BY <4>1, <4>2, <2>1, <2>2 DEF ActedInv, Began, Fresh
    <3> QED BY <3>1, <3>2
  <2>12. \A h \in InvNames : (\A l \in DOMAIN p : h \notin p[l].limit) => acted'[h] = 0
    BY <2>1, <2>9 DEF ActedInv
  <2> QED BY <2>2, <2>10, <2>11, <2>12 DEF ActedInv
<1> QED BY <1>0, <1>1, <1>2, PutJobEffect

(* At the start no host was touched.                                       *)
LEMMA InitHosts ==
  ASSUME HostsNamed
  PROVE  Init => HostInv
<1> SUFFICES ASSUME Init PROVE HostInv OBVIOUS
<1>0. TypeInv BY InitTyped
<1>1. RenderedInv BY NothingListed DEF Init, RenderedInv, NewRun
<1>2. cr.shards = <<>> /\ \A k \in Indices : ~Exists(k) /\ jobs[k].targets = {}
  BY DEF Init, NewRun, NoJob, Exists
<1>3. ShardInv BY <1>2 DEF ShardInv
<1>4. DOMAIN cr.shards = {} BY <1>2
<1>5. ActedInv
  <2>1. \A k \in DOMAIN Plan : ~ShardBegan(k) BY <1>0, <1>2, <1>4, PlanFacts DEF ShardBegan
  <2>2. \A h \in InvNames : acted[h] = 0 BY DEF Init
  <2>3. \A k \in DOMAIN Plan : Fresh(k) BY <1>0, <2>2, PlanFacts DEF Fresh
  <2> QED BY <2>1, <2>2, <2>3 DEF ActedInv
<1> QED BY <1>1, <1>3, <1>5 DEF HostInv

(* Nothing happens to the shards.                                          *)
LEMMA HostsUntouched ==
  ASSUME TypeInv, HostsNamed, ShardInv, ActedInv, inventory' = inventory,
         UNCHANGED jobVars, cr'.shards = cr.shards
  PROVE  ShardInv' /\ ActedInv'
<1>1. jobs' = jobs /\ acted' = acted BY DEF jobVars
<1>2. \A k : (ShardBegan(k)' => ShardBegan(k)) /\ (ShardBegan(k) => ShardBegan(k)')
  BY <1>1 DEF ShardBegan, Exists
<1>3. \A k \in Indices : IF Exists(k)' THEN Exists(k) /\ jobs'[k].targets = jobs[k].targets
                                       ELSE jobs'[k].targets = {}
  BY <1>1 DEF ShardInv, Exists
<1> QED BY <1>1, <1>2, <1>3, ShardsKept DEF ShardInv

(* A Job goes away whose shard is on record.                               *)
LEMMA HostsRemoved ==
  ASSUME TypeInv, HostsNamed, ShardInv, ActedInv, inventory' = inventory, cr'.shards = cr.shards,
         NEW k, RemoveJob(k), k \in DOMAIN cr.shards, cr.shards[k].phase # "Pending"
  PROVE  ShardInv' /\ ActedInv'
<1>1. /\ \A l \in Indices : l # k => jobs'[l] = jobs[l]
      /\ k \in Indices => jobs'[k] = NoJob
      /\ acted' = acted
  BY RemoveJobEffect
<1>2. \A l \in Indices : IF Exists(l)' THEN Exists(l) /\ jobs'[l].targets = jobs[l].targets
                                       ELSE jobs'[l].targets = {}
  BY <1>1 DEF ShardInv, Exists, NoJob
<1>3. \A l \in DOMAIN Plan : (ShardBegan(l)' => ShardBegan(l)) /\ (ShardBegan(l) => ShardBegan(l)')
  BY <1>1, PlanFacts DEF ShardBegan, Exists
<1> QED BY <1>1, <1>2, <1>3, ShardsKept DEF ShardInv

(* An inventory that lists no hosts has no shards, and nothing was done.   *)
LEMMA NothingDone ==
  ASSUME TypeInv, HostsNamed, ShardInv, ActedInv, Listed(inventory) = <<>>
  PROVE  /\ cr.shards = <<>>
         /\ \A k \in Indices : ~Exists(k) /\ jobs[k].targets = {}
         /\ \A h \in InvNames : acted[h] = 0
<1>1. DOMAIN Plan = {} BY PlanFacts, ListedShards DEF Plan
<1>2. cr.shards = <<>>
  <2>1. cr.shards \in ShardSeqs BY DEF TypeInv, RunsTyped
  <2> QED BY <1>1, <2>1, ShardSeqFacts DEF ShardInv
<1> QED BY <1>1, <1>2 DEF ShardInv, ActedInv

(* Regrouping the hosts leaves the shards as they are; the inventory lists *)
(* its first hosts before any shard exists.                                *)
LEMMA EditHosts ==
  ASSUME TypeInv, HostsNamed, HostsStay, ControlInv, HostInv, EditInventory
  PROVE  HostInv'
<1>0. RenderedInv /\ ShardInv /\ ActedInv BY DEF HostInv
<1>1. cr' = cr /\ configMap' = configMap /\ UNCHANGED jobVars /\ UNCHANGED localVars
  BY DEF EditInventory, runVars
<1>2. PICK edit \in Edits : edit[1] = inventory /\ inventory' = edit[2] BY DEF EditInventory
<1>3. PICK other : other = inventory' OBVIOUS
<1>4. other \in Inventories /\ inventory \in Inventories
  BY <1>2, <1>3, ParallelAssumption DEF TypeInv, WorldTyped
<1>5. Listed(inventory) \in {<<>>, Listed(other)} BY <1>2, <1>3 DEF HostsStay, EditInventory
<1>6. Plan' = ShardHosts(other, MaxAmountOfHosts) /\ Listed(inventory)' = Listed(other)
  BY <1>3 DEF Plan, Listed
<1>7. CASE Listed(inventory) = Listed(other)
  <2>1. Plan' = Plan BY <1>6, <1>7, SameHostsSameShards DEF Plan
  <2>2. jobs' = jobs /\ acted' = acted BY <1>1 DEF jobVars
  <2>3. ShardInv' BY <2>1, <2>2, <1>0, <1>1 DEF ShardInv, Exists
  <2>4. ActedInv' BY <2>1, <2>2, <1>0, <1>1 DEF ActedInv, ShardBegan, Exists, Began, Fresh
  <2>5. RenderedInv'
    <3>1. Listed(configMap)' = Listed(configMap) /\ \A w : Listed(groups[w])' = Listed(groups[w])
      BY <1>1 DEF Listed, localVars
    <3> QED BY <3>1, <1>0, <1>1, <1>6, <1>7 DEF RenderedInv, localVars
  <2> QED BY <2>3, <2>4, <2>5 DEF HostInv
<1>8. CASE Listed(inventory) = <<>>
  <2>1. /\ cr.shards = <<>>
        /\ \A k \in Indices : ~Exists(k) /\ jobs[k].targets = {}
        /\ \A h \in InvNames : acted[h] = 0
    BY <1>0, <1>8, NothingDone
  <2>2. jobs' = jobs /\ acted' = acted BY <1>1 DEF jobVars
  <2>3. ShardInv' BY <2>1, <2>2, <1>1 DEF ShardInv, Exists
  <2>4. TypeInv' BY StepTyped DEF Next
  <2>5. /\ DOMAIN Plan' \subseteq Indices
        /\ \A k \in DOMAIN Plan' : Plan'[k].limit \subseteq InvNames
    <3>1. PICK p : p = ShardHosts(other, MaxAmountOfHosts) OBVIOUS
    <3>2. other \in Seq(Seq(Hosts)) /\ MaxAmountOfHosts \in Nat \ {0} BY <1>4, ParallelAssumption
    <3>3. ShardsCover(p, AnsibleTargets(other, {}), MaxAmountOfHosts)
      BY <3>1, <3>2, ShardHostsCover DEF HostsNamed
    <3>4. AnsibleTargets(other, {}) \subseteq InvNames BY <1>4, InventoryTyped
    <3>5. DOMAIN p \subseteq Indices BY <3>1, <1>4, PendingShards
    <3> QED BY <3>1, <3>3, <3>4, <3>5, <1>6 DEF ShardsCover
  <2>6. ActedInv'
    <3>1. DOMAIN cr'.shards = {} BY <2>1, <1>1
    <3>2. \A k \in DOMAIN Plan' : ~ShardBegan(k)'
      BY <3>1, <2>1, <2>2, <2>5 DEF ShardBegan, Exists
    <3>3. \A k \in DOMAIN Plan' : Fresh(k)' BY <2>1, <2>2, <2>5 DEF Fresh
    <3> QED BY <3>2, <3>3, <2>1, <2>2 DEF ActedInv
  <2>7. RenderedInv'
    <3>1. Listed(configMap) = <<>> /\ \A w \in Workers : Listed(groups[w]) = <<>>
      BY <1>0, <1>8 DEF RenderedInv
    <3>2. Listed(configMap)' = <<>> /\ \A w \in Workers : Listed(groups[w])' = <<>>
      BY <3>1, <1>1 DEF Listed, localVars
    <3>3. \A w \in Workers : pc[w] # "startPending"
      BY <2>1 DEF ControlInv, StepInv, PollInv, PollSteps, Follows, StoredInv
    <3> QED BY <3>2, <3>3, <1>1 DEF RenderedInv, localVars
  <2> QED BY <2>3, <2>6, <2>7 DEF HostInv
<1> QED BY <1>5, <1>7, <1>8

(* Users, Kubernetes, crashes and restarts touch no host.                  *)
LEMMA WorldHosts ==
  ASSUME TypeInv, HostsNamed, HostsStay, ControlInv, HostInv,
         \/ RequestCancel \/ EditInventory \/ FinishJob \/ ExpireJob \/ Resync \/ Crash \/ Restart
         \/ UNCHANGED vars
  PROVE  HostInv'
<1>0. RenderedInv /\ ShardInv /\ ActedInv BY DEF HostInv
<1>1. CASE EditInventory BY <1>1, EditHosts
<1>2. ASSUME \/ RequestCancel \/ FinishJob \/ ExpireJob \/ Resync \/ Crash \/ Restart \/ UNCHANGED vars
      PROVE  HostInv'
  <2>1. /\ inventory' = inventory /\ configMap' = configMap
        /\ cr'.phase = cr.phase /\ cr'.shards = cr.shards
    BY <1>2 DEF RequestCancel, FinishJob, ExpireJob, Resync, Crash, Restart, runVars, vars, TypeInv, RunsTyped
  <2>2. \A w \in Workers : \/ pc'[w] = "idle" /\ groups'[w] = <<>>
                           \/ pc'[w] = pc[w] /\ groups'[w] = groups[w]
    BY <1>2 DEF RequestCancel, FinishJob, ExpireJob, Resync, Crash, Restart, localVars, vars
  <2>3. RenderedInv' BY <2>1, <2>2, <1>0, ToRendered DEF RenderedInv
  <2>4. ShardInv' /\ ActedInv'
    <3>1. CASE FinishJob
      <4>1. PICK k \in Indices, r \in Results : jobs' = [jobs EXCEPT ![k].state = r]
        BY <3>1 DEF FinishJob
      <4>2. \A l \in Indices : jobs'[l].targets = jobs[l].targets
        <5>1. TAKE l \in Indices
        <5>2. CASE l = k
          <6>1. PICK j : j = jobs[k] OBVIOUS
          <6>2. jobs'[k] = [j EXCEPT !.state = r] BY <4>1, <6>1 DEF TypeInv, JobsTyped
          <6>3. j \in [state: {"absent", "active"} \cup Results, targets: SUBSET InvNames, ttl: BOOLEAN]
            BY <6>1 DEF TypeInv, JobsTyped
          <6> QED BY <5>2, <6>1, <6>2, <6>3
        <5>3. CASE l # k BY <5>3, <4>1 DEF TypeInv, JobsTyped
        <5> QED BY <5>2, <5>3
      <4>3. acted' = acted BY <3>1 DEF FinishJob
      <4>4. \A l \in Indices : (Exists(l)' => Exists(l)) /\ (Exists(l) => Exists(l)')
        BY <3>1, FinishEffect
      <4>5. \A l \in DOMAIN Plan : (ShardBegan(l)' => ShardBegan(l)) /\ (ShardBegan(l) => ShardBegan(l)')
        BY <4>4, <2>1, PlanFacts DEF ShardBegan
      <4>6. \A l \in Indices : IF Exists(l)' THEN Exists(l) /\ jobs'[l].targets = jobs[l].targets
                                             ELSE jobs'[l].targets = {}
        BY <4>2, <4>4, <1>0 DEF ShardInv
      <4>7. cr'.shards # <<>> =>
              /\ DOMAIN cr'.shards = DOMAIN Plan
              /\ \A l \in DOMAIN Plan : cr'.shards[l].hostNames = Plan[l].hostNames
        BY <2>1, <1>0 DEF ShardInv
      <4> QED BY <4>3, <4>5, <4>6, <4>7, <2>1, <1>0, ShardsKept
    <3>2. CASE ExpireJob
      <4>1. PICK k \in Indices : jobs[k].ttl /\ RemoveJob(k) BY <3>2 DEF ExpireJob
      <4>2. k \in DOMAIN cr.shards /\ cr.shards[k].phase # "Pending" BY <4>1 DEF ControlInv, TtlInv
      <4> QED BY <4>1, <4>2, <2>1, <1>0, HostsRemoved
    <3>3. CASE UNCHANGED jobVars BY <3>3, <2>1, <1>0, HostsUntouched
    <3> QED BY <1>2, <3>1, <3>2, <3>3 DEF RequestCancel, Resync, Crash, Restart, vars
  <2> QED BY <2>3, <2>4 DEF HostInv
<1> QED BY <1>1, <1>2

(* Nor does the start of a reconcile.                                      *)
LEMMA FireTimerHosts ==
  ASSUME TypeInv, HostsNamed, HostInv, NEW w \in Workers, FireTimer(w)
  PROVE  HostInv'
<1>0. RenderedInv /\ ShardInv /\ ActedInv BY DEF HostInv
<1>1. cr' = cr /\ inventory' = inventory /\ configMap' = configMap /\ UNCHANGED jobVars
  BY DEF FireTimer
<1>2. groups' = groups /\ \A v \in Workers : pc'[v] = pc[v] \/ pc'[v] \notin {"startPending", "patchEmpty"}
  <2>1. CASE cr.phase \in Terminal BY <2>1 DEF FireTimer, localVars
  <2>2. CASE cr.phase \notin Terminal
    <3>1. /\ pc'[w] = EntryStep(cr) /\ groups' = groups
          /\ \A v \in Workers : v # w => pc'[v] = pc[v]
      BY <2>2 DEF FireTimer, TypeInv, LocalTyped
    <3>2. EntryStep(cr) \notin {"startPending", "patchEmpty"} BY DEF EntryStep
    <3> QED BY <3>1, <3>2
  <2> QED BY <2>1, <2>2
<1>3. RenderedInv' BY <1>0, <1>1, <1>2, ToRendered DEF RenderedInv
<1>4. ShardInv' /\ ActedInv' BY <1>0, <1>1, HostsUntouched
<1> QED BY <1>3, <1>4 DEF HostInv

(* What a reconcile does with the groups it has resolved: keep or forget.  *)
Keeps(w) ==
  \A v \in Workers : \/ groups'[v] = groups[v]
                     \/ v = w /\ pc'[v] = "idle" /\ groups'[v] = <<>>

LEMMA KeepsGroups ==
  ASSUME TypeInv, NEW w \in Workers
  PROVE  /\ Return(w) => Keeps(w)
         /\ \A step : Goto(w, step) => Keeps(w)
         /\ \A shards : Conclude(w, shards) => Keeps(w)
         /\ \A shards, rest : AfterPoll(w, shards, rest) => Keeps(w)
<1>1. Return(w) => Keeps(w) BY DEF Return, Reset, Keeps, TypeInv, LocalTyped
<1>2. \A step : Goto(w, step) => Keeps(w) BY GotoPc DEF Keeps
<1>3. \A shards : Conclude(w, shards) => Keeps(w) BY <1>1, <1>2 DEF Conclude
<1>4. \A shards, rest : AfterPoll(w, shards, rest) => Keeps(w) BY <1>2, <1>3 DEF AfterPoll
<1> QED BY <1>1, <1>2, <1>3, <1>4

(* What is rendered lists the hosts of the inventory, or none.             *)
LEMMA ReconcileRendered ==
  ASSUME TypeInv, ControlInv, OneAtATime, RenderedInv, NEW w \in Workers, Reconcile(w)
  PROVE  RenderedInv'
<1>0. StepInv(w) /\ StoredInv BY DEF ControlInv
<1>1. \A v \in Workers : v # w => pc'[v] = "idle" BY OthersIdle
<1>2. inventory' = inventory
  BY DEF Reconcile, DeleteJobs, PatchCancelled, PatchResolving, Prepare, StartShard,
    PatchRunning, PatchEmpty, PatchError, PollShard, PatchTtl, Refill, StartPending, PatchShards, PatchFinal
<1>3. ASSUME \A v \in Workers : groups'[v] \in {groups[v], inventory, <<>>},
             configMap' \in {configMap, inventory},
             pc'[w] = "startPending" => groups'[w] = inventory \/ (pc[w] = "startPending" /\ groups'[w] = groups[w]),
             pc'[w] = "patchEmpty" => Listed(configMap') = <<>>,
             cr'.phase = "Succeeded" /\ cr'.shards = <<>> => Listed(configMap') = <<>>
      PROVE  RenderedInv'
  <2>1. /\ \A v \in Workers : pc'[v] = "startPending" =>
             groups'[v] = inventory \/ (pc[v] = "startPending" /\ groups'[v] = groups[v])
        /\ \A v \in Workers : pc'[v] = "patchEmpty" => Listed(configMap') = <<>>
    BY <1>1, <1>3
  <2> QED BY <2>1, <1>2, <1>3, ToRendered
<1>4. ASSUME Keeps(w) PROVE \A v \in Workers : groups'[v] \in {groups[v], inventory, <<>>}
  BY <1>4 DEF Keeps
<1>5. ASSUME groups' = [groups EXCEPT ![w] = inventory]
      PROVE  groups'[w] = inventory /\ \A v \in Workers : groups'[v] \in {groups[v], inventory, <<>>}
  BY <1>5 DEF TypeInv, LocalTyped
<1>6. CASE Prepare(w)
  <2>1. cr' = cr /\ cr.phase # "Succeeded" BY <1>6, <1>0 DEF Prepare, StepInv, StartInv, StartSteps
  <2>2. configMap' \in {configMap, inventory} BY <1>6 DEF Prepare, RenderInventory
  <2>3. CASE Goto(w, "patchError") \/ Return(w)
    <3>1. pc'[w] \in {"patchError", "idle"} BY <2>3, GotoPc, ResetPc DEF Return
    <3>2. Keeps(w) BY <2>3, KeepsGroups
    <3> QED BY <2>1, <2>2, <3>1, <3>2, <1>3, <1>4
  <2>4. CASE /\ configMap' = inventory /\ groups' = [groups EXCEPT ![w] = inventory]
             /\ \E shards \in {ShardHosts(inventory, MaxAmountOfHosts)} :
                  pc' = [pc EXCEPT ![w] = IF shards = <<>> THEN "patchEmpty" ELSE "startShards"]
    <3>1. PICK s : /\ s = ShardHosts(inventory, MaxAmountOfHosts)
                   /\ pc' = [pc EXCEPT ![w] = IF s = <<>> THEN "patchEmpty" ELSE "startShards"]
      BY <2>4
    <3>2. pc'[w] = IF s = <<>> THEN "patchEmpty" ELSE "startShards" BY <3>1 DEF TypeInv, LocalTyped
    <3>3. inventory \in Inventories BY DEF TypeInv, WorldTyped
    <3>4. s = <<>> => Listed(inventory) = <<>> BY <3>1, <3>3, ListedShards
    <3>5. pc'[w] = "patchEmpty" => Listed(configMap') = <<>> BY <2>4, <3>2, <3>4
    <3> QED BY <2>1, <2>2, <2>4, <3>2, <3>5, <1>3, <1>5
  <2> QED BY <1>6, <2>3, <2>4 DEF Prepare, RenderInventory
<1>7. CASE Refill(w)
  <2>1. cr' = cr /\ cr.phase # "Succeeded" BY <1>7, <1>0 DEF Refill, StepInv, PollInv, PollSteps, Follows
  <2>2. configMap' \in {configMap, inventory} BY <1>7 DEF Refill, RenderInventory
  <2>3. CASE Conclude(w, updated[w])
    <3>1. pc'[w] \in {"idle", "patchFinal", "patchShards"} BY <2>3, ConcludeUpdated
    <3>2. Keeps(w) BY <2>3, KeepsGroups
    <3> QED BY <2>1, <2>2, <3>1, <3>2, <1>3, <1>4
  <2>4. CASE groups' = [groups EXCEPT ![w] = inventory] /\ pc' = [pc EXCEPT ![w] = "startPending"]
    <3>1. pc'[w] = "startPending" BY <2>4 DEF TypeInv, LocalTyped
    <3> QED BY <2>1, <2>2, <2>4, <3>1, <1>3, <1>5
  <2> QED BY <1>7, <2>3, <2>4 DEF Refill
<1>8. ASSUME Keeps(w), configMap' = configMap,
             pc'[w] = "startPending" => pc[w] = "startPending", pc'[w] # "patchEmpty",
             cr'.phase = "Succeeded" /\ cr'.shards = <<>> => Listed(configMap) = <<>>
      PROVE  RenderedInv'
  <2>1. pc'[w] = "startPending" => groups'[w] = groups[w] BY <1>8 DEF Keeps
  <2> QED BY <2>1, <1>3, <1>4, <1>8
<1>9. cr.phase = "Succeeded" /\ cr.shards = <<>> => Listed(configMap) = <<>> BY DEF RenderedInv
<1>10. ASSUME Conclude(w, updated[w]) \/ (\E shards : Conclude(w, shards)) \/ (\E shards, rest : AfterPoll(w, shards, rest))
       PROVE  Keeps(w) /\ pc'[w] \notin {"startPending", "patchEmpty"}
  BY <1>10, KeepsGroups, ConcludeUpdated, AfterPollUpdated
<1>11. ASSUME NEW step, Goto(w, step) PROVE Keeps(w) /\ pc'[w] = step BY <1>11, KeepsGroups, GotoPc
<1>12. CASE DeleteJobs(w)
  <2>1. PICK step \in {"patchCancelled", "deleteJobs"} : Goto(w, step) BY <1>12 DEF DeleteJobs
  <2>2. cr' = cr /\ configMap' = configMap BY <1>12 DEF DeleteJobs
  <2> QED BY <2>1, <2>2, <1>8, <1>9, <1>11
<1>13. CASE PatchResolving(w)
  <2>1. PICK step \in {"prepare", "patchError"} : Goto(w, step)
    BY <1>13 DEF PatchResolving
  <2>2. PICK answer : PatchRunStatus(w, "Resolving", obj[w].shards, answer) BY <1>13 DEF PatchResolving
  <2>3. cr' = cr \/ cr'.phase = "Resolving" BY <2>2, PatchEffect
  <2>4. configMap' = configMap BY <1>13 DEF PatchResolving
  <2> QED BY <2>1, <2>3, <2>4, <1>8, <1>9, <1>11
<1>14. CASE StartShard(w)
  <2>1. cr' = cr /\ configMap' = configMap BY <1>14 DEF StartShard
  <2>2. CASE Return(w)
    <3>1. pc'[w] = "idle" /\ Keeps(w) BY <2>2, ResetPc, KeepsGroups DEF Return
    <3> QED BY <2>1, <3>1, <1>8, <1>9
  <2>3. CASE \E step \in {"patchRunning", "startShards"} : Goto(w, step)
    BY <2>1, <2>3, <1>8, <1>9, <1>11
  <2> QED BY <1>14, <2>2, <2>3 DEF StartShard
<1>15. CASE PollShard(w) \/ PatchTtl(w)
  <2>1. cr' = cr /\ configMap' = configMap BY <1>15 DEF PollShard, PatchTtl
  <2>2. CASE \E shards, rest : AfterPoll(w, shards, rest) BY <2>1, <2>2, <1>8, <1>9, <1>10
  <2>3. CASE Goto(w, "patchTtl") BY <2>1, <2>3, <1>8, <1>9, <1>11
  <2> QED BY <1>15, <2>2, <2>3 DEF PollShard, PatchTtl
<1>16. CASE StartPending(w)
  <2>1. cr' = cr /\ configMap' = configMap /\ pc[w] = "startPending" BY <1>16 DEF StartPending
  <2>2. CASE \E shards : Conclude(w, shards) BY <2>1, <2>2, <1>8, <1>9, <1>10
  <2>3. CASE Goto(w, "startPending") BY <2>1, <2>3, <1>8, <1>9, <1>11
  <2> QED BY <1>16, <2>2, <2>3 DEF StartPending
<1>17. CASE \/ PatchCancelled(w) \/ PatchRunning(w) \/ PatchEmpty(w) \/ PatchError(w)
            \/ PatchShards(w) \/ PatchFinal(w)
  <2>1. Return(w) /\ configMap' = configMap
    BY <1>17 DEF PatchCancelled, PatchRunning, PatchEmpty, PatchError, PatchShards, PatchFinal
  <2>2. pc'[w] = "idle" /\ Keeps(w) BY <2>1, ResetPc, KeepsGroups DEF Return
  <2>3. cr'.phase = "Succeeded" /\ cr'.shards = <<>> => Listed(configMap) = <<>>
    <3>1. CASE PatchCancelled(w) \/ PatchRunning(w) \/ PatchError(w) \/ PatchShards(w)
      <4>1. PICK phase, shards, answer : /\ phase \in {"Cancelled", "Running", "Error"}
                                         /\ PatchRunStatus(w, phase, shards, answer)
        <5>1. PatchShards(w) => obj[w].phase = "Running"
          BY <1>0 DEF PatchShards, StepInv, PollInv, PollSteps, Follows
        <5> QED BY <3>1, <5>1 DEF PatchCancelled, PatchRunning, PatchError, PatchShards
      <4>2. cr' = cr \/ cr'.phase = phase BY <4>1, PatchEffect
      <4> QED BY <4>1, <4>2, <1>9
    <3>2. CASE PatchEmpty(w) BY <3>2 DEF PatchEmpty, RenderedInv
    <3>3. CASE PatchFinal(w)
      <4>1. PICK phase, answer : PatchRunStatus(w, phase, updated[w], answer) BY <3>3 DEF PatchFinal
      <4>2. Follows(w, updated[w], TRUE)
        BY <3>3, <1>0 DEF PatchFinal, StepInv, PollInv, PollSteps, Follows
      <4>3. cr.shards # <<>> BY <4>2, <1>0 DEF Follows, StoredInv
      <4>4. updated[w] # <<>> BY <4>2, <4>3, StepTypes, ShardSeqFacts DEF Follows
      <4>5. cr' = cr \/ cr'.shards = updated[w] BY <4>1, <4>4, PatchEffect
      <4> QED BY <4>3, <4>4, <4>5
    <3> QED BY <1>17, <3>1, <3>2, <3>3
  <2> QED BY <2>1, <2>2, <2>3, <1>8
<1> QED BY <1>6, <1>7, <1>12, <1>13, <1>14, <1>15, <1>16, <1>17 DEF Reconcile

-----------------------------------------------------------------------------
(* The shards a reconcile plans are those of the inventory as it is.       *)
LEMMA PlannedShards ==
  ASSUME TypeInv, RenderedInv, NEW w \in Workers, Planned(w)
  PROVE  ShardHosts(groups[w], MaxAmountOfHosts) = Plan /\ Listed(groups[w]) = Listed(inventory)
<1>1. PICK g, s : g = groups[w] /\ s = ShardHosts(g, MaxAmountOfHosts) OBVIOUS
<1>2. g \in Inventories /\ s # <<>> BY <1>1 DEF Planned
<1>3. DOMAIN s # {} BY <1>1, <1>2, PendingShards
<1>4. Listed(g) # <<>> BY <1>1, <1>2, <1>3, ListedShards
<1>5. Listed(g) = Listed(inventory) BY <1>1, <1>4 DEF RenderedInv
<1>6. s = Plan BY <1>1, <1>5, SameHostsSameShards DEF Plan
<1> QED BY <1>1, <1>5, <1>6

(* How a shard's --limit is made, and made again when it is started late.  *)
LEMMA LimitsOfPlan ==
  ASSUME TypeInv, HostsNamed, NEW g \in Inventories, Listed(g) = Listed(inventory), NEW k \in DOMAIN Plan
  PROVE  /\ LimitForHostNames(g, Plan[k].hostNames) = Plan[k].limit
         /\ AnsibleTargets(g, Plan[k].limit) = Plan[k].limit
         /\ Plan[k].limit = {h.inv : h \in {x \in Hosts : x.name \in ToSet(Plan[k].hostNames)}}
<1>1. inventory \in Inventories BY PlanFacts
<1>2. inventory \in Seq(Seq(Hosts)) /\ g \in Seq(Seq(Hosts)) /\ MaxAmountOfHosts \in Nat \ {0}
  BY <1>1, ParallelAssumption
<1>3. Named(Hosts) BY DEF HostsNamed
<1> QED BY <1>2, <1>3, ShardFoundAgain DEF Plan

(* The status a reconcile patches in records the shards as planned, and as *)
(* running only those that have begun.                                     *)
LEMMA PatchEndHosts ==
  ASSUME TypeInv, HostsNamed, ControlInv, HostInv, NEW w \in Workers,
         \/ PatchCancelled(w) \/ PatchResolving(w) \/ PatchRunning(w) \/ PatchEmpty(w) \/ PatchError(w)
         \/ PatchShards(w) \/ PatchFinal(w)
  PROVE  ShardInv' /\ ActedInv'
<1>0. RenderedInv /\ ShardInv /\ ActedInv /\ StepInv(w) /\ StoredInv BY DEF HostInv, ControlInv
<1>1. inventory' = inventory /\ UNCHANGED jobVars
  BY DEF PatchCancelled, PatchResolving, PatchRunning, PatchEmpty, PatchError, PatchShards, PatchFinal
<1>2. cr.shards \in ShardSeqs /\ updated[w] \in ShardSeqs BY StepTypes
<1>3. CASE cr'.shards = cr.shards BY <1>0, <1>1, <1>3, HostsUntouched
<1>4. CASE PatchCancelled(w) \/ PatchResolving(w) \/ PatchEmpty(w) \/ PatchError(w)
  <2>1. PICK phase, shards, answer :
          PatchRunStatus(w, phase, shards, answer) /\ shards \in {<<>>, cr.shards}
    <3>1. obj[w].shards \in {<<>>, cr.shards}
      BY <1>4, <1>0 DEF PatchCancelled, PatchResolving, PatchEmpty, PatchError,
        StepInv, StartInv, StartSteps, CancelInv, CancelSteps
    <3> QED BY <1>4, <3>1 DEF PatchCancelled, PatchResolving, PatchEmpty, PatchError
  <2> QED BY <2>1, <1>3, PatchEffect
<1>5. ASSUME cr'.shards = updated[w], DOMAIN updated[w] = DOMAIN Plan,
             \A k \in DOMAIN Plan : updated[w][k].hostNames = Plan[k].hostNames,
             \A k \in DOMAIN Plan : updated[w][k].phase # "Pending" => ShardBegan(k),
             \A k \in DOMAIN cr.shards : cr.shards[k].phase # "Pending" => updated[w][k].phase # "Pending"
      PROVE  ShardInv' /\ ActedInv'
  <2>1. jobs' = jobs /\ acted' = acted BY <1>1 DEF jobVars
  <2>2. \A k \in Indices : IF Exists(k)' THEN Exists(k) /\ jobs'[k].targets = jobs[k].targets
                                         ELSE jobs'[k].targets = {}
    BY <2>1, <1>0 DEF ShardInv, Exists
  <2>3. \A k \in DOMAIN Plan : (ShardBegan(k)' => ShardBegan(k)) /\ (ShardBegan(k) => ShardBegan(k)')
    BY <2>1, <1>5 DEF ShardBegan, Exists
  <2> QED BY <2>1, <2>2, <2>3, <1>0, <1>1, <1>5, ShardsKept
<1>6. CASE PatchRunning(w)
  <2>1. Planned(w) /\ cr.shards = <<>>
    BY <1>6, <1>0 DEF PatchRunning, StepInv, PlanInv, StartInv, StartSteps, StoredInv
  <2>2. ShardHosts(groups[w], MaxAmountOfHosts) = Plan BY <2>1, <1>0, PlannedShards
  <2>3. PICK p : p = Plan OBVIOUS
  <2>4. /\ DOMAIN updated[w] = DOMAIN p /\ p # <<>>
        /\ \A k \in DOMAIN p : /\ updated[w][k].hostNames = p[k].hostNames
                               /\ updated[w][k].phase \in {"Pending", "Running"}
        /\ \A k \in InPhase(updated[w], "Running") : Exists(k)
    BY <2>1, <2>2, <2>3 DEF Planned
  <2>5. \A k \in DOMAIN p : updated[w][k].phase # "Pending" => ShardBegan(k)
    BY <2>4 DEF InPhase, ShardBegan
  <2>6. PICK answer : PatchRunStatus(w, "Running", updated[w], answer) BY <1>6 DEF PatchRunning
  <2>7. cr'.shards = cr.shards \/ cr'.shards = updated[w] BY <2>6, PatchEffect
  <2>8. DOMAIN cr.shards = {} BY <2>1
  <2> QED BY <2>3, <2>4, <2>5, <2>7, <2>8, <1>3, <1>5
<1>7. CASE PatchShards(w) \/ PatchFinal(w)
  <2>1. Follows(w, updated[w], TRUE)
    BY <1>7, <1>0 DEF PatchShards, PatchFinal, StepInv, PollInv, PollSteps, Follows
  <2>2. PICK phase, answer : PatchRunStatus(w, phase, updated[w], answer)
    BY <1>7 DEF PatchShards, PatchFinal
  <2>3. cr'.shards = cr.shards \/ cr'.shards = updated[w] BY <2>2, PatchEffect
  <2>4. cr.shards # <<>> BY <2>1, <1>0 DEF Follows, StoredInv
  <2>5. PICK p : p = Plan OBVIOUS
  <2>6. DOMAIN cr.shards = DOMAIN p /\ \A k \in DOMAIN p : cr.shards[k].hostNames = p[k].hostNames
    BY <2>4, <2>5, <1>0 DEF ShardInv
  <2>7. \A k \in DOMAIN p : updated[w][k].phase # "Pending" => ShardBegan(k)
    BY <2>1, <2>6 DEF Follows, ShardBegan
  <2>8. \A k \in DOMAIN cr.shards : cr.shards[k].phase # "Pending" => updated[w][k].phase # "Pending"
    BY <2>1 DEF Follows, TerminalShard
  <2> QED BY <2>1, <2>3, <2>5, <2>6, <2>7, <2>8, <1>3, <1>5 DEF Follows
<1> QED BY <1>4, <1>6, <1>7

(* Creating a Job, or failing to.                                          *)
LEMMA TryJobHosts ==
  ASSUME TypeInv, HostsNamed, HostInv, inventory' = inventory, cr' = cr,
         NEW k \in DOMAIN Plan, NEW answer,
         IF answer = "refused" THEN UNCHANGED jobVars ELSE PutJob(k, Plan[k].limit),
         AnsibleTargets(configMap, Plan[k].limit) = Plan[k].limit,
         ~Exists(k) => ~ShardBegan(k)
  PROVE  ShardInv' /\ ActedInv'
<1>0. ShardInv /\ ActedInv BY DEF HostInv
<1>1. CASE UNCHANGED jobVars BY <1>0, <1>1, HostsUntouched
<1>2. CASE PutJob(k, Plan[k].limit) BY <1>0, <1>2, PutJobHosts
<1> QED BY <1>1, <1>2

(* A shard that startParallelRun starts runs on its hosts, once.           *)
LEMMA StartHosts ==
  ASSUME TypeInv, HostsNamed, ControlInv, HostInv, NEW w \in Workers, StartShard(w)
  PROVE  ShardInv' /\ ActedInv'
<1>0. RenderedInv /\ StepInv(w) /\ StoredInv BY DEF HostInv, ControlInv
<1>1. Planned(w) /\ cr.shards = <<>> /\ cr' = cr /\ inventory' = inventory /\ todo[w] # {}
  BY <1>0 DEF StartShard, StepInv, PlanInv, StartInv, StartSteps, StoredInv, Planned
<1>2. ShardHosts(groups[w], MaxAmountOfHosts) = Plan /\ Listed(groups[w]) = Listed(inventory)
  BY <1>0, <1>1, PlannedShards
<1>3. PICK answer, k : /\ k = Min(todo[w])
                       /\ IF answer = "refused" THEN UNCHANGED jobVars ELSE PutJob(k, Plan[k].limit)
  BY <1>2 DEF StartShard
<1>4. k \in DOMAIN Plan
  <2>1. k \in todo[w] BY <1>1, <1>3, TodoFirst
  <2>2. k \in FirstOf(DOMAIN Plan, MaxConcurrentRuns) BY <2>1, <1>1, <1>2 DEF Planned
  <2> QED BY <2>2 DEF FirstOf
<1>5. groups[w] \in Inventories /\ configMap = groups[w] BY <1>1 DEF Planned
<1>6. AnsibleTargets(configMap, Plan[k].limit) = Plan[k].limit
  BY <1>2, <1>4, <1>5, LimitsOfPlan
<1>7. ~Exists(k) => ~ShardBegan(k)
  <2>1. DOMAIN cr.shards = {} BY <1>1
  <2> QED BY <2>1 DEF ShardBegan
<1> QED BY <1>1, <1>3, <1>4, <1>6, <1>7, TryJobHosts

(* So does a pending shard, whose limit is made from its names again.      *)
LEMMA StartPendingHosts ==
  ASSUME TypeInv, HostsNamed, ControlInv, HostInv, NEW w \in Workers, StartPending(w)
  PROVE  ShardInv' /\ ActedInv'
<1>0. RenderedInv /\ ShardInv /\ StepInv(w) /\ StoredInv BY DEF HostInv, ControlInv
<1>1. cr' = cr /\ inventory' = inventory /\ pc[w] = "startPending" BY DEF StartPending
<1>2. /\ Follows(w, updated[w], TRUE) /\ todo[w] # {} /\ todo[w] \subseteq InPhase(updated[w], "Pending")
      /\ groups[w] \in Inventories /\ configMap = groups[w]
  BY <1>0, <1>1 DEF StepInv, PollInv, PollSteps, LeftToDo
<1>3. PICK answer, k :
        /\ k = Min(todo[w])
        /\ IF answer = "refused" THEN UNCHANGED jobVars
           ELSE PutJob(k, LimitForHostNames(groups[w], updated[w][k].hostNames))
  BY DEF StartPending
<1>4. k \in InPhase(updated[w], "Pending") BY <1>2, <1>3, TodoFirst
<1>5. /\ k \in DOMAIN cr.shards /\ cr.shards[k].phase = "Pending"
      /\ updated[w][k].hostNames = cr.shards[k].hostNames
  BY <1>2, <1>4 DEF InPhase, Follows, TerminalShard
<1>6. k \in DOMAIN Plan /\ cr.shards[k].hostNames = Plan[k].hostNames
  <2>1. cr.shards # <<>> BY <1>2, <1>0 DEF Follows, StoredInv
  <2> QED BY <2>1, <1>0, <1>5 DEF ShardInv
<1>7. Listed(groups[w]) = Listed(inventory) BY <1>0, <1>1 DEF RenderedInv
<1>8. /\ LimitForHostNames(groups[w], Plan[k].hostNames) = Plan[k].limit
      /\ AnsibleTargets(configMap, Plan[k].limit) = Plan[k].limit
  BY <1>2, <1>6, <1>7, LimitsOfPlan
<1>9. IF answer = "refused" THEN UNCHANGED jobVars ELSE PutJob(k, Plan[k].limit)
  BY <1>3, <1>5, <1>6, <1>8
<1>10. ~Exists(k) => ~ShardBegan(k) BY <1>5 DEF ShardBegan
<1> QED BY <1>1, <1>6, <1>8, <1>9, <1>10, TryJobHosts

(* No step of a reconcile acts on a host twice or leaves one of a shard    *)
(* out.                                                                    *)
LEMMA ReconcileHosts ==
  ASSUME TypeInv, HostsNamed, ControlInv, HostInv, NEW w \in Workers, Reconcile(w)
  PROVE  ShardInv' /\ ActedInv'
<1>0. ShardInv /\ ActedInv /\ StepInv(w) BY DEF HostInv, ControlInv
<1>1. CASE \/ PatchCancelled(w) \/ PatchResolving(w) \/ PatchRunning(w) \/ PatchEmpty(w) \/ PatchError(w)
           \/ PatchShards(w) \/ PatchFinal(w)
  BY <1>1, PatchEndHosts
<1>2. CASE StartShard(w) BY <1>2, StartHosts
<1>3. CASE StartPending(w) BY <1>3, StartPendingHosts
<1>4. CASE Prepare(w) \/ PollShard(w) \/ Refill(w)
  <2>1. inventory' = inventory /\ UNCHANGED jobVars /\ cr' = cr BY <1>4 DEF Prepare, PollShard, Refill
  <2> QED BY <2>1, <1>0, HostsUntouched
<1>5. CASE DeleteJobs(w)
  <2>1. cr' = cr /\ inventory' = inventory BY <1>5 DEF DeleteJobs
  <2>2. todo[w] # {} /\ todo[w] \subseteq DOMAIN cr.shards \ InPhase(cr.shards, "Pending")
    BY <1>5, <1>0 DEF DeleteJobs, StepInv, CancelInv, CancelSteps
  <2>3. PICK k : k = Min(todo[w]) /\ (UNCHANGED jobVars \/ RemoveJob(k)) BY <1>5 DEF DeleteJobs
  <2>4. k \in DOMAIN cr.shards /\ cr.shards[k].phase # "Pending"
    <3>1. k \in todo[w] BY <2>2, <2>3, TodoFirst
    <3> QED BY <3>1, <2>2 DEF InPhase
  <2>5. CASE UNCHANGED jobVars BY <2>1, <2>5, <1>0, HostsUntouched
  <2>6. CASE RemoveJob(k) BY <2>1, <2>4, <2>6, <1>0, HostsRemoved
  <2> QED BY <2>3, <2>5, <2>6
<1>6. CASE PatchTtl(w)
  <2>1. cr' = cr /\ inventory' = inventory /\ acted' = acted BY <1>6 DEF PatchTtl
  <2>2. PICK k : jobs' = jobs \/ jobs' = [jobs EXCEPT ![k].ttl = TRUE] BY <1>6 DEF PatchTtl
  <2>3. \A l \in Indices : jobs'[l].state = jobs[l].state /\ jobs'[l].targets = jobs[l].targets
    <3>1. ASSUME jobs' = [jobs EXCEPT ![k].ttl = TRUE], NEW l \in Indices
          PROVE  jobs'[l].state = jobs[l].state /\ jobs'[l].targets = jobs[l].targets
      <4>1. CASE l = k
        <5>1. PICK j : j = jobs[k] OBVIOUS
        <5>2. jobs'[k] = [j EXCEPT !.ttl = TRUE] BY <3>1, <4>1, <5>1 DEF TypeInv, JobsTyped
        <5>3. j \in [state: {"absent", "active"} \cup Results, targets: SUBSET InvNames, ttl: BOOLEAN]
          BY <4>1, <5>1 DEF TypeInv, JobsTyped
        <5> QED BY <4>1, <5>1, <5>2, <5>3
      <4>2. CASE l # k BY <3>1, <4>2 DEF TypeInv, JobsTyped
      <4> QED BY <4>1, <4>2
    <3> QED BY <2>2, <3>1
  <2>4. \A l \in Indices : (Exists(l)' => Exists(l)) /\ (Exists(l) => Exists(l)') BY <2>3 DEF Exists
  <2>5. \A l \in Indices : IF Exists(l)' THEN Exists(l) /\ jobs'[l].targets = jobs[l].targets
                                         ELSE jobs'[l].targets = {}
    BY <2>3, <2>4, <1>0 DEF ShardInv
  <2>6. \A l \in DOMAIN Plan : (ShardBegan(l)' => ShardBegan(l)) /\ (ShardBegan(l) => ShardBegan(l)')
    BY <2>1, <2>4, PlanFacts DEF ShardBegan
  <2>7. cr'.shards # <<>> =>
          /\ DOMAIN cr'.shards = DOMAIN Plan
          /\ \A l \in DOMAIN Plan : cr'.shards[l].hostNames = Plan[l].hostNames
    BY <2>1, <1>0 DEF ShardInv
  <2> QED BY <2>1, <2>5, <2>6, <2>7, <1>0, ShardsKept
<1> QED BY <1>1, <1>2, <1>3, <1>4, <1>5, <1>6 DEF Reconcile

(* Every step keeps it so, if hosts are only regrouped.                    *)
LEMMA StepHosts ==
  ASSUME OneAtATime, HostsNamed, HostsStay
  PROVE  TypeInv /\ ControlInv /\ HostInv /\ [Next]_vars => HostInv'
<1> SUFFICES ASSUME TypeInv, ControlInv, HostInv, [Next]_vars PROVE HostInv' OBVIOUS
<1>1. CASE \/ RequestCancel \/ EditInventory \/ FinishJob \/ ExpireJob \/ Resync \/ Crash \/ Restart
           \/ UNCHANGED vars
  BY <1>1, WorldHosts
<1>2. ASSUME NEW w \in Workers, FireTimer(w) PROVE HostInv' BY <1>2, FireTimerHosts
<1>3. ASSUME NEW w \in Workers, Reconcile(w) PROVE HostInv'
  <2>1. RenderedInv' BY <1>3, ReconcileRendered DEF HostInv
  <2>2. ShardInv' /\ ActedInv' BY <1>3, ReconcileHosts
  <2> QED BY <2>1, <2>2 DEF HostInv
<1> QED BY <1>1, <1>2, <1>3 DEF Next

-----------------------------------------------------------------------------
(***************************************************************************)
(* What the invariant says of the properties.                              *)
(***************************************************************************)

(* Ansible acts on the hosts that are listed.                              *)
LEMMA ListedTargets ==
  ASSUME HostsNamed, NEW g \in Inventories
  PROVE  AnsibleTargets(g, {}) = {h.inv : h \in ToSet(Listed(g))}
<1>1. g \in Seq(Seq(Hosts)) BY ParallelAssumption
<1>2. Flatten(g) \in Seq(Hosts) BY <1>1, FlattenType DEF Flatten
<1>3. ToSet(Listed(g)) = ToSet(Flatten(g)) BY <1>2, DistinctHostsAll DEF Listed, HostsNamed
<1> QED BY <1>3 DEF AnsibleTargets, InventoryHostname

(* What the ConfigMap makes Ansible act on is what the inventory lists, or *)
(* nothing.                                                                *)
LEMMA RenderedTargets ==
  ASSUME TypeInv, HostsNamed, RenderedInv
  PROVE  /\ AnsibleTargets(configMap, {}) \subseteq AnsibleTargets(inventory, {})
         /\ Listed(configMap) = <<>> => AnsibleTargets(configMap, {}) = {}
<1>1. inventory \in Inventories /\ configMap \in Inventories \cup {<<>>} BY DEF TypeInv, WorldTyped
<1>2. CASE configMap = <<>> BY <1>2, NoTargets
<1>3. CASE configMap \in Inventories
  <2>1. AnsibleTargets(configMap, {}) = {h.inv : h \in ToSet(Listed(configMap))}
    BY <1>3, ListedTargets
  <2>2. AnsibleTargets(inventory, {}) = {h.inv : h \in ToSet(Listed(inventory))}
    BY <1>1, ListedTargets
  <2>3. Listed(configMap) = <<>> => ToSet(Listed(configMap)) = {}
    <3>1. ToSet(<<>>) = {} BY DEF ToSet
    <3> QED BY <3>1
  <2>4. Listed(configMap) \in {<<>>, Listed(inventory)} BY DEF RenderedInv
  <2> QED BY <2>1, <2>2, <2>3, <2>4
<1> QED BY <1>1, <1>2, <1>3

(* What the invariant says of each host and each shard.                    *)
LEMMA HostsTell ==
  ASSUME TypeInv, StoredInv, HostsNamed, HostInv
  PROVE  EachHostOnce /\ ShardRunsItsHosts /\ ShardStaysSmall
<1>0. RenderedInv /\ ShardInv /\ ActedInv BY DEF HostInv
<1>1. inventory \in Inventories BY DEF TypeInv, WorldTyped
<1>2. PICK p : p = Plan OBVIOUS
<1>3. /\ \A k \in DOMAIN p : (ShardBegan(k) \/ Fresh(k)) /\ (ShardBegan(k) => Began(k))
      /\ \A k \in DOMAIN p : \A h \in p[k].limit : Began(k) => acted[h] = 1
      /\ \A k \in DOMAIN p : \A h \in p[k].limit : Fresh(k) => acted[h] = 0
      /\ \A h \in InvNames : (\A k \in DOMAIN p : h \notin p[k].limit) => acted[h] = 0
  BY <1>0, <1>2 DEF ActedInv, Began, Fresh
<1>4. \A h \in InvNames : acted[h] <= 1
  <2>1. \A h \in InvNames : acted[h] = 0 \/ acted[h] = 1 BY <1>3
  <2>2. 0 <= 1 /\ 1 <= 1 OBVIOUS
  <2> QED BY <2>1, <2>2
<1>5. ASSUME cr.phase = "Succeeded", NEW h \in AnsibleTargets(configMap, {}) PROVE acted[h] = 1
  <2>1. cr.shards # <<>> BY <1>5, <1>0, RenderedTargets DEF RenderedInv
  <2>2. DOMAIN cr.shards = DOMAIN p BY <2>1, <1>0, <1>2 DEF ShardInv
  <2>3. h \in AnsibleTargets(inventory, {}) BY <1>5, <1>0, RenderedTargets
  <2>4. PICK k \in DOMAIN p : h \in p[k].limit BY <2>3, <1>2, PlanFacts DEF ShardsCover
  <2>5. ShardBegan(k) BY <1>5, <2>2 DEF StoredInv, ShardBegan
  <2> QED BY <2>4, <2>5, <1>3
<1>6. ShardRunsItsHosts
  <2> SUFFICES ASSUME NEW k \in DOMAIN cr.shards, jobs[k].state # "absent"
               PROVE  jobs[k].targets =
                        {h.inv : h \in {g \in Hosts : g.name \in ToSet(cr.shards[k].hostNames)}}
    BY DEF ShardRunsItsHosts
  <2>1. cr.shards # <<>> OBVIOUS
  <2>2. k \in DOMAIN Plan /\ cr.shards[k].hostNames = Plan[k].hostNames BY <2>1, <1>0 DEF ShardInv
  <2>3. k \in Indices BY <2>2, PlanFacts
  <2>4. jobs[k].targets = Plan[k].limit BY <2>3, <1>0 DEF ShardInv, Exists
  <2>5. Plan[k].limit = {h.inv : h \in {x \in Hosts : x.name \in ToSet(Plan[k].hostNames)}}
    BY <1>1, <2>2, LimitsOfPlan
  <2> QED BY <2>2, <2>4, <2>5
<1>7. ShardStaysSmall
  <2>1. ASSUME NEW k \in Indices PROVE Cardinality(jobs[k].targets) <= MaxAmountOfHosts
    <3>1. CASE Exists(k) BY <3>1, <1>0, PlanFacts DEF ShardInv, ShardsCover
    <3>2. CASE ~Exists(k)
      <4>1. jobs[k].targets = {} BY <3>2, <1>0 DEF ShardInv
      <4>2. Cardinality({}) = 0 BY FS_EmptySet
      <4>3. 0 <= MaxAmountOfHosts BY ParallelAssumption
      <4> QED BY <4>1, <4>2, <4>3
    <3> QED BY <3>1, <3>2
  <2> QED BY <2>1 DEF ShardStaysSmall
<1> QED BY <1>4, <1>5, <1>6, <1>7 DEF EachHostOnce

LEMMA HostsAlways ==
  ASSUME OneAtATime, HostsNamed, HostsStay
  PROVE  Spec => [](EachHostOnce /\ ShardRunsItsHosts /\ ShardStaysSmall)
<1> DEFINE IInv == TypeInv /\ ControlInv /\ HostInv
<1> DEFINE Safe == EachHostOnce /\ ShardRunsItsHosts /\ ShardStaysSmall
<1>1. Init => IInv BY InitTyped, InitControl, InitHosts
<1>2. IInv /\ [Next]_vars => IInv' BY StepTyped, StepControl, StepHosts
<1>3. IInv => Safe BY HostsTell DEF ControlInv
<1> HIDE DEF IInv, Safe
<1>4. Spec => []Safe BY <1>1, <1>2, <1>3, PTL DEF Spec
<1> QED BY <1>4 DEF Safe

(* No host is acted on by two Jobs of the run, and a run that succeeded    *)
(* acted on every host its ConfigMap lists: the fixed name of a shard's    *)
(* Job (createJob reads an existing one) makes up for every lost answer,   *)
(* crash and retry of startShardJob, and a late shard finds its hosts by   *)
(* name.                                                                   *)
THEOREM EachHostOnceHolds ==
  ASSUME OneAtATime, HostsNamed, HostsStay
  PROVE  Spec => []EachHostOnce
<1>1. EachHostOnce /\ ShardRunsItsHosts /\ ShardStaysSmall => EachHostOnce OBVIOUS
<1> QED BY <1>1, HostsAlways, PTL

(* A shard's Job acts on the hosts that status.shards records for the      *)
(* shard, though the Job is created first and the statuses stored later,   *)
(* perhaps by another reconcile that has planned the shards again          *)
(* (startParallelRun, startShardJob).                                      *)
THEOREM ShardRunsItsHostsHolds ==
  ASSUME OneAtATime, HostsNamed, HostsStay
  PROVE  Spec => []ShardRunsItsHosts
<1>1. EachHostOnce /\ ShardRunsItsHosts /\ ShardStaysSmall => ShardRunsItsHosts OBVIOUS
<1> QED BY <1>1, HostsAlways, PTL

(* schemas/src/runs.ts, a shard "is scoped to at most maxAmountOfHosts of  *)
(* those hosts": no Job of the run is given more targets (shardHosts,      *)
(* limitForHostNames).                                                     *)
THEOREM ShardStaysSmallHolds ==
  ASSUME OneAtATime, HostsNamed, HostsStay
  PROVE  Spec => []ShardStaysSmall
<1>1. EachHostOnce /\ ShardRunsItsHosts /\ ShardStaysSmall => ShardStaysSmall OBVIOUS
<1> QED BY <1>1, HostsAlways, PTL

-----------------------------------------------------------------------------
(* What the run's ConfigMap lists while the run is going.                  *)
SnapshotInv == cr.phase = "Running" => Listed(configMap) = Listed(inventory)

SnapshotKept == cr.phase = "Running" => Listed(configMap') = Listed(configMap)

(* While the run goes on its ConfigMap lists the inventory's hosts.        *)
LEMMA SnapshotStep ==
  ASSUME TypeInv, HostsNamed, HostsStay, ControlInv, HostInv, SnapshotInv, [Next]_vars
  PROVE  SnapshotInv' /\ SnapshotKept
<1>0. RenderedInv /\ ShardInv /\ ActedInv /\ StoredInv BY DEF HostInv, ControlInv
<1>1. Listed(configMap)' = Listed(configMap') /\ Listed(inventory)' = Listed(inventory') BY DEF Listed
<1>2. CASE EditInventory
  <2>1. configMap' = configMap /\ cr' = cr BY <1>2 DEF EditInventory, runVars
  <2>2. cr.phase = "Running" => Listed(inventory) # <<>>
    BY <1>0, NothingDone DEF StoredInv
  <2>3. Listed(inventory) \in {<<>>, Listed(inventory')} BY <1>2 DEF HostsStay, EditInventory
  <2> QED BY <1>1, <2>1, <2>2, <2>3 DEF SnapshotInv, SnapshotKept
<1>3. ASSUME inventory' = inventory, configMap' \in {configMap, inventory},
             cr'.phase = "Running" => cr.phase = "Running" \/ Listed(configMap') = Listed(inventory)
      PROVE  SnapshotInv' /\ SnapshotKept
  BY <1>1, <1>3 DEF SnapshotInv, SnapshotKept
<1>4. CASE \/ RequestCancel \/ FinishJob \/ ExpireJob \/ Resync \/ Crash \/ Restart
           \/ UNCHANGED vars \/ \E w \in Workers : FireTimer(w)
  <2>1. inventory' = inventory /\ configMap' = configMap /\ cr'.phase = cr.phase
    BY <1>4 DEF RequestCancel, FinishJob, ExpireJob, Resync, Crash, Restart, FireTimer, runVars, vars,
      TypeInv, RunsTyped
  <2> QED BY <1>3, <2>1
<1>5. ASSUME NEW w \in Workers, Reconcile(w) PROVE SnapshotInv' /\ SnapshotKept
  <2>0. StepInv(w) BY DEF ControlInv
  <2>1. CASE \/ PatchCancelled(w) \/ PatchResolving(w) \/ PatchEmpty(w) \/ PatchError(w)
             \/ PatchShards(w) \/ PatchFinal(w)
    <3>1. PICK phase, shards, answer :
            PatchRunStatus(w, phase, shards, answer) /\ (phase = "Running" => cr.phase = "Running")
      <4>1. PatchShards(w) \/ PatchFinal(w) => cr.phase = "Running"
        BY <2>0 DEF PatchShards, PatchFinal, StepInv, PollInv, PollSteps, Follows
      <4> QED BY <2>1, <4>1 DEF PatchCancelled, PatchResolving, PatchEmpty, PatchError, PatchShards, PatchFinal
    <3>2. inventory' = inventory /\ configMap' = configMap
      BY <2>1 DEF PatchCancelled, PatchResolving, PatchEmpty, PatchError, PatchShards, PatchFinal
    <3>3. cr' = cr \/ cr'.phase = phase BY <3>1, PatchEffect
    <3> QED BY <3>1, <3>2, <3>3, <1>3
  <2>2. CASE PatchRunning(w)
    <3>1. inventory' = inventory /\ configMap' = configMap BY <2>2 DEF PatchRunning
    <3>2. Planned(w) BY <2>2, <2>0 DEF PatchRunning, StepInv, PlanInv
    <3>3. Listed(groups[w]) = Listed(inventory) /\ configMap = groups[w]
      BY <3>2, <1>0, PlannedShards DEF Planned
    <3> QED BY <3>1, <3>3, <1>3
  <2>3. CASE \/ DeleteJobs(w) \/ Prepare(w) \/ StartShard(w) \/ PollShard(w) \/ PatchTtl(w)
             \/ Refill(w) \/ StartPending(w)
    <3>1. cr' = cr /\ inventory' = inventory /\ configMap' \in {configMap, inventory}
      BY <2>3 DEF DeleteJobs, Prepare, StartShard, PollShard, PatchTtl, Refill, StartPending, RenderInventory
    <3> QED BY <3>1, <1>3
  <2> QED BY <1>5, <2>1, <2>2, <2>3 DEF Reconcile
<1> QED BY <1>2, <1>4, <1>5 DEF Next

(* prepareRunResources rewrites the run's one ConfigMap while its shards   *)
(* run (run-controller.ts:232, called again at 796); what it lists stays   *)
(* the same.                                                               *)
THEOREM SnapshotKeepsHosts ==
  ASSUME OneAtATime, HostsNamed, HostsStay
  PROVE  Spec => [][SnapshotKept]_vars
<1> DEFINE IInv == TypeInv /\ ControlInv /\ HostInv /\ SnapshotInv
<1>1. Init => IInv BY InitTyped, InitControl, InitHosts DEF Init, SnapshotInv, NewRun
<1>2. IInv /\ [Next]_vars => IInv' /\ SnapshotKept BY StepTyped, StepControl, StepHosts, SnapshotStep
<1> HIDE DEF IInv, SnapshotKept
<1> QED BY <1>1, <1>2, PTL DEF Spec
==============================================================================
