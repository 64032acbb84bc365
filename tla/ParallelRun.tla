---------------------------- MODULE ParallelRun ----------------------------
(***************************************************************************)
(* An AnsibleRun with spec.parallel.enabled: startParallelRun, startShardJob,*)
(* pollParallelRun and pollShardJob of                                     *)
(* packages/operator/src/controllers/run-controller.ts, one action per API *)
(* call.  What parallel runs share with single ones (cached snapshots that *)
(* lag, SSH keys, log capture, deletion of the run) is in RunController    *)
(* and is left out here: a reconcile starts from the stored run.           *)
(***************************************************************************)
EXTENDS HostSharding

CONSTANTS
  Inventories,         \* the group lists spec.inventoryRef may resolve to
  FirstInventory,      \* the one it resolves to when the run is created
  Edits,               \* pairs: what it resolves to before and after it is edited
  MaxAmountOfHosts, MaxConcurrentRuns,     \* spec.parallel
  Workers,             \* slots for reconciles of this run that may be in flight at once
  Env,                 \* the disturbances a run allows, a subset of Disturbances
  MaxFaults, MaxCrashes                    \* bounds on failing calls and on crashes

(* "overlap": a timer may fire while another reconcile is in flight.       *)
(* "fault":   API calls fail, before or after they took effect.            *)
(* "drift":   the inventory is edited while the run is going.              *)
(* "cancel":  somebody cancels the run.                                    *)
Disturbances == {"overlap", "fault", "drift", "cancel"}

InvNames == UNION {AnsibleTargets(g, {}) : g \in Inventories}
Hosts == UNION {ToSet(Flatten(g)) : g \in Inventories}
HostNames == {h.name : h \in Hosts}

ASSUME ParallelAssumption ==
  /\ MaxAmountOfHosts \in Nat \ {0} /\ MaxConcurrentRuns \in Nat \ {0}
  /\ Env \subseteq Disturbances /\ FirstInventory \in Inventories
  /\ IsFiniteSet(Inventories) /\ \A g \in Inventories : g \in Seq(Seq(Hosts))
  /\ Edits \subseteq Inventories \X Inventories
  /\ MaxFaults \in Nat /\ MaxCrashes \in Nat

VARIABLES
  cr,          \* the stored AnsibleRun: cancel, phase, shards
  inventory,   \* what spec.inventoryRef resolves to now
  configMap,   \* the run's inventory ConfigMap, <<>> before it exists
  jobs,        \* per shard its Job: state, targets, ttl
  outcomes,    \* per shard the results a Job of it ever finished with
  acted,       \* per inventory name the Jobs that ever acted on it, 2 for two or more
  up,          \* the operator process is running
  armed,       \* ResourceController.timers holds a timer for the run
  pc, obj,     \* per reconcile in flight: its next call, the run it was given
  updated,     \* the shard statuses it is assembling
  todo,        \* the shards its loop has still to visit
  groups,      \* prep.groups
  faults, crashes

runVars   == <<cr, armed>>
jobVars   == <<jobs, outcomes, acted>>
localVars == <<pc, obj, updated, todo, groups>>
vars == <<cr, inventory, configMap, jobVars, up, armed, localVars, faults, crashes>>

----------------------------------------------------------------------------
Terminal == {"Succeeded", "Failed", "Error", "Cancelled"}
TerminalShard == {"Succeeded", "Failed", "Error"}
Phases == {"None", "Resolving", "Running"} \cup Terminal
ShardPhases == {"Pending", "Running"} \cup TerminalShard
Results == {"succeeded", "failed"}
Steps == {"idle", "deleteJobs", "patchCancelled", "patchResolving", "prepare", "startShards",
          "patchRunning", "patchEmpty", "patchError", "pollShards", "patchTtl", "refill",
          "startPending", "patchShards", "patchFinal"}

MaxShards == Max({Len(ShardHosts(g, MaxAmountOfHosts)) : g \in Inventories})
Indices == 1..MaxShards

(* status.shards[k]: jobRef is there unless the phase is Pending.          *)
Shards == [hostNames: Seq(HostNames), phase: ShardPhases]
Runs == [cancel: BOOLEAN, phase: Phases, shards: Seq(Shards)]
NewRun == [cancel |-> FALSE, phase |-> "None", shards |-> <<>>]
NoJob == [state |-> "absent", targets |-> {}, ttl |-> FALSE]

TypeOK ==
  /\ cr \in Runs
  /\ inventory \in Inventories /\ configMap \in Inventories \cup {<<>>}
  /\ jobs \in [Indices -> [state: {"absent", "active"} \cup Results,
                           targets: SUBSET InvNames, ttl: BOOLEAN]]
  /\ outcomes \in [Indices -> SUBSET Results]
  /\ acted \in [InvNames -> 0..2]
  /\ up \in BOOLEAN /\ armed \in BOOLEAN
  /\ pc \in [Workers -> Steps]
  /\ obj \in [Workers -> Runs]
  /\ updated \in [Workers -> Seq(Shards)]
  /\ todo \in [Workers -> SUBSET Indices]
  /\ groups \in [Workers -> Inventories \cup {<<>>}]
  /\ faults \in 0..MaxFaults /\ crashes \in 0..MaxCrashes

Init ==
  /\ cr = NewRun
  /\ inventory = FirstInventory /\ configMap = <<>>
  /\ jobs = [k \in Indices |-> NoJob] /\ outcomes = [k \in Indices |-> {}]
  /\ acted = [h \in InvNames |-> 0]
  /\ up = TRUE /\ armed = TRUE
  /\ pc = [w \in Workers |-> "idle"]
  /\ obj = [w \in Workers |-> NewRun]
  /\ updated = [w \in Workers |-> <<>>]
  /\ todo = [w \in Workers |-> {}]
  /\ groups = [w \in Workers |-> <<>>]
  /\ faults = 0 /\ crashes = 0

InPhase(shards, phase) == {k \in DOMAIN shards : shards[k].phase = phase}

FirstOfOneMore(S, n) == {k \in S : Cardinality({l \in S : l < k}) <= n}   \* mutant: off by one

(* The first n of a set of shard indices, in the order the loops visit them. *)
FirstOf(S, n) == {k \in S : Cardinality({l \in S : l <= k}) <= n}

----------------------------------------------------------------------------
(* API calls *)

Answers == {"ok", "refused", "lost"}

Spend(answer) ==
  /\ answer # "ok" => "fault" \in Env /\ faults < MaxFaults
  /\ faults' = IF answer = "ok" THEN faults ELSE faults + 1

(* patchRunStatus: the snapshot's status and the patch, merged over the     *)
(* stored status; the watch then schedules the run.                         *)
PatchRunStatus(w, phase, shards, answer) ==
  /\ Spend(answer)
  /\ cr' = IF answer = "refused" THEN cr
           ELSE [cr EXCEPT !.phase = phase, !.shards = IF shards # <<>> THEN shards ELSE @]

Reset(w) ==
  /\ pc' = [pc EXCEPT ![w] = "idle"]
  /\ obj' = [obj EXCEPT ![w] = NewRun]
  /\ updated' = [updated EXCEPT ![w] = <<>>]
  /\ todo' = [todo EXCEPT ![w] = {}]
  /\ groups' = [groups EXCEPT ![w] = <<>>]

(* The reconcile ends: requeued, backed off, or woken by its own patch.     *)
Return(w) == Reset(w) /\ armed' = TRUE

Goto(w, step) == pc' = [pc EXCEPT ![w] = step] /\ UNCHANGED <<obj, groups, armed>>

AllTerminal(shards) == \A k \in DOMAIN shards : shards[k].phase \in TerminalShard

(* The end of pollParallelRun, with the shard statuses it arrived at.       *)
Conclude(w, shards) ==
  \/ ~AllTerminal(shards) /\ shards = obj[w].shards /\ Return(w)
  \/ /\ AllTerminal(shards) \/ shards # obj[w].shards
     /\ Goto(w, IF AllTerminal(shards) THEN "patchFinal" ELSE "patchShards")
     /\ updated' = [updated EXCEPT ![w] = shards]
     /\ todo' = [todo EXCEPT ![w] = {}]

PutJobAnyway(k, limit) ==        \* mutant: the Job's name is generated
  LET targets == AnsibleTargets(configMap, limit)
  IN /\ jobs' = [jobs EXCEPT ![k] = [state |-> "active", targets |-> targets, ttl |-> FALSE]]
     /\ acted' = [h \in InvNames |-> IF h \in targets /\ acted[h] < 2
                                     THEN acted[h] + 1 ELSE acted[h]]
     /\ UNCHANGED outcomes

(* What createJob makes of shard k: its Job's name is fixed, so an existing *)
(* Job is read instead.                                                     *)
PutJob(k, limit) ==
  LET targets == AnsibleTargets(configMap, limit)
  IN IF jobs[k].state = "absent"
     THEN /\ jobs' = [jobs EXCEPT ![k] = [state |-> "active", targets |-> targets, ttl |-> FALSE]]
          /\ acted' = [h \in InvNames |-> IF h \in targets /\ acted[h] < 2
                                          THEN acted[h] + 1 ELSE acted[h]]
          /\ UNCHANGED outcomes
     ELSE UNCHANGED jobVars

RemoveJob(k) == jobs' = [jobs EXCEPT ![k] = NoJob] /\ UNCHANGED <<outcomes, acted>>

----------------------------------------------------------------------------
(* Users, Kubernetes and the work queue *)

RequestCancel ==
  /\ "cancel" \in Env /\ ~cr.cancel
  /\ cr' = [cr EXCEPT !.cancel = TRUE] /\ armed' = up
  /\ UNCHANGED <<inventory, configMap, jobVars, up, localVars, faults, crashes>>

EditInventory ==
  /\ "drift" \in Env
  /\ \E edit \in Edits : edit[1] = inventory /\ inventory' = edit[2]
  /\ UNCHANGED <<runVars, configMap, jobVars, up, localVars, faults, crashes>>

FinishJob ==
  /\ \E k \in Indices, r \in Results :
       /\ jobs[k].state = "active"
       /\ jobs' = [jobs EXCEPT ![k].state = r]
       /\ outcomes' = [outcomes EXCEPT ![k] = @ \cup {r}]
  /\ UNCHANGED <<runVars, inventory, configMap, acted, up, localVars, faults, crashes>>

ExpireJob ==
  /\ \E k \in Indices : jobs[k].state \in Results /\ jobs[k].ttl /\ RemoveJob(k)
  /\ UNCHANGED <<runVars, inventory, configMap, up, localVars, faults, crashes>>

(* The periodic relist schedules every key. *)
Resync ==
  /\ up /\ armed' = TRUE
  /\ UNCHANGED <<cr, inventory, configMap, jobVars, up, localVars, faults, crashes>>

(* reconcileRun up to its first call. *)
EntryStep(o) ==
  CASE o.cancel /\ o.phase # "None" -> IF InPhase(o.shards, "Pending") # DOMAIN o.shards
                                       THEN "deleteJobs" ELSE "patchCancelled"
    [] ~(o.cancel /\ o.phase # "None") /\ o.phase = "Running" -> "pollShards"
    [] OTHER -> IF o.phase = "Resolving" THEN "prepare" ELSE "patchResolving"


ToPoll(shards) == InPhase(shards, "Running")

FireTimer(w) ==
  /\ up /\ armed /\ pc[w] = "idle"
  /\ "overlap" \notin Env => \A v \in Workers : pc[v] = "idle"
  /\ armed' = FALSE
  /\ IF cr.phase \in Terminal
     THEN UNCHANGED localVars
     ELSE /\ pc' = [pc EXCEPT ![w] = EntryStep(cr)]
          /\ obj' = [obj EXCEPT ![w] = cr]
          /\ updated' = [updated EXCEPT ![w] = cr.shards]
          /\ todo' = [todo EXCEPT ![w] =
               IF EntryStep(cr) = "deleteJobs" THEN DOMAIN cr.shards \ InPhase(cr.shards, "Pending")
               ELSE ToPoll(cr.shards)]
          /\ UNCHANGED groups
  /\ UNCHANGED <<cr, inventory, configMap, jobVars, up, faults, crashes>>

Crash ==
  /\ up /\ crashes < MaxCrashes
  /\ up' = FALSE /\ armed' = FALSE /\ crashes' = crashes + 1
  /\ pc' = [w \in Workers |-> "idle"]
  /\ obj' = [w \in Workers |-> NewRun]
  /\ updated' = [w \in Workers |-> <<>>]
  /\ todo' = [w \in Workers |-> {}]
  /\ groups' = [w \in Workers |-> <<>>]
  /\ UNCHANGED <<cr, inventory, configMap, jobVars, faults>>

Restart ==
  /\ ~up /\ up' = TRUE /\ armed' = TRUE
  /\ UNCHANGED <<cr, inventory, configMap, jobVars, localVars, faults, crashes>>

----------------------------------------------------------------------------
(* reconcileRun: cancellation *)

(* deleteJob(...).catch(() => undefined), for every shard with a jobRef. *)
DeleteJobs(w) ==
  /\ pc[w] = "deleteJobs"
  /\ \E answer \in Answers :
       /\ Spend(answer)
       /\ IF answer = "refused" THEN UNCHANGED jobVars ELSE RemoveJob(Min(todo[w]))
  /\ todo' = [todo EXCEPT ![w] = @ \ {Min(@)}]
  /\ Goto(w, IF Cardinality(todo[w]) = 1 THEN "patchCancelled" ELSE "deleteJobs")
  /\ UNCHANGED <<cr, inventory, configMap, up, updated, crashes>>

PatchCancelled(w) ==
  /\ pc[w] = "patchCancelled"
  /\ \E answer \in Answers : PatchRunStatus(w, "Cancelled", obj[w].shards, answer)
  /\ Return(w)
  /\ UNCHANGED <<inventory, configMap, jobVars, up, crashes>>

----------------------------------------------------------------------------
(* startRun, startParallelRun *)

PatchResolving(w) ==
  /\ pc[w] = "patchResolving"
  /\ \E answer \in Answers :
       /\ PatchRunStatus(w, "Resolving", obj[w].shards, answer)
       /\ Goto(w, IF answer = "ok" THEN "prepare" ELSE "patchError")
  /\ UNCHANGED <<inventory, configMap, jobVars, up, updated, todo, crashes>>

(* prepareRunResources renders the inventory it resolved into the run's one *)
(* ConfigMap; a failure may come before or after that.                      *)
RenderInventory(answer) ==
  /\ Spend(answer)
  /\ configMap' = IF answer = "refused" THEN configMap ELSE inventory

Pending(shards) ==
  [k \in DOMAIN shards |-> [hostNames |-> shards[k].hostNames, phase |-> "Pending"]]

(* The first loop of startParallelRun starts shards while fewer than        *)
(* maxConcurrentRuns run; the others stay Pending.                          *)
Prepare(w) ==
  /\ pc[w] = "prepare"
  /\ \/ /\ RenderInventory("ok")
        /\ groups' = [groups EXCEPT ![w] = inventory]
        /\ \E shards \in {ShardHosts(inventory, MaxAmountOfHosts)} :
              /\ updated' = [updated EXCEPT ![w] = Pending(shards)]
              /\ todo' = [todo EXCEPT ![w] = FirstOf(DOMAIN shards, MaxConcurrentRuns)]
              /\ pc' = [pc EXCEPT ![w] = IF shards = <<>> THEN "patchEmpty" ELSE "startShards"]
        /\ UNCHANGED <<obj, armed>>
     \/ /\ \E answer \in {"refused", "lost"} : RenderInventory(answer)
        /\ Goto(w, "patchError")
        /\ UNCHANGED <<updated, todo>>
     \/ RenderInventory("refused") /\ Return(w)      \* requeue: an SSH key is not derived yet
  /\ UNCHANGED <<cr, inventory, jobVars, up, crashes>>

Started(w, k) == [updated[w] EXCEPT ![k].phase = "Running"]

(* A failure leaves startRun unhandled: its promise is returned, not awaited. *)
StartShard(w) ==
  /\ pc[w] = "startShards"
  /\ \E answer \in Answers, k \in {Min(todo[w])},
        limit \in {ShardHosts(groups[w], MaxAmountOfHosts)[Min(todo[w])].limit} :
          /\ Spend(answer)
          /\ IF answer = "refused" THEN UNCHANGED jobVars ELSE PutJob(k, limit)
          /\ \/ answer # "ok" /\ Return(w)
             \/ /\ answer = "ok"
                /\ updated' = [updated EXCEPT ![w] = Started(w, k)]
                /\ todo' = [todo EXCEPT ![w] = @ \ {k}]
                /\ Goto(w, IF todo[w] = {k} THEN "patchRunning" ELSE "startShards")
  /\ UNCHANGED <<cr, inventory, configMap, up, crashes>>

PatchRunning(w) ==
  /\ pc[w] = "patchRunning"
  /\ \E answer \in Answers : PatchRunStatus(w, "Running", updated[w], answer)
  /\ Return(w)
  /\ UNCHANGED <<inventory, configMap, jobVars, up, crashes>>

(* An inventory without hosts: nothing to do, not a failure. *)
PatchEmpty(w) ==
  /\ pc[w] = "patchEmpty"
  /\ \E answer \in Answers : PatchRunStatus(w, "Succeeded", <<>>, answer)
  /\ Return(w)
  /\ UNCHANGED <<inventory, configMap, jobVars, up, crashes>>

PatchError(w) ==
  /\ pc[w] = "patchError"
  /\ \E answer \in Answers : PatchRunStatus(w, "Error", obj[w].shards, answer)
  /\ Return(w)
  /\ UNCHANGED <<inventory, configMap, jobVars, up, crashes>>

----------------------------------------------------------------------------
(* pollParallelRun, pollShardJob *)

FreeSlotsUsed(shards) ==         \* mutant: a shard that has finished keeps its slot
  MaxConcurrentRuns - Cardinality(DOMAIN shards \ InPhase(shards, "Pending"))

FreeSlots(shards) == MaxConcurrentRuns - Cardinality(InPhase(shards, "Running"))

(* The first loop goes on with the next Running shard; after the last one   *)
(* pending shards are started if a slot is free.                            *)
AfterPoll(w, shards, rest) ==
  IF rest # {} \/ (FreeSlots(shards) > 0 /\ InPhase(shards, "Pending") # {})
  THEN /\ Goto(w, IF rest # {} THEN "pollShards" ELSE "refill")
       /\ updated' = [updated EXCEPT ![w] = shards]
       /\ todo' = [todo EXCEPT ![w] = rest]
  ELSE Conclude(w, shards)

ShardPhaseOk(state) == "Succeeded"      \* mutant: a finished shard counts as succeeded

ShardPhase(state) == IF state = "succeeded" THEN "Succeeded" ELSE "Failed"

(* pollJobToCompletion as far as getJob: any failure counts as 'not-found'. *)
PollShard(w) ==
  /\ pc[w] = "pollShards"
  /\ \/ todo[w] = {} /\ AfterPoll(w, updated[w], {}) /\ UNCHANGED faults
     \/ /\ todo[w] # {}
        /\ LET k == Min(todo[w])
               rest == todo[w] \ {k}
               become(phase) == [updated[w] EXCEPT ![k].phase = phase]
           IN \E answer \in {"ok", "refused"} :
                /\ Spend(answer)
                /\ \/ /\ answer = "refused" \/ jobs[k].state = "absent"
                      /\ AfterPoll(w, become("Error"), rest)
                   \/ /\ answer = "ok" /\ jobs[k].state = "active"
                      /\ AfterPoll(w, updated[w], rest)
                   \/ /\ answer = "ok" /\ jobs[k].state \in Results
                      /\ Goto(w, "patchTtl")
                      /\ updated' = [updated EXCEPT ![w] = become(ShardPhase(jobs[k].state))]
                      /\ UNCHANGED todo
  /\ UNCHANGED <<cr, inventory, configMap, jobVars, up, crashes>>

PatchTtl(w) ==
  /\ pc[w] = "patchTtl"
  /\ LET k == Min(todo[w])
     IN /\ \E answer \in Answers :
             /\ Spend(answer)
             /\ jobs' = IF answer = "refused" \/ jobs[k].state = "absent" THEN jobs
                        ELSE [jobs EXCEPT ![k].ttl = TRUE]
        /\ AfterPoll(w, updated[w], todo[w] \ {k})
  /\ UNCHANGED <<cr, inventory, configMap, outcomes, acted, up, crashes>>

(* The references are resolved again; failures are logged and swallowed.    *)
Refill(w) ==
  /\ pc[w] = "refill"
  /\ \/ /\ RenderInventory("ok")
        /\ groups' = [groups EXCEPT ![w] = inventory]
        /\ pc' = [pc EXCEPT ![w] = "startPending"]
        /\ todo' = [todo EXCEPT ![w] = FirstOf(InPhase(updated[w], "Pending"),
                                               FreeSlots(updated[w]))]
        /\ UNCHANGED <<obj, updated, armed>>
     \/ /\ \E answer \in {"refused", "lost"} : RenderInventory(answer)
        /\ Conclude(w, updated[w])
  /\ UNCHANGED <<cr, inventory, jobVars, up, crashes>>

StartPending(w) ==
  /\ pc[w] = "startPending"
  /\ LET k == Min(todo[w])
         limit == LimitForHostNames(groups[w], updated[w][k].hostNames)
     IN \E answer \in Answers :
          /\ Spend(answer)
          /\ IF answer = "refused" THEN UNCHANGED jobVars ELSE PutJob(k, limit)
          /\ \/ answer # "ok" /\ Conclude(w, updated[w])
             \/ answer = "ok" /\ todo[w] = {k} /\ Conclude(w, Started(w, k))
             \/ /\ answer = "ok" /\ todo[w] # {k}
                /\ Goto(w, "startPending")
                /\ updated' = [updated EXCEPT ![w] = Started(w, k)]
                /\ todo' = [todo EXCEPT ![w] = @ \ {k}]
  /\ UNCHANGED <<cr, inventory, configMap, up, crashes>>

PatchShards(w) ==
  /\ pc[w] = "patchShards"
  /\ \E answer \in Answers : PatchRunStatus(w, obj[w].phase, updated[w], answer)
  /\ Return(w)
  /\ UNCHANGED <<inventory, configMap, jobVars, up, crashes>>

FinalPhase(shards) ==
  IF \A k \in DOMAIN shards : shards[k].phase = "Succeeded" THEN "Succeeded" ELSE "Failed"

PatchFinal(w) ==
  /\ pc[w] = "patchFinal"
  /\ \E answer \in Answers : PatchRunStatus(w, FinalPhase(updated[w]), updated[w], answer)
  /\ Return(w)
  /\ UNCHANGED <<inventory, configMap, jobVars, up, crashes>>

----------------------------------------------------------------------------
Reconcile(w) ==
  \/ DeleteJobs(w) \/ PatchCancelled(w)
  \/ PatchResolving(w) \/ Prepare(w) \/ StartShard(w) \/ PatchRunning(w)
  \/ PatchEmpty(w) \/ PatchError(w)
  \/ PollShard(w) \/ PatchTtl(w) \/ Refill(w) \/ StartPending(w)
  \/ PatchShards(w) \/ PatchFinal(w)

Next ==
  \/ RequestCancel \/ EditInventory \/ FinishJob \/ ExpireJob
  \/ Resync \/ Crash \/ Restart
  \/ \E w \in Workers : FireTimer(w) \/ Reconcile(w)

Spec == Init /\ [][Next]_vars

(* Timers fire, awaited calls return, a crashed operator is restarted. *)
Fairness ==
  /\ WF_vars(Restart) /\ WF_vars(\E w \in Workers : FireTimer(w))
  /\ \A w \in Workers : WF_vars(Reconcile(w))

FairSpec == Spec /\ Fairness

----------------------------------------------------------------------------
(* Properties *)

ActiveJobs == {k \in Indices : jobs[k].state = "active"}

(* schemas/src/runs.ts: "at most maxConcurrentRuns are ever in flight at    *)
(* once for this run", also when shards are restarted after a crash and     *)
(* filled in after others have finished. (A shard whose getJob fails is     *)
(* taken for lost and its slot refilled beside its Job.)                    *)
ConcurrencyLimit == faults = 0 => Cardinality(ActiveJobs) <= MaxConcurrentRuns

(* schemas/src/runs.ts: a shard's pod "is scoped to at most                 *)
(* maxAmountOfHosts of those hosts".                                        *)
ShardStaysSmall == \A k \in Indices : Cardinality(jobs[k].targets) <= MaxAmountOfHosts

(* Splitting a run changes nothing about what is done: no host is acted on  *)
(* by two Jobs, and a run that succeeded acted on all that its inventory    *)
(* listed when it was rendered last.                                        *)
EachHostOnce ==
  /\ \A h \in InvNames : acted[h] <= 1
  /\ cr.phase = "Succeeded" =>
       \A h \in AnsibleTargets(configMap, {}) : acted[h] = 1

(* A shard's Job acts on the hosts the status records for the shard, no     *)
(* matter which of the two was written first: host-sharding.ts calls a      *)
(* shard's index "stable for the lifetime of the run".                      *)
ShardRunsItsHosts ==
  \A k \in DOMAIN cr.shards :
    jobs[k].state # "absent" /\ cr.shards[k].phase # "Pending" =>
      jobs[k].targets = {h.inv : h \in {g \in Hosts : g.name \in ToSet(cr.shards[k].hostNames)}}

(* A run that is over accounts for its shards: it succeeds only if each     *)
(* shard's Job did, fails only if one of its shards failed or was lost, and *)
(* leaves no shard's Job running, cancelled included (unless a call failed  *)
(* or the operator crashed before the Job was recorded).                    *)
ResultOfAllShards ==
  /\ cr.phase = "Succeeded" => \A k \in DOMAIN cr.shards : "succeeded" \in outcomes[k]
  /\ cr.phase = "Failed" => \E k \in DOMAIN cr.shards :
       "failed" \in outcomes[k] \/ cr.shards[k].phase = "Error"
  /\ faults = 0 /\ crashes = 0 /\ cr.phase \in Terminal => ActiveJobs = {}

(* inventory-controller.ts: what a run used is "a separate, immutable       *)
(* snapshot taken at run time (AnsibleRun.status.resolvedInventoryConfigMapRef)". *)
SnapshotImmutable == [][cr.phase = "Running" => configMap' = configMap]_vars

(* The run ends if its playbooks do, or it is cancelled: a finishing shard  *)
(* frees its slot for the next one, and no failure or crash leaves a        *)
(* pending shard behind.                                                    *)
ParallelRunFinishes ==
  <>[](ActiveJobs = {} \/ cr.cancel) => <>[](cr.phase \in Terminal)
=============================================================================
