------------------------------ MODULE CronJob ------------------------------
(***************************************************************************)
(* One AnsibleJob and the AnsibleRuns it owns: reconcileAnsibleJobs        *)
(* (packages/operator/src/controllers/ansiblejob-controller.ts), driven by *)
(* CronTicker (packages/operator/src/k8s/cron-ticker.ts) in the replica    *)
(* that leads (Leadership), beside users who trigger, delete and edit.     *)
(*                                                                         *)
(* Time matters only through the schedule: a moment is the number of       *)
(* scheduled times that have passed by then.                               *)
(***************************************************************************)
EXTENDS Naturals, Sequences, FiniteSetsExt

CONSTANTS
  Replicas,
  Policies,         \* concurrencyPolicy of the jobs considered
  SuccessfulLimit,  \* successfulRunsHistoryLimit
  FailedLimit,      \* failedRunsHistoryLimit
  MaxTimes,         \* bound: scheduled times
  MaxUserActions,   \* bound: runs started or deleted by hand, edits of the job
  MaxFailures       \* bound: calls that fail or whose answer is lost, leaders that stop

ASSUME PolicyAssumption == Policies \subseteq {"Allow", "Forbid", "Replace"}
ASSUME BoundsAssumption ==
  /\ SuccessfulLimit \in Nat /\ FailedLimit \in Nat
  /\ {MaxTimes, MaxUserActions, MaxFailures} \subseteq Nat

VARIABLES
  leaders,        \* replicas whose controllers run
  passed,         \* scheduled times that have passed
  job,            \* spec of the AnsibleJob
  lastSchedule,   \* status.lastScheduleTime, creation being 0
  lastRun,        \* status.lastRunRef, 0 for none
  active,         \* status.active
  runs,           \* every run ever labelled with the job, in order of creation
  step,           \* per replica: the call its tick makes next
  obj, dueSince,  \* per replica: the job as listed, the time it spawns for
  todo, found,    \* per replica: runs still to cancel or delete, runs found active
  spawned,        \* per replica: name of the run it created
  userActions, failures

statusVars == <<lastSchedule, lastRun, active>>
envVars == <<passed, job, userActions>>
localVars == <<obj, dueSince, todo, found, spawned>>
vars == <<leaders, envVars, statusVars, runs, step, localVars, failures>>

Leader == INSTANCE Leadership

----------------------------------------------------------------------------
Phases == {"Active", "Succeeded", "Failed"}    \* Failed: Error and Cancelled as well
ByHand == 0        \* origin of a triggered run
Api == "api"       \* its creator

Run(origin, by) == [phase |-> "Active", cancel |-> FALSE, origin |-> origin, by |-> by,
                    stored |-> TRUE]

Names == 0..(MaxTimes + MaxFailures + MaxUserActions)
Specs == [schedule : {"none", "invalid", "valid"}, suspend : BOOLEAN, policy : Policies]
Objs == [spec : Specs, lastSchedule : 0..MaxTimes]
Steps == {"idle", "evaluate", "listActive", "skip", "cancel", "spawn", "record",
          "listAll", "prune", "report"}

TypeOK ==
  /\ leaders \subseteq Replicas
  /\ passed \in 0..MaxTimes /\ job \in Specs
  /\ lastSchedule \in 0..MaxTimes /\ lastRun \in Names
  /\ active \subseteq Names
  /\ DOMAIN runs \subseteq Names
  /\ \A i \in DOMAIN runs :
       runs[i] \in [phase : Phases, cancel : BOOLEAN, origin : 0..MaxTimes,
                    by : Replicas \cup {Api}, stored : BOOLEAN]
  /\ step \in [Replicas -> Steps]
  /\ obj \in [Replicas -> Objs] /\ dueSince \in [Replicas -> 0..MaxTimes]
  /\ todo \in [Replicas -> SUBSET Names] /\ found \in [Replicas -> SUBSET Names]
  /\ spawned \in [Replicas -> Names]
  /\ userActions \in 0..MaxUserActions
  /\ failures \in 0..MaxFailures

NoObj == [spec |-> [schedule |-> "none", suspend |-> FALSE, policy |-> CHOOSE p \in Policies : TRUE],
          lastSchedule |-> 0]

Init ==
  /\ Leader!Init
  /\ passed = 0
  /\ job \in [schedule : {"none", "valid"}, suspend : BOOLEAN, policy : Policies]
  /\ lastSchedule = 0 /\ lastRun = 0 /\ active = {}
  /\ runs = <<>>
  /\ step = [r \in Replicas |-> "idle"]
  /\ obj = [r \in Replicas |-> NoObj]
  /\ dueSince = [r \in Replicas |-> 0]
  /\ todo = [r \in Replicas |-> {}] /\ found = [r \in Replicas |-> {}]
  /\ spawned = [r \in Replicas |-> 0]
  /\ userActions = 0 /\ failures = 0

Stored == {i \in DOMAIN runs : runs[i].stored}
With(phase) == {i \in Stored : runs[i].phase = phase}

----------------------------------------------------------------------------
(* The cluster and its users *)

TimePasses ==
  /\ passed < MaxTimes /\ passed' = passed + 1
  /\ UNCHANGED <<leaders, job, userActions, statusVars, runs, step, localVars,
                 failures>>

(* A run ends, cancelled or not; run-controller.ts. *)
Finish ==
  /\ \E i \in With("Active"), p \in {"Succeeded", "Failed"} :
       runs' = [runs EXCEPT ![i].phase = p]
  /\ UNCHANGED <<leaders, envVars, statusVars, step, localVars, failures>>

(* POST .../ansiblejobs/:name/trigger: no policy is looked at. *)
Trigger == runs' = Append(runs, Run(ByHand, Api)) /\ UNCHANGED job

DeleteRun ==
  /\ \E i \in Stored : runs' = [runs EXCEPT ![i].stored = FALSE]
  /\ UNCHANGED job

EditJob ==
  /\ \/ \E s \in {"none", "invalid", "valid"} : job' = [job EXCEPT !.schedule = s]
     \/ job' = [job EXCEPT !.suspend = ~@]
  /\ UNCHANGED runs

UserActs ==
  /\ userActions < MaxUserActions /\ userActions' = userActions + 1
  /\ Trigger \/ DeleteRun \/ EditJob
  /\ UNCHANGED <<leaders, passed, statusVars, step, localVars, failures>>

----------------------------------------------------------------------------
(* The tick of a leader *)

ClearLocals(r) ==
  /\ obj' = [obj EXCEPT ![r] = NoObj]
  /\ dueSince' = [dueSince EXCEPT ![r] = 0]
  /\ todo' = [todo EXCEPT ![r] = {}] /\ found' = [found EXCEPT ![r] = {}]
  /\ spawned' = [spawned EXCEPT ![r] = 0]

Goto(r, s) == step' = [step EXCEPT ![r] = s]

(* The tick ends; an error is logged and the next tick starts afresh. *)
EndTick(r) == Goto(r, "idle") /\ ClearLocals(r)

Failure == failures < MaxFailures /\ failures' = failures + 1

(* The schedule is dealt with; what it left in local variables is not used  *)
(* by the second half, history and status.                                  *)
ScheduleDone(r) == Goto(r, "listAll") /\ ClearLocals(r)

(* An awaited call that throws, with the effect it has on the cluster.      *)
Throws(r) == Failure /\ EndTick(r)

(* CronTicker.tick lists the jobs first and reconciles the copies it got.   *)
ListJobs(r) ==
  /\ r \in leaders /\ step[r] = "idle"
  /\ obj' = [obj EXCEPT ![r] = [spec |-> job, lastSchedule |-> lastSchedule]]
  /\ Goto(r, "evaluate")
  /\ UNCHANGED <<leaders, envVars, statusVars, runs, dueSince, todo, found, spawned,
                 failures>>

(* One value, however many times were missed. *)
MostRecentFireTime == passed

Due(r) ==
  /\ obj[r].spec.schedule = "valid" /\ ~obj[r].spec.suspend
  /\ MostRecentFireTime > obj[r].lastSchedule

Evaluate(r) ==
  /\ step[r] = "evaluate"
  /\ \/ obj[r].spec.schedule = "invalid" /\ EndTick(r)
     \/ /\ Due(r) /\ Goto(r, "listActive")
        /\ dueSince' = [dueSince EXCEPT ![r] = MostRecentFireTime]
        /\ UNCHANGED <<obj, todo, found, spawned>>
     \/ obj[r].spec.schedule # "invalid" /\ ~Due(r) /\ ScheduleDone(r)
  /\ UNCHANGED <<leaders, envVars, statusVars, runs, failures>>

AfterActiveNoForbid(policy, activeRuns) ==
  IF activeRuns # {} /\ policy = "Replace" THEN "cancel" ELSE "spawn"

AfterActive(policy, activeRuns) ==
  CASE activeRuns = {}    -> "spawn"
    [] policy = "Forbid"  -> "skip"
    [] policy = "Replace" -> "cancel"
    [] policy = "Allow"   -> "spawn"

ListActive(r) ==
  /\ step[r] = "listActive"
  /\ LET next == AfterActive(obj[r].spec.policy, With("Active")) IN
     \/ /\ Goto(r, next)
        /\ todo' = [todo EXCEPT ![r] = IF next = "cancel" THEN With("Active") ELSE {}]
        /\ UNCHANGED <<obj, dueSince, found, spawned, failures>>
     \/ Throws(r)
  /\ UNCHANGED <<leaders, envVars, statusVars, runs>>

SkipForgotten(r) ==
  /\ step[r] = "skip" /\ ScheduleDone(r)
  /\ UNCHANGED <<leaders, envVars, statusVars, runs, failures>>

(* Forbid: the occurrence is dropped, lastScheduleTime is now. *)
Skip(r) ==
  /\ step[r] = "skip"
  /\ \/ ScheduleDone(r) /\ lastSchedule' = passed /\ UNCHANGED failures
     \/ Throws(r) /\ lastSchedule' \in {lastSchedule, passed}
  /\ UNCHANGED <<leaders, envVars, lastRun, active, runs>>

(* Replace: one patch after the other; that of a deleted run throws.        *)
CancelOne(r) ==
  /\ step[r] = "cancel"
  /\ \E i \in todo[r] :
       \/ /\ runs[i].stored
          /\ runs' = [runs EXCEPT ![i].cancel = TRUE]
          /\ todo' = [todo EXCEPT ![r] = {}]
          /\ Goto(r, "spawn")
          /\ UNCHANGED <<obj, dueSince, found, spawned, failures>>
       \/ ~runs[i].stored /\ EndTick(r) /\ UNCHANGED <<runs, failures>>
  /\ UNCHANGED <<leaders, envVars, statusVars>>

Cancel(r) ==
  /\ step[r] = "cancel"
  /\ \E i \in todo[r] :
       \/ /\ runs[i].stored
          /\ runs' = [runs EXCEPT ![i].cancel = TRUE]
          /\ todo' = [todo EXCEPT ![r] = @ \ {i}]
          /\ Goto(r, IF todo[r] = {i} THEN "spawn" ELSE "cancel")
          /\ UNCHANGED <<obj, dueSince, found, spawned, failures>>
       \/ ~runs[i].stored /\ EndTick(r) /\ UNCHANGED <<runs, failures>>
       \/ /\ runs[i].stored /\ Throws(r)
          /\ runs' \in {runs, [runs EXCEPT ![i].cancel = TRUE]}
  /\ UNCHANGED <<leaders, envVars, statusVars>>

(* spawnRun: generateName makes every create a new run. *)
Spawn(r) ==
  /\ step[r] = "spawn"
  /\ \/ /\ Goto(r, "record")
        /\ runs' = Append(runs, Run(dueSince[r], r))
        /\ spawned' = [spawned EXCEPT ![r] = Len(runs) + 1]
        /\ UNCHANGED <<obj, dueSince, todo, found, failures>>
     \/ Throws(r) /\ runs' \in {runs, Append(runs, Run(dueSince[r], r))}
  /\ UNCHANGED <<leaders, envVars, statusVars>>

RecordNoTime(r) ==
  /\ step[r] = "record" /\ ScheduleDone(r) /\ lastRun' = spawned[r]
  /\ UNCHANGED <<leaders, envVars, lastSchedule, active, runs, failures>>

Record(r) ==
  /\ step[r] = "record"
  /\ LET patch == lastSchedule' = passed /\ lastRun' = spawned[r] IN
     \/ ScheduleDone(r) /\ patch /\ UNCHANGED failures
     \/ Throws(r) /\ (patch \/ UNCHANGED <<lastSchedule, lastRun>>)
  /\ UNCHANGED <<leaders, envVars, active, runs>>

(* The oldest of S, all but the last limit. *)
AllButLast(S, limit) == {i \in S : Cardinality({j \in S : j > i}) >= limit}

ToPrune == AllButLast(With("Succeeded"), SuccessfulLimit)
             \cup AllButLast(With("Failed"), FailedLimit)

ListAll(r) ==
  /\ step[r] = "listAll"
  /\ \/ /\ todo' = [todo EXCEPT ![r] = ToPrune]
        /\ found' = [found EXCEPT ![r] = With("Active")]
        /\ Goto(r, IF ToPrune = {} THEN "report" ELSE "prune")
        /\ UNCHANGED <<obj, dueSince, spawned, failures>>
     \/ Throws(r)
  /\ UNCHANGED <<leaders, envVars, statusVars, runs>>

(* Succeeded runs first, oldest first. *)
NextToPrune(S) ==
  LET succeeded == {i \in S : runs[i].phase = "Succeeded"}
  IN Min(IF succeeded # {} THEN succeeded ELSE S)

(* One delete after the other; one that fails is passed over. *)
Prune(r) ==
  /\ step[r] = "prune"
  /\ LET i == NextToPrune(todo[r]) IN
     /\ \/ /\ runs' = [runs EXCEPT ![i].stored = FALSE]
           /\ UNCHANGED failures
        \/ Failure /\ UNCHANGED runs
     /\ todo' = [todo EXCEPT ![r] = @ \ {i}]
     /\ Goto(r, IF todo[r] = {i} THEN "report" ELSE "prune")
  /\ UNCHANGED <<leaders, envVars, statusVars, obj, dueSince, found, spawned>>

(* The last patches: status.active and the Ready condition. *)
Report(r) ==
  /\ step[r] = "report"
  /\ \/ active' = found[r] /\ EndTick(r) /\ UNCHANGED failures
     \/ Throws(r) /\ active' \in {active, found[r]}
  /\ UNCHANGED <<leaders, envVars, lastSchedule, lastRun, runs>>

Tick(r) ==
  \/ ListJobs(r) \/ Evaluate(r) \/ ListActive(r) \/ Skip(r) \/ Cancel(r) \/ Spawn(r)
  \/ Record(r) \/ ListAll(r) \/ Prune(r) \/ Report(r)

(* Leadership moves only when a process ends, in the middle of its tick.    *)
Lead(r) ==
  /\ Leader!StartLeading(r)
  /\ UNCHANGED <<envVars, statusVars, runs, step, localVars, failures>>

Stop(r) ==
  /\ Failure /\ Leader!StopLeading(r) /\ EndTick(r)
  /\ UNCHANGED <<envVars, statusVars, runs>>

Next ==
  \/ TimePasses \/ Finish \/ UserActs
  \/ \E r \in Replicas : Tick(r) \/ Lead(r) \/ Stop(r)

Spec == Init /\ [][Next]_vars

(* A leader is elected, its timer fires and its calls are answered. *)
FairSpec ==
  /\ Spec /\ WF_vars(\E r \in Replicas : Lead(r))
  /\ \A r \in Replicas : WF_vars(Tick(r))

----------------------------------------------------------------------------
(* Properties *)

Scheduled == {i \in DOMAIN runs : runs[i].origin # ByHand}

(* ansiblejob-controller.ts: "exactly one operator replica ever spawns a    *)
(* Run for a given schedule tick".                                          *)
OneReplicaPerTick ==
  \A i, j \in Scheduled : runs[i].origin = runs[j].origin => runs[i].by = runs[j].by

(* "operator downtime never causes a burst of catch-up runs": since any     *)
(* scheduled time no more runs were spawned than times have passed, but for *)
(* one each time a call failed or the leader stopped half-way; and none is  *)
(* spawned for an older time than one before it.                            *)
NoBurst ==
  /\ \A t \in 1..passed :
       Cardinality({i \in Scheduled : runs[i].origin >= t})
         <= (passed - t + 1) + failures
  /\ \A i, j \in Scheduled : i < j => runs[i].origin <= runs[j].origin

(* With the policy Forbid the schedule never runs a playbook beside one it  *)
(* started before, and with Replace all its runs but the newest have        *)
(* finished, are deleted or were asked to stop, whatever failed in between. *)
ConcurrencyPolicy ==
  \A i, j \in Scheduled \cap With("Active") : i < j =>
    /\ job.policy # "Forbid"
    /\ job.policy = "Replace" => runs[i].cancel

(* A schedule that stays on is caught up with: no failure or handover       *)
(* leaves its last time unanswered.                                         *)
ScheduleCatchesUp ==
  <>[](job.schedule = "valid" /\ ~job.suspend) => <>[](lastSchedule = passed)
=============================================================================
