--------------------------- MODULE RunController ---------------------------
(***************************************************************************)
(* The AnsibleRun reconciler of the operator, for one run without          *)
(* spec.parallel: packages/operator/src/controllers/run-controller.ts, the *)
(* work queue that calls it (packages/operator/src/k8s/informer.ts) and    *)
(* the Kubernetes objects it reads and writes.                             *)
(*                                                                         *)
(* A reconcile is not atomic: every API call is a step of its own, the     *)
(* object it works on is the snapshot the informer cached when the timer   *)
(* fired, and nothing stops a second timer for the same key from firing    *)
(* while the first reconcile is still awaiting a call.                     *)
(***************************************************************************)
EXTENDS Naturals, Sequences

CONSTANTS
  Workers,      \* slots for reconciles of this key that may be in flight at once
  Env,          \* the disturbances a run allows, a subset of Disturbances
  MaxLag,       \* bound: watch events that may wait for delivery
  MaxFaults,    \* bound: API calls that fail or whose answer is lost
  MaxCrashes,   \* bound: crashes of the operator
  S3            \* whether logs are archived (s3Config is defined)

(***************************************************************************)
(* "overlap": a timer may fire while another reconcile is in flight or     *)
(*            watch events are still undelivered (the code permits it).    *)
(* "fault":   API calls fail, before or after they took effect.            *)
(* "outage":  the operator may be away for longer than a Job's 24h TTL.    *)
(* "tamper":  somebody deletes the Job by hand.                            *)
(***************************************************************************)
Disturbances == {"overlap", "fault", "outage", "tamper"}

ASSUME EnvAssumption == Env \subseteq Disturbances
ASSUME BoundsAssumption == /\ MaxLag \in Nat /\ MaxFaults \in Nat /\ MaxCrashes \in Nat
                           /\ S3 \in BOOLEAN

VARIABLES
  cr,           \* the AnsibleRun stored by the API server
  jobState,     \* the Job ansiblerun-<run>
  jobTtl,       \* its TTL was shortened to spec.ttlSecondsAfterFinished
  jobsCreated,  \* Jobs ever created for the run, 2 standing for two or more
  outcomes,     \* results a Job of this run ever finished with
  archive,      \* the run's log object in S3
  keyReady,     \* every SSH key the run needs has its public key derived
  up,           \* the operator process is running
  cache,        \* ResourceController.cache at the run's key
  watch,        \* watch events on their way to the operator
  armed,        \* ResourceController.timers holds a timer for the key
  pc, obj,      \* per reconcile in flight: its next call, the object it was given
  found, chunk, \* the Job result it read, the logs it collected
  faults, crashes

userVars == <<keyReady>>
jobVars  == <<jobState, jobTtl, jobsCreated, outcomes>>
queueVars == <<up, cache, armed>>
localVars == <<pc, obj, found, chunk>>
vars == <<cr, jobVars, archive, userVars, up, cache, watch, armed, localVars, faults, crashes>>

----------------------------------------------------------------------------
Terminal == {"Succeeded", "Failed", "Error", "Cancelled"}   \* TERMINAL_PHASES
Phases == {"None", "Resolving", "Running"} \cup Terminal
Results == {"succeeded", "failed"}
JobStates == {"absent", "active"} \cup Results
Steps == {"idle", "deleteJob", "patchCancelled", "patchResolving", "prepare",
          "createJob", "readJob", "patchRunning", "patchError", "getJob",
          "captureLogs", "uploadLogs", "patchTtl", "patchFinal"}

(* The part of an AnsibleRun the reconciler reads; exists = FALSE: no such key. *)
Runs == [exists: BOOLEAN, cancel: BOOLEAN, phase: Phases, jobRef: BOOLEAN]
Gone == [exists |-> FALSE, cancel |-> FALSE, phase |-> "None", jobRef |-> FALSE]
NewRun == [Gone EXCEPT !.exists = TRUE]

TypeOK ==
  /\ cr \in Runs
  /\ jobState \in JobStates
  /\ jobTtl \in BOOLEAN
  /\ jobsCreated \in 0..2
  /\ outcomes \subseteq Results
  /\ archive \in {"none", "full", "empty"}
  /\ keyReady \in BOOLEAN
  /\ up \in BOOLEAN
  /\ cache \in Runs
  /\ watch \in Seq(Runs)
  /\ armed \in BOOLEAN
  /\ pc \in [Workers -> Steps]
  /\ obj \in [Workers -> Runs]
  /\ found \in [Workers -> Results \cup {"none"}]
  /\ chunk \in [Workers -> {"none", "full", "empty"}]
  /\ faults \in 0..MaxFaults
  /\ crashes \in 0..MaxCrashes

(* The operator has listed the new run: ResourceController.start, resync. *)
Init ==
  /\ cr = NewRun
  /\ jobState = "absent" /\ jobTtl = FALSE /\ jobsCreated = 0 /\ outcomes = {}
  /\ archive = "none"
  /\ keyReady \in BOOLEAN
  /\ up = TRUE /\ cache = NewRun /\ watch = <<>> /\ armed = TRUE
  /\ pc = [w \in Workers |-> "idle"]
  /\ obj = [w \in Workers |-> Gone]
  /\ found = [w \in Workers |-> "none"]
  /\ chunk = [w \in Workers |-> "none"]
  /\ faults = 0 /\ crashes = 0

----------------------------------------------------------------------------
(* API calls *)

(* "refused": the call failed and changed nothing; "lost": it took effect  *)
(* but the caller gets an error (a timeout, a dropped connection).         *)
Answers == {"ok", "refused", "lost"}

Spend(answer) ==
  /\ answer # "ok" => "fault" \in Env /\ faults < MaxFaults
  /\ faults' = IF answer = "ok" THEN faults ELSE faults + 1

(* The API server stores s and tells the operator's watch about it. *)
Store(s) ==
  /\ up => Len(watch) < MaxLag
  /\ cr' = s
  /\ watch' = IF up THEN Append(watch, s) ELSE watch

(* patchRunStatus: a merge patch of the snapshot's whole status and the new *)
(* phase, without a resourceVersion; a run that is gone answers 404.        *)
PatchRunStatus(w, phase, jobRef, answer) ==
  /\ Spend(answer)
  /\ IF cr.exists /\ answer # "refused"
     THEN Store([cr EXCEPT !.phase = phase, !.jobRef = @ \/ obj[w].jobRef \/ jobRef])
     ELSE UNCHANGED <<cr, watch>>

Accepted(answer) == cr.exists /\ answer = "ok"

Goto(w, step) == pc' = [pc EXCEPT ![w] = step]

(* The reconcile ends. A requeue, or the backoff after an exception, arms   *)
(* the key's timer.                                                         *)
ReturnWithoutBackoff(w, rearm) ==   \* mutant: the key is never rescheduled
  /\ Goto(w, "idle")
  /\ obj' = [obj EXCEPT ![w] = Gone]
  /\ found' = [found EXCEPT ![w] = "none"]
  /\ chunk' = [chunk EXCEPT ![w] = "none"]
  /\ UNCHANGED armed

Return(w, rearm) ==
  /\ Goto(w, "idle")
  /\ obj' = [obj EXCEPT ![w] = Gone]
  /\ found' = [found EXCEPT ![w] = "none"]
  /\ chunk' = [chunk EXCEPT ![w] = "none"]
  /\ armed' = (armed \/ rearm)

Continue(w, step) == Goto(w, step) /\ UNCHANGED <<obj, found, chunk, armed>>

----------------------------------------------------------------------------
(* Users and Kubernetes *)

(* POST .../cancel: spec.cancel is set, whatever the phase. *)
RequestCancel ==
  /\ cr.exists /\ ~cr.cancel
  /\ Store([cr EXCEPT !.cancel = TRUE])
  /\ UNCHANGED <<jobVars, archive, userVars, queueVars, localVars, faults, crashes>>

DeleteRun ==
  /\ cr.exists
  /\ Store(Gone)
  /\ UNCHANGED <<jobVars, archive, userVars, queueVars, localVars, faults, crashes>>

(* The sshkey controller writes the public key prepareRunResources waits for. *)
DeriveKey ==
  /\ ~keyReady /\ keyReady' = TRUE
  /\ UNCHANGED <<cr, watch, jobVars, archive, queueVars, localVars, faults, crashes>>

FinishJob ==
  /\ jobState = "active"
  /\ \E r \in Results : jobState' = r /\ outcomes' = outcomes \cup {r}
  /\ UNCHANGED <<cr, watch, jobTtl, jobsCreated, archive, userVars, queueVars, localVars,
                 faults, crashes>>

RemoveJob == jobState' = "absent" /\ jobTtl' = FALSE /\ UNCHANGED <<jobsCreated, outcomes>>

(* The TTL controller: after the confirmed TTL, or after the 24h backstop   *)
(* (job-builder.ts) when the operator has been away for that long.          *)
ExpireJob ==
  /\ jobState \in Results
  /\ jobTtl \/ ("outage" \in Env /\ ~up)
  /\ RemoveJob
  /\ UNCHANGED <<cr, watch, archive, userVars, queueVars, localVars, faults, crashes>>

(* The garbage collector, following the Job's ownerReference. *)
CollectDependents ==
  /\ ~cr.exists /\ jobState # "absent"
  /\ RemoveJob
  /\ UNCHANGED <<cr, watch, archive, userVars, queueVars, localVars, faults, crashes>>

DeleteJobByHand ==
  /\ "tamper" \in Env /\ jobState # "absent"
  /\ RemoveJob
  /\ UNCHANGED <<cr, watch, archive, userVars, queueVars, localVars, faults, crashes>>

----------------------------------------------------------------------------
(* The informer and its work queue *)

(* The onEvent callback of resync: a write caches the object and schedules  *)
(* the key, DELETED drops both.                                             *)
DeliverWatch ==
  /\ up /\ watch # <<>>
  /\ cache' = Head(watch)
  /\ armed' = Head(watch).exists
  /\ watch' = Tail(watch)
  /\ UNCHANGED <<cr, jobVars, archive, userVars, up, localVars, faults, crashes>>

(* The periodic relist: the watch is restarted from the listed version.     *)
Resync ==
  /\ up /\ cache' = cr /\ watch' = <<>>
  /\ armed' = (armed \/ cr.exists)
  /\ UNCHANGED <<cr, jobVars, archive, userVars, up, localVars, faults, crashes>>

(* reconcileRun up to its first await, for a run that is not terminal. *)
StartStep(o) == IF o.phase = "Resolving" THEN "prepare" ELSE "patchResolving"

PollOrStart(o) == IF o.phase = "Running" /\ o.jobRef THEN "getJob" ELSE StartStep(o)

EntryStepNoCancel(o) == PollOrStart(o)   \* mutant: spec.cancel is not looked at

EntryStepKeepsJob(o) ==             \* mutant: cancelling leaves the Job behind
  IF o.cancel /\ o.phase # "None" THEN "patchCancelled" ELSE PollOrStart(o)

EntryStep(o) ==
  IF o.cancel /\ o.phase # "None"
  THEN IF o.jobRef THEN "deleteJob" ELSE "patchCancelled"
  ELSE PollOrStart(o)

SettledIfGone(o) == ~o.exists       \* mutant: no early return for a terminal run

Settled(o) == ~o.exists \/ o.phase \in Terminal

Quiet == watch = <<>> /\ \A v \in Workers : pc[v] = "idle"

(* run(): the timer fires and the cached object is handed to reconcileRun,  *)
(* which returns at once when the run is already terminal.                  *)
FireTimer(w) ==
  /\ up /\ armed /\ pc[w] = "idle"
  /\ "overlap" \notin Env => Quiet
  /\ armed' = FALSE
  /\ IF Settled(cache)
     THEN UNCHANGED localVars
     ELSE /\ Goto(w, EntryStep(cache))
          /\ obj' = [obj EXCEPT ![w] = cache]
          /\ UNCHANGED <<found, chunk>>
  /\ UNCHANGED <<cr, watch, jobVars, archive, userVars, up, cache, faults, crashes>>

Crash ==
  /\ up /\ crashes < MaxCrashes
  /\ up' = FALSE /\ crashes' = crashes + 1
  /\ cache' = Gone /\ watch' = <<>> /\ armed' = FALSE
  /\ pc' = [w \in Workers |-> "idle"]
  /\ obj' = [w \in Workers |-> Gone]
  /\ found' = [w \in Workers |-> "none"]
  /\ chunk' = [w \in Workers |-> "none"]
  /\ UNCHANGED <<cr, jobVars, archive, userVars, faults>>

(* The new process holds the lease and lists. *)
Restart ==
  /\ ~up /\ up' = TRUE
  /\ cache' = cr /\ watch' = <<>> /\ armed' = cr.exists
  /\ UNCHANGED <<cr, jobVars, archive, userVars, localVars, faults, crashes>>

----------------------------------------------------------------------------
(* reconcileRun: cancellation *)

(* deleteJob(...).catch(() => undefined) *)
DeleteJob(w) ==
  /\ pc[w] = "deleteJob"
  /\ \E answer \in Answers :
       /\ Spend(answer)
       /\ IF answer = "refused" THEN UNCHANGED jobVars ELSE RemoveJob
  /\ Continue(w, "patchCancelled")
  /\ UNCHANGED <<cr, watch, archive, userVars, up, cache, crashes>>

PatchCancelled(w) ==
  /\ pc[w] = "patchCancelled"
  /\ \E answer \in Answers :
       /\ PatchRunStatus(w, "Cancelled", FALSE, answer)
       /\ Return(w, ~Accepted(answer))
  /\ UNCHANGED <<jobVars, archive, userVars, up, cache, crashes>>

----------------------------------------------------------------------------
(* startRun *)

PatchResolving(w) ==
  /\ pc[w] = "patchResolving"
  /\ \E answer \in Answers :
       /\ PatchRunStatus(w, "Resolving", FALSE, answer)
       /\ Continue(w, IF Accepted(answer) THEN "prepare" ELSE "patchError")
  /\ UNCHANGED <<jobVars, archive, userVars, up, cache, crashes>>

(* prepareRunResources: the references may not resolve. *)
Prepare(w) ==
  /\ pc[w] = "prepare"
  /\ \/ ~keyReady /\ Return(w, TRUE)
     \/ keyReady /\ Continue(w, "createJob")
     \/ Continue(w, "patchError")
  /\ UNCHANGED <<cr, watch, jobVars, archive, userVars, up, cache, faults, crashes>>

CreateJobUnnamed(w) ==              \* mutant: generateName instead of a fixed name
  /\ pc[w] = "createJob"
  /\ \E answer \in Answers :
       /\ Spend(answer)
       /\ IF answer # "refused"
          THEN /\ jobState' = "active" /\ jobTtl' = FALSE /\ UNCHANGED outcomes
               /\ jobsCreated' = IF jobsCreated = 0 THEN 1 ELSE 2
          ELSE UNCHANGED jobVars
       /\ Continue(w, IF answer = "ok" THEN "patchRunning" ELSE "patchError")
  /\ UNCHANGED <<cr, watch, archive, userVars, up, cache, crashes>>

(* createJob: the Job's name is a function of the run's, so a second create *)
(* answers 409 and the existing Job is read instead.                        *)
CreateJob(w) ==
  /\ pc[w] = "createJob"
  /\ \E answer \in Answers :
       /\ Spend(answer)
       /\ IF jobState = "absent" /\ answer # "refused"
          THEN /\ jobState' = "active" /\ jobTtl' = FALSE /\ UNCHANGED outcomes
               /\ jobsCreated' = IF jobsCreated = 0 THEN 1 ELSE 2
          ELSE UNCHANGED jobVars
       /\ Continue(w, CASE answer # "ok" -> "patchError"
                        [] answer = "ok" /\ jobState = "absent" -> "patchRunning"
                        [] OTHER -> "readJob")
  /\ UNCHANGED <<cr, watch, archive, userVars, up, cache, crashes>>

ReadJob(w) ==
  /\ pc[w] = "readJob"
  /\ \E answer \in {"ok", "refused"} :
       /\ Spend(answer)
       /\ Continue(w, IF answer = "ok" /\ jobState # "absent"
                      THEN "patchRunning" ELSE "patchError")
  /\ UNCHANGED <<cr, watch, jobVars, archive, userVars, up, cache, crashes>>

PatchRunning(w) ==
  /\ pc[w] = "patchRunning"
  /\ \E answer \in Answers :
       /\ PatchRunStatus(w, "Running", TRUE, answer)
       /\ IF Accepted(answer) THEN Return(w, TRUE) ELSE Continue(w, "patchError")
  /\ UNCHANGED <<jobVars, archive, userVars, up, cache, crashes>>

(* The catch of startRun, and the 'not-found' branch of pollRun. *)
PatchError(w) ==
  /\ pc[w] = "patchError"
  /\ \E answer \in Answers :
       /\ PatchRunStatus(w, "Error", FALSE, answer)
       /\ Return(w, ~Accepted(answer))
  /\ UNCHANGED <<jobVars, archive, userVars, up, cache, crashes>>

----------------------------------------------------------------------------
(* pollRun, pollJobToCompletion *)

(* The order of pollJobToCompletion's calls once the Job has finished. *)
NextCallTtlFirst(step) ==           \* mutant: the TTL is shortened before the capture
  CASE step = "getJob"      -> "patchTtl"
    [] step = "patchTtl"    -> "captureLogs"
    [] step = "captureLogs" -> IF S3 THEN "uploadLogs" ELSE "patchFinal"
    [] step = "uploadLogs"  -> "patchFinal"

NextCall(step) ==
  CASE step = "getJob"      -> "captureLogs"
    [] step = "captureLogs" -> IF S3 THEN "uploadLogs" ELSE "patchTtl"
    [] step = "uploadLogs"  -> "patchTtl"
    [] step = "patchTtl"    -> "patchFinal"

(* Any failure of getJob counts as 'not-found'. *)
GetJob(w) ==
  /\ pc[w] = "getJob"
  /\ \E answer \in {"ok", "refused"} :
       /\ Spend(answer)
       /\ \/ /\ answer = "refused" \/ jobState = "absent"
             /\ Continue(w, "patchError")
          \/ answer = "ok" /\ jobState = "active" /\ Return(w, TRUE)
          \/ /\ answer = "ok" /\ jobState \in Results
             /\ Goto(w, NextCall("getJob"))
             /\ found' = [found EXCEPT ![w] = jobState]
             /\ UNCHANGED <<obj, chunk, armed>>
  /\ UNCHANGED <<cr, watch, jobVars, archive, userVars, up, cache, crashes>>

(* listPodsForJob and getPodLog: their failures leave fullLogs empty. *)
CaptureLogs(w) ==
  /\ pc[w] = "captureLogs"
  /\ \E answer \in {"ok", "refused"} :
       /\ Spend(answer)
       /\ chunk' = [chunk EXCEPT ![w] =
                      IF answer = "ok" /\ jobState # "absent" THEN "full" ELSE "empty"]
  /\ Goto(w, NextCall("captureLogs"))
  /\ UNCHANGED <<cr, watch, jobVars, archive, userVars, queueVars, obj, found, crashes>>

UploadLogs(w) ==
  /\ pc[w] = "uploadLogs"
  /\ \E answer \in Answers :
       /\ Spend(answer)
       /\ archive' = IF answer = "refused" THEN archive ELSE chunk[w]
  /\ Continue(w, NextCall("uploadLogs"))
  /\ UNCHANGED <<cr, watch, jobVars, userVars, up, cache, crashes>>

(* patchJob(...).catch(() => undefined) *)
PatchTtl(w) ==
  /\ pc[w] = "patchTtl"
  /\ \E answer \in Answers :
       /\ Spend(answer)
       /\ jobTtl' = (jobTtl \/ (answer # "refused" /\ jobState # "absent"))
  /\ Continue(w, NextCall("patchTtl"))
  /\ UNCHANGED <<cr, watch, jobState, jobsCreated, outcomes, archive, userVars, up, cache,
                 crashes>>

FinalPhaseSwapped(result) == IF result = "failed" THEN "Succeeded" ELSE "Failed"  \* mutant

FinalPhase(result) == IF result = "succeeded" THEN "Succeeded" ELSE "Failed"

PatchFinal(w) ==
  /\ pc[w] = "patchFinal"
  /\ \E answer \in Answers :
       /\ PatchRunStatus(w, FinalPhase(found[w]), FALSE, answer)
       /\ Return(w, ~Accepted(answer))
  /\ UNCHANGED <<jobVars, archive, userVars, up, cache, crashes>>

----------------------------------------------------------------------------
Reconcile(w) ==
  \/ DeleteJob(w) \/ PatchCancelled(w)
  \/ PatchResolving(w) \/ Prepare(w) \/ CreateJob(w) \/ ReadJob(w)
  \/ PatchRunning(w) \/ PatchError(w)
  \/ GetJob(w) \/ CaptureLogs(w) \/ UploadLogs(w) \/ PatchTtl(w) \/ PatchFinal(w)

Cluster ==
  \/ RequestCancel \/ DeleteRun \/ DeriveKey
  \/ FinishJob \/ ExpireJob \/ CollectDependents \/ DeleteJobByHand

Next ==
  \/ Cluster
  \/ DeliverWatch \/ Resync \/ Crash \/ Restart
  \/ \E w \in Workers : FireTimer(w) \/ Reconcile(w)

Spec == Init /\ [][Next]_vars

(* Timers fire, awaited calls return, watch events arrive and a crashed     *)
(* operator is rescheduled; a user, a playbook and the TTL controller owe   *)
(* nothing.                                                                 *)
Fairness ==
  /\ WF_vars(DeliverWatch) /\ WF_vars(Restart)
  /\ WF_vars(\E w \in Workers : FireTimer(w))
  /\ \A w \in Workers : WF_vars(Reconcile(w))

FairSpec == Spec /\ Fairness

----------------------------------------------------------------------------
(* Properties *)

Finished == ~cr.exists \/ cr.phase \in Terminal

(* A run reports Succeeded (Failed) only if a Job of it really succeeded    *)
(* (failed), and Cancelled only if somebody asked for it, however stale the *)
(* snapshot the status was written from: patchRunStatus merges old status.  *)
OutcomeIsReal ==
  /\ cr.phase = "Succeeded" => "succeeded" \in outcomes
  /\ cr.phase = "Failed" => "failed" \in outcomes
  /\ cr.phase = "Cancelled" => cr.cancel

(* A terminal phase is never overwritten: reconcileRun returns early on one *)
(* and no reconcile that started before it may patch after it.              *)
TerminalIsFinal ==
  [][cr.exists /\ cr.phase \in Terminal => ~cr'.exists \/ cr'.phase = cr.phase]_vars

(* "Strict 1:1 Run:Job:Pod mapping" (job-builder.ts): while the run exists, *)
(* retries after an error, a crash or a requeue never run the playbook again.*)
OneJobPerRun == cr.exists => jobsCreated <= 1

(* Every call succeeded so far and the operator never crashed. *)
Undisturbed == faults = 0 /\ crashes = 0

(* A run that reached a terminal phase leaves no playbook running: the      *)
(* cancel branch deletes the Job it knows of before it patches Cancelled.   *)
(* (A failed or lost call between createJob and the patch of jobRef, or a   *)
(* crash there, leaves a Job the cancel branch does not know.)              *)
NoOrphanJob ==
  Undisturbed /\ cr.exists /\ cr.phase \in Terminal => jobState # "active"

(* The TTL is shortened only once the logs are archived, so a run that      *)
(* reports its playbook's result has the full log in S3.                    *)
ReportedRunIsArchived ==
  Undisturbed /\ S3 /\ cr.phase \in {"Succeeded", "Failed"} => archive = "full"

(* pollJobToCompletion concludes 'not-found' only of a Job that disappeared.*)
NotFoundMeansGone ==
  [][\A w \in Workers :
       pc[w] = "getJob" /\ pc'[w] = "patchError" => jobState = "absent"]_vars

(* Reconciles that do not overlap implement RunLifecycle: the phase seen by *)
(* users moves forward only, through faults, crashes and restarts.          *)
Lifecycle == INSTANCE RunLifecycle
  WITH phase <- IF cr.exists THEN cr.phase ELSE "Deleted",
       requested <- cr.cancel, results <- outcomes

LifecycleSpec == Lifecycle!Spec

(* docs/guide/crds.md: Error means the operator could not create the Job.   *)
ErrorMeansNoJob == cr.phase = "Error" => jobsCreated = 0

(* A requested cancellation ends the run for good, whether or not the       *)
(* playbook would ever end and the SSH keys would ever be derived.          *)
CancelStopsRun == cr.cancel ~> []Finished

(* A run whose keys are ready ends for good unless its playbook runs for    *)
(* ever: no interleaving, failure or crash leaves it waiting for a timer    *)
(* nobody armed.                                                            *)
ReadyRunFinishes == <>[](keyReady /\ jobState # "active") => <>[]Finished
=============================================================================
