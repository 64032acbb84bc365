-------------------------- MODULE RunProofs --------------------------
(***************************************************************************)
(* A run as its controller leads it, and as its page shows it.  For every  *)
(* set of workers, shards and disturbances and every bound, unless a       *)
(* theorem names a disturbance it excludes.                                *)
(***************************************************************************)
EXTENDS RunController, RunPage, SequenceTheorems, WellFoundedInduction, TLAPS

(***************************************************************************)
(* RunController: the controller of one AnsibleRun                         *)
(* (operator/src/controllers/run-controller.ts).                           *)
(***************************************************************************)

(* A run that is gone and a new one are runs; a run's fields have types.    *)
LEMMA RunTypes ==
  /\ Gone \in Runs /\ NewRun \in Runs
  /\ \A r \in Runs : /\ r.exists \in BOOLEAN /\ r.cancel \in BOOLEAN
                     /\ r.phase \in Phases /\ r.jobRef \in BOOLEAN
BY DEF Gone, NewRun, Runs, Phases, Terminal

(* A status patch stores a well-formed run and one watch event. *)
LEMMA PatchTypes ==
  ASSUME TypeOK, NEW w \in Workers, NEW p \in Phases, NEW j \in BOOLEAN,
         NEW answer \in Answers, PatchRunStatus(w, p, j, answer)
  PROVE  cr' \in Runs /\ watch' \in Seq(Runs) /\ faults' \in 0..MaxFaults
<1> USE BoundsAssumption
<1>1. faults' \in 0..MaxFaults
  BY DEF TypeOK, PatchRunStatus, Spend
<1>2. CASE cr' = cr /\ watch' = watch
  BY <1>1, <1>2 DEF TypeOK
<1>3. CASE Store([cr EXCEPT !.phase = p, !.jobRef = @ \/ obj[w].jobRef \/ j])
  <2> DEFINE s == [cr EXCEPT !.phase = p, !.jobRef = @ \/ obj[w].jobRef \/ j]
  <2>1. (cr.jobRef \/ obj[w].jobRef \/ j) \in BOOLEAN
    OBVIOUS
  <2>2. s \in Runs
    BY <2>1 DEF TypeOK, Runs
  <2>3. cr' = s /\ (watch' = Append(watch, s) \/ watch' = watch)
    BY <1>3 DEF Store
  <2> HIDE DEF s
  <2>4. watch \in Seq(Runs)
    BY DEF TypeOK
  <2> QED BY <1>1, <2>2, <2>3, <2>4
<1> QED BY <1>2, <1>3 DEF PatchRunStatus

LocalTypes ==
  /\ pc \in [Workers -> Steps]
  /\ obj \in [Workers -> Runs]
  /\ found \in [Workers -> Results \cup {"none"}]
  /\ chunk \in [Workers -> {"none", "full", "empty"}]
  /\ armed \in BOOLEAN

(* Ending or continuing a reconcile keeps the local state well-formed. *)
LEMMA ReturnTypes ==
  ASSUME TypeOK, NEW w \in Workers, NEW b \in BOOLEAN, Return(w, b)
  PROVE  LocalTypes'
<1>1. armed' \in BOOLEAN
  BY DEF TypeOK, Return
<1> QED BY <1>1, RunTypes DEF TypeOK, Return, Goto, Steps, LocalTypes

(* So does going on to the next call.                                      *)
LEMMA ContinueTypes ==
  ASSUME TypeOK, NEW w \in Workers, NEW s \in Steps, Continue(w, s)
  PROVE  LocalTypes'
BY DEF TypeOK, Continue, Goto, Steps, LocalTypes

(* The state the operator starts from is well-formed.                      *)
LEMMA TypeInit == Init => TypeOK
<1> USE BoundsAssumption
<1> SUFFICES ASSUME Init PROVE TypeOK
  OBVIOUS
<1>1. watch \in Seq(Runs) /\ cr \in Runs /\ cache \in Runs
  BY RunTypes DEF Init
<1>2. /\ pc \in [Workers -> Steps] /\ obj \in [Workers -> Runs]
      /\ found \in [Workers -> Results \cup {"none"}]
      /\ chunk \in [Workers -> {"none", "full", "empty"}]
  BY RunTypes DEF Init, Steps
<1>3. /\ jobState \in JobStates /\ outcomes \subseteq Results /\ jobsCreated \in 0..2
      /\ archive \in {"none", "full", "empty"} /\ faults \in 0..MaxFaults
      /\ crashes \in 0..MaxCrashes
  BY DEF Init, JobStates
<1>4. jobTtl \in BOOLEAN /\ keyReady \in BOOLEAN /\ up \in BOOLEAN /\ armed \in BOOLEAN
  BY DEF Init
<1> QED BY <1>1, <1>2, <1>3, <1>4 DEF TypeOK

(* Every step of the users, the cluster, the queue and the reconciler keeps *)
(* the state well-formed.                                                   *)
LEMMA TypeStep == ASSUME TypeOK, [Next]_vars PROVE TypeOK'
<1> USE BoundsAssumption, RunTypes
<1>1. ASSUME Cluster PROVE TypeOK'
  <2>1. CASE RequestCancel
    <3>1. [cr EXCEPT !.cancel = TRUE] \in Runs
      BY DEF TypeOK, Runs
    <3> QED BY <2>1, <3>1 DEF RequestCancel, Store, TypeOK, jobVars, userVars, queueVars, localVars
  <2>2. CASE DeleteRun
    BY <2>2 DEF DeleteRun, Store, TypeOK, jobVars, userVars, queueVars, localVars
  <2>3. CASE DeriveKey
    BY <2>3 DEF DeriveKey, TypeOK, jobVars, userVars, queueVars, localVars
  <2>4. CASE FinishJob
    BY <2>4 DEF FinishJob, TypeOK, JobStates, jobVars, userVars, queueVars, localVars
  <2>5. CASE ExpireJob \/ CollectDependents \/ DeleteJobByHand
    BY <2>5 DEF ExpireJob, CollectDependents, DeleteJobByHand, RemoveJob, TypeOK, JobStates,
                jobVars, userVars, queueVars, localVars
  <2> QED BY <1>1, <2>1, <2>2, <2>3, <2>4, <2>5 DEF Cluster
<1>2. CASE DeliverWatch
  <2>1. Head(watch) \in Runs /\ Tail(watch) \in Seq(Runs)
    BY <1>2 DEF DeliverWatch, TypeOK
  <2> QED BY <1>2, <2>1 DEF DeliverWatch, TypeOK, jobVars, userVars, localVars
<1>3. CASE Resync
  <2>1. armed' \in BOOLEAN
    BY <1>3 DEF Resync, TypeOK
  <2> QED BY <1>3, <2>1 DEF Resync, TypeOK, jobVars, userVars, localVars
<1>4. CASE Crash
  <2>1. /\ pc' \in [Workers -> Steps] /\ obj' \in [Workers -> Runs]
        /\ found' \in [Workers -> Results \cup {"none"}]
        /\ chunk' \in [Workers -> {"none", "full", "empty"}]
    BY <1>4 DEF Crash, Steps
  <2>2. crashes' \in 0..MaxCrashes /\ watch' \in Seq(Runs) /\ cache' \in Runs
    BY <1>4 DEF Crash, TypeOK
  <2> QED BY <1>4, <2>1, <2>2 DEF Crash, TypeOK, jobVars, userVars
<1>5. CASE Restart
  BY <1>5 DEF Restart, TypeOK, jobVars, userVars, localVars
<1>6. ASSUME NEW w \in Workers, FireTimer(w) PROVE TypeOK'
  <2>1. EntryStep(cache) \in Steps
    BY DEF EntryStep, PollOrStart, StartStep, Steps
  <2> QED BY <1>6, <2>1 DEF FireTimer, Goto, TypeOK, jobVars, userVars, localVars, Steps
<1>7. ASSUME NEW w \in Workers, Reconcile(w) PROVE TypeOK'
  <2> USE DEF jobVars, userVars, queueVars
  <2>1. CASE DeleteJob(w)
    <3>1. LocalTypes'
      BY <2>1, ContinueTypes DEF DeleteJob, Steps
    <3>2. faults' \in 0..MaxFaults /\ (UNCHANGED jobVars \/ RemoveJob)
      BY <2>1 DEF DeleteJob, Spend, TypeOK
    <3>3. UNCHANGED <<cr, watch, archive, userVars, up, cache, crashes>>
      BY <2>1 DEF DeleteJob
    <3> QED BY <3>1, <3>2, <3>3 DEF RemoveJob, JobStates, TypeOK, LocalTypes
  <2>2. CASE PatchCancelled(w)
    <3>1. PICK answer \in Answers : /\ PatchRunStatus(w, "Cancelled", FALSE, answer)
                                   /\ Return(w, ~Accepted(answer))
      BY <2>2 DEF PatchCancelled
    <3>2. "Cancelled" \in Phases /\ FALSE \in BOOLEAN /\ Accepted(answer) \in BOOLEAN
      BY DEF Phases, Terminal, Accepted
    <3>3. cr' \in Runs /\ watch' \in Seq(Runs) /\ faults' \in 0..MaxFaults
      BY <3>1, <3>2, PatchTypes
    <3>4. LocalTypes'
      BY <3>1, <3>2, ReturnTypes
    <3> QED BY <2>2, <3>3, <3>4 DEF PatchCancelled, TypeOK, LocalTypes
  <2>3. CASE PatchResolving(w)
    <3>1. PICK answer \in Answers : /\ PatchRunStatus(w, "Resolving", FALSE, answer)
                                   /\ Continue(w, IF Accepted(answer) THEN "prepare" ELSE "patchError")
      BY <2>3 DEF PatchResolving
    <3>2. "Resolving" \in Phases /\ FALSE \in BOOLEAN /\ Accepted(answer) \in BOOLEAN
      BY DEF Phases, Terminal, Accepted
    <3>3. cr' \in Runs /\ watch' \in Seq(Runs) /\ faults' \in 0..MaxFaults
      BY <3>1, <3>2, PatchTypes
    <3>4. LocalTypes'
      BY <3>1, ContinueTypes DEF Steps
    <3> QED BY <2>3, <3>3, <3>4 DEF PatchResolving, TypeOK, LocalTypes
  <2>4. CASE PatchRunning(w)
    <3>1. PICK answer \in Answers : /\ PatchRunStatus(w, "Running", TRUE, answer)
                                   /\ IF Accepted(answer) THEN Return(w, TRUE) ELSE Continue(w, "patchError")
      BY <2>4 DEF PatchRunning
    <3>2. "Running" \in Phases /\ TRUE \in BOOLEAN /\ Accepted(answer) \in BOOLEAN
      BY DEF Phases, Terminal, Accepted
    <3>3. cr' \in Runs /\ watch' \in Seq(Runs) /\ faults' \in 0..MaxFaults
      BY <3>1, <3>2, PatchTypes
    <3>4. LocalTypes'
      BY <3>1, ReturnTypes, ContinueTypes DEF Steps
    <3> QED BY <2>4, <3>3, <3>4 DEF PatchRunning, TypeOK, LocalTypes
  <2>5. CASE PatchError(w)
    <3>1. PICK answer \in Answers : /\ PatchRunStatus(w, "Error", FALSE, answer)
                                   /\ Return(w, ~Accepted(answer))
      BY <2>5 DEF PatchError
    <3>2. "Error" \in Phases /\ FALSE \in BOOLEAN /\ Accepted(answer) \in BOOLEAN
      BY DEF Phases, Terminal, Accepted
    <3>3. cr' \in Runs /\ watch' \in Seq(Runs) /\ faults' \in 0..MaxFaults
      BY <3>1, <3>2, PatchTypes
    <3>4. LocalTypes'
      BY <3>1, <3>2, ReturnTypes
    <3> QED BY <2>5, <3>3, <3>4 DEF PatchError, TypeOK, LocalTypes
  <2>6. CASE PatchFinal(w)
    <3>1. PICK answer \in Answers : /\ PatchRunStatus(w, FinalPhase(found[w]), FALSE, answer)
                                   /\ Return(w, ~Accepted(answer))
      BY <2>6 DEF PatchFinal
    <3>2. FinalPhase(found[w]) \in Phases /\ FALSE \in BOOLEAN /\ Accepted(answer) \in BOOLEAN
      BY DEF Phases, Terminal, Accepted, FinalPhase
    <3>3. cr' \in Runs /\ watch' \in Seq(Runs) /\ faults' \in 0..MaxFaults
      BY <3>1, <3>2, PatchTypes
    <3>4. LocalTypes'
      BY <3>1, <3>2, ReturnTypes
    <3> QED BY <2>6, <3>3, <3>4 DEF PatchFinal, TypeOK, LocalTypes
  <2>7. CASE Prepare(w)
    <3>1. LocalTypes'
      BY <2>7, ReturnTypes, ContinueTypes DEF Prepare, Steps
    <3> QED BY <2>7, <3>1 DEF Prepare, TypeOK, LocalTypes
  <2>8. CASE CreateJob(w)
    <3>1. PICK answer \in Answers :
            Continue(w, CASE answer # "ok" -> "patchError"
                          [] answer = "ok" /\ jobState = "absent" -> "patchRunning"
                          [] OTHER -> "readJob")
      BY <2>8 DEF CreateJob
    <3>2. LocalTypes'
      BY <3>1, ContinueTypes DEF Steps
    <3>3. /\ faults' \in 0..MaxFaults
          /\ \/ UNCHANGED jobVars
             \/ /\ jobState' = "active" /\ jobTtl' = FALSE /\ outcomes' = outcomes
                /\ jobsCreated' \in 1..2
      BY <2>8 DEF CreateJob, Spend, TypeOK
    <3>4. UNCHANGED <<cr, watch, archive, userVars, up, cache, crashes>>
      BY <2>8 DEF CreateJob
    <3>5. /\ jobState' \in JobStates /\ jobTtl' \in BOOLEAN
          /\ jobsCreated' \in 0..2 /\ outcomes' \subseteq Results
      <4>1. CASE UNCHANGED jobVars
        BY <4>1 DEF TypeOK
      <4>2. CASE jobState' = "active" /\ jobTtl' = FALSE /\ outcomes' = outcomes /\ jobsCreated' \in 1..2
        <5>1. jobsCreated' \in 0..2
          BY <4>2
        <5>2. jobState' \in JobStates /\ jobTtl' \in BOOLEAN
          BY <4>2 DEF JobStates
        <5> QED BY <4>2, <5>1, <5>2 DEF TypeOK
      <4> QED BY <3>3, <4>1, <4>2
    <3> QED BY <3>2, <3>3, <3>4, <3>5 DEF TypeOK, LocalTypes
  <2>9. CASE ReadJob(w)
    <3>1. LocalTypes'
      BY <2>9, ContinueTypes DEF ReadJob, Steps
    <3> QED BY <2>9, <3>1 DEF ReadJob, Spend, TypeOK, LocalTypes
  <2>10. CASE GetJob(w)
    <3>1. CASE Continue(w, "patchError") \/ Return(w, TRUE)
      <4>1. LocalTypes'
        BY <3>1, ReturnTypes, ContinueTypes DEF Steps
      <4> QED BY <2>10, <4>1 DEF GetJob, Spend, TypeOK, LocalTypes
    <3>2. CASE /\ jobState \in Results /\ Goto(w, NextCall("getJob"))
               /\ found' = [found EXCEPT ![w] = jobState] /\ UNCHANGED <<obj, chunk, armed>>
      <4>1. LocalTypes'
        BY <3>2 DEF TypeOK, LocalTypes, Goto, NextCall, Steps
      <4> QED BY <2>10, <4>1 DEF GetJob, Spend, TypeOK, LocalTypes
    <3> QED BY <2>10, <3>1, <3>2 DEF GetJob
  <2>11. CASE CaptureLogs(w)
    <3>1. pc' \in [Workers -> Steps]
      BY <2>11 DEF CaptureLogs, Goto, NextCall, Steps, TypeOK
    <3>2. chunk' \in [Workers -> {"none", "full", "empty"}] /\ faults' \in 0..MaxFaults
      BY <2>11 DEF CaptureLogs, Spend, TypeOK
    <3> QED BY <2>11, <3>1, <3>2 DEF CaptureLogs, TypeOK
  <2>12. CASE UploadLogs(w)
    <3>1. LocalTypes'
      BY <2>12, ContinueTypes DEF UploadLogs, NextCall, Steps
    <3>2. archive' \in {"none", "full", "empty"} /\ faults' \in 0..MaxFaults
      BY <2>12 DEF UploadLogs, Spend, TypeOK
    <3> QED BY <2>12, <3>1, <3>2 DEF UploadLogs, TypeOK, LocalTypes
  <2>13. CASE PatchTtl(w)
    <3>1. LocalTypes'
      BY <2>13, ContinueTypes DEF PatchTtl, NextCall, Steps
    <3>2. jobTtl' \in BOOLEAN /\ faults' \in 0..MaxFaults
      BY <2>13 DEF PatchTtl, Spend, TypeOK
    <3> QED BY <2>13, <3>1, <3>2 DEF PatchTtl, TypeOK, LocalTypes
  <2> QED BY <1>7, <2>1, <2>2, <2>3, <2>4, <2>5, <2>6, <2>7, <2>8, <2>9, <2>10, <2>11, <2>12, <2>13 DEF Reconcile
<1>8. CASE UNCHANGED vars
  BY <1>8 DEF vars, TypeOK, jobVars, userVars, localVars
<1> QED BY <1>1, <1>2, <1>3, <1>4, <1>5, <1>6, <1>7, <1>8 DEF Next

(* Type correctness (TypeOK): every variable keeps the shape that           *)
(* run-controller.ts and informer.ts give it, for every Env and every bound. *)
THEOREM TypeCorrect == Spec => []TypeOK
<1>1. TypeOK /\ [Next]_vars => TypeOK'
  BY TypeStep
<1> QED BY TypeInit, <1>1, PTL DEF Spec

----------------------------------------------------------------------------
(* What a status patch does to the stored run and to the watch. *)
LEMMA PatchEffect ==
  ASSUME TypeOK, NEW w \in Workers, NEW p \in Phases, NEW j \in BOOLEAN,
         NEW answer \in Answers, PatchRunStatus(w, p, j, answer)
  PROVE  \/ cr' = cr /\ watch' = watch /\ (~cr.exists \/ answer = "refused")
         \/ /\ cr.exists /\ cr'.exists
            /\ cr'.cancel = cr.cancel /\ cr'.phase = p
            /\ cr'.jobRef = (cr.jobRef \/ obj[w].jobRef \/ j)
            /\ watch' = IF up THEN Append(watch, cr') ELSE watch
<1>1. CASE cr' = cr /\ watch' = watch /\ (~cr.exists \/ answer = "refused")
  BY <1>1
<1>2. CASE cr.exists /\ Store([cr EXCEPT !.phase = p, !.jobRef = @ \/ obj[w].jobRef \/ j])
  BY <1>2 DEF Store, TypeOK, Runs
<1> QED BY <1>1, <1>2 DEF PatchRunStatus

(* Results are reported only of Jobs that ended that way. *)
ResultInv ==
  /\ cr.phase = "Succeeded" => "succeeded" \in outcomes
  /\ cr.phase = "Failed" => "failed" \in outcomes
  /\ jobState \in Results => jobState \in outcomes
  /\ \A w \in Workers :
       /\ found[w] \in Results => found[w] \in outcomes
       /\ pc[w] \in {"captureLogs", "uploadLogs", "patchTtl", "patchFinal"}
            => found[w] \in Results

(* What a reconcile or the stored run says of a result, some Job ended with. *)
LEMMA ResultStep ==
  ASSUME TypeOK, ResultInv, [Next]_vars
  PROVE  ResultInv'
<1> USE DEF jobVars, userVars, queueVars
<1>1. ASSUME Cluster PROVE ResultInv'
  BY <1>1 DEF Cluster, RequestCancel, DeleteRun, DeriveKey, FinishJob, ExpireJob,
     CollectDependents, DeleteJobByHand, RemoveJob, Store, ResultInv, TypeOK, Gone, localVars, Results, Runs
<1>2. CASE DeliverWatch \/ Resync \/ Restart \/ UNCHANGED vars
  BY <1>2 DEF DeliverWatch, Resync, Restart, vars, localVars, ResultInv
<1>3. CASE Crash
  BY <1>3 DEF Crash, ResultInv, Results
<1>4. ASSUME NEW w \in Workers, FireTimer(w) PROVE ResultInv'
  BY <1>4 DEF FireTimer, Goto, EntryStep, PollOrStart, StartStep, ResultInv, TypeOK, localVars
<1>5. ASSUME NEW w \in Workers, Reconcile(w) PROVE ResultInv'
  <2>1. CASE DeleteJob(w) \/ Prepare(w) \/ CreateJob(w) \/ ReadJob(w) \/ UploadLogs(w) \/ PatchTtl(w)
    BY <2>1 DEF DeleteJob, Prepare, CreateJob, ReadJob, UploadLogs, PatchTtl, NextCall, RemoveJob,
                Continue, Return, Goto, ResultInv, TypeOK, Results
  <2>2. CASE GetJob(w)
    BY <2>2 DEF GetJob, NextCall, Continue, Return, Goto, ResultInv, TypeOK, Results
  <2>3. CASE CaptureLogs(w)
    BY <2>3 DEF CaptureLogs, NextCall, Goto, ResultInv, TypeOK, Results
  <2>4. ASSUME NEW p \in {"Cancelled", "Resolving", "Running", "Error"}, NEW j \in BOOLEAN,
               NEW answer \in Answers, PatchRunStatus(w, p, j, answer),
               UNCHANGED <<jobVars, archive, userVars, up, cache, crashes>>,
               \/ \E b \in BOOLEAN : Return(w, b)
               \/ \E s \in {"prepare", "patchError"} : Continue(w, s)
        PROVE  ResultInv'
    <3>1. cr'.phase = cr.phase \/ cr'.phase = p
      BY <2>4, PatchEffect DEF Phases, Terminal
    <3> QED BY <2>4, <3>1 DEF Return, Continue, Goto, ResultInv, TypeOK, Results
  <2>5. CASE PatchCancelled(w)
    BY <2>4, <2>5 DEF PatchCancelled, Accepted
  <2>6. CASE PatchResolving(w)
    BY <2>4, <2>6 DEF PatchResolving
  <2>7. CASE PatchRunning(w)
    BY <2>4, <2>7 DEF PatchRunning
  <2>8. CASE PatchError(w)
    BY <2>4, <2>8 DEF PatchError, Accepted
  <2>9. CASE PatchFinal(w)
    <3>1. PICK answer \in Answers : PatchRunStatus(w, FinalPhase(found[w]), FALSE, answer)
      BY <2>9 DEF PatchFinal
    <3>2. cr'.phase = cr.phase \/ cr'.phase = FinalPhase(found[w])
      BY <3>1, PatchEffect DEF FinalPhase, Phases, Terminal
    <3>3. found[w] \in Results /\ found[w] \in outcomes
      BY <2>9 DEF PatchFinal, ResultInv
    <3> QED BY <2>9, <3>2, <3>3 DEF PatchFinal, FinalPhase, Return, Goto, ResultInv, TypeOK, Results
  <2> QED BY <1>5, <2>1, <2>2, <2>3, <2>5, <2>6, <2>7, <2>8, <2>9 DEF Reconcile
<1> QED BY <1>1, <1>2, <1>3, <1>4, <1>5 DEF Next

(* A run is only ever treated as cancelled after spec.cancel was set, and   *)
(* spec.cancel is never taken back.                                         *)
Requested(o) == o.cancel /\ cr.exists => cr.cancel

CancelInv ==
  /\ cr.phase = "Cancelled" => cr.cancel
  /\ Requested(cache)
  /\ \A i \in 1..Len(watch) : Requested(watch[i])
  /\ \A w \in Workers :
       pc[w] \in {"deleteJob", "patchCancelled"} /\ cr.exists => cr.cancel

(* Facts that survive because the stored run only gains its cancel flag.   *)
LEMMA CancelKept ==
  ASSUME TypeOK, CancelInv, cr' \in Runs,
         cr'.exists => cr.exists /\ (cr.cancel => cr'.cancel),
         cr'.phase = "Cancelled" => cr'.cancel,
         watch' = watch \/ watch' = Append(watch, cr') \/ watch' = <<>>,
         cache' = cache \/ cache' = cr' \/ cache' = Gone,
         \A w \in Workers : pc'[w] \in {"deleteJob", "patchCancelled"} /\ cr'.exists
                             => pc[w] \in {"deleteJob", "patchCancelled"} \/ cr'.cancel
  PROVE  CancelInv'
<1>1. Requested(cache)'
  BY DEF CancelInv, Requested, Gone
<1>2. ASSUME NEW i \in 1..Len(watch') PROVE Requested(watch[i])'
  <2>1. CASE i \in 1..Len(watch) /\ watch'[i] = watch[i]
    BY <2>1 DEF CancelInv, Requested
  <2>2. CASE watch'[i] = cr'
    BY <2>2 DEF Requested
  <2>3. watch \in Seq(Runs)
    BY DEF TypeOK
  <2> QED BY <1>2, <2>1, <2>2, <2>3
<1>3. \A w \in Workers :
        pc'[w] \in {"deleteJob", "patchCancelled"} /\ cr'.exists => cr'.cancel
  BY DEF CancelInv
<1> QED BY <1>1, <1>2, <1>3 DEF CancelInv

(* A cancellation is carried out, or reported, only once it is requested.   *)
LEMMA CancelStep ==
  ASSUME TypeOK, CancelInv, [Next]_vars
  PROVE  CancelInv'
<1> USE TypeOK DEF jobVars, userVars, queueVars
<1>0. TypeOK'
  BY TypeStep
<1>a. cr' \in Runs
  BY <1>0 DEF TypeOK
<1>1. CASE RequestCancel
  BY <1>1, <1>a, CancelKept DEF RequestCancel, Store, localVars, TypeOK, Runs
<1>2. CASE DeleteRun
  BY <1>2, <1>a, CancelKept DEF DeleteRun, Store, localVars, Gone
<1>3. CASE cr' = cr /\ watch' = watch /\ cache' = cache /\ pc' = pc
  BY <1>3, <1>a, CancelKept DEF CancelInv
<1>4. CASE DeliverWatch
  <2>1. Head(watch) = watch[1] /\ 1 \in 1..Len(watch)
    BY <1>4 DEF DeliverWatch, TypeOK
  <2>2. \A i \in 1..Len(Tail(watch)) : i+1 \in 1..Len(watch) /\ Tail(watch)[i] = watch[i+1]
    BY <1>4 DEF DeliverWatch, TypeOK
  <2> QED BY <1>4, <2>1, <2>2 DEF DeliverWatch, localVars, CancelInv, Requested
<1>5. CASE Resync \/ Restart
  BY <1>5, <1>a, CancelKept DEF Resync, Restart, localVars, CancelInv
<1>6. CASE Crash
  BY <1>6, <1>a, CancelKept DEF Crash, CancelInv
<1>7. ASSUME NEW w \in Workers, FireTimer(w) PROVE CancelInv'
  <2>1. EntryStep(cache) \in {"deleteJob", "patchCancelled"} => cache.cancel
    BY DEF EntryStep, PollOrStart, StartStep
  <2>2. \A v \in Workers : pc'[v] \in {"deleteJob", "patchCancelled"} /\ cr.exists
                         => pc[v] \in {"deleteJob", "patchCancelled"} \/ cr.cancel
    BY <1>7, <2>1 DEF FireTimer, Goto, localVars, CancelInv, Requested, TypeOK
  <2> QED BY <1>7, <2>2, <1>a, CancelKept DEF FireTimer, CancelInv
<1>8. ASSUME NEW w \in Workers, Reconcile(w) PROVE CancelInv'
  <2>1. cache' = cache
    BY <1>8 DEF Reconcile, DeleteJob, PatchCancelled, PatchResolving, Prepare, CreateJob,
       ReadJob, PatchRunning, PatchError, GetJob, CaptureLogs, UploadLogs, PatchTtl, PatchFinal
  <2>2. ASSUME NEW v \in Workers, pc'[v] \in {"deleteJob", "patchCancelled"}
        PROVE  pc[v] \in {"deleteJob", "patchCancelled"}
    BY <1>8, <2>2 DEF Reconcile, DeleteJob, PatchCancelled, PatchResolving, Prepare, CreateJob,
       ReadJob, PatchRunning, PatchError, GetJob, CaptureLogs, UploadLogs, PatchTtl, PatchFinal,
       Continue, Return, Goto, NextCall, TypeOK
  <2>3. CASE cr' = cr /\ watch' = watch
    BY <2>1, <2>2, <2>3, <1>a, CancelKept DEF CancelInv
  <2>4. ASSUME NEW p \in Phases, NEW answer \in Answers, NEW j \in BOOLEAN,
               PatchRunStatus(w, p, j, answer),
               p = "Cancelled" /\ cr.exists => cr.cancel
        PROVE  CancelInv'
    <3>1. CASE cr' = cr /\ watch' = watch
      BY <2>3, <3>1
    <3>2. CASE /\ cr.exists /\ cr'.exists /\ cr'.cancel = cr.cancel /\ cr'.phase = p
               /\ watch' = IF up THEN Append(watch, cr') ELSE watch
      BY <2>1, <2>2, <2>4, <3>2, <1>a, CancelKept
    <3> QED BY <2>4, <3>1, <3>2, PatchEffect
  <2>5. CASE PatchCancelled(w)
    BY <2>4, <2>5 DEF PatchCancelled, CancelInv, Phases, Terminal
  <2>6. CASE PatchResolving(w) \/ PatchRunning(w) \/ PatchError(w) \/ PatchFinal(w)
    BY <2>4, <2>6 DEF PatchResolving, PatchRunning, PatchError, PatchFinal, FinalPhase,
       Phases, Terminal
  <2>7. CASE DeleteJob(w) \/ Prepare(w) \/ CreateJob(w) \/ ReadJob(w) \/ GetJob(w)
             \/ CaptureLogs(w) \/ UploadLogs(w) \/ PatchTtl(w)
    BY <2>3, <2>7 DEF DeleteJob, Prepare, CreateJob, ReadJob, GetJob, CaptureLogs, UploadLogs, PatchTtl
  <2> QED BY <1>8, <2>5, <2>6, <2>7 DEF Reconcile
<1>9. CASE UNCHANGED vars
  BY <1>3, <1>9 DEF vars, localVars
<1>10. CASE DeriveKey \/ FinishJob \/ ExpireJob \/ CollectDependents \/ DeleteJobByHand
  BY <1>3, <1>10 DEF DeriveKey, FinishJob, ExpireJob, CollectDependents, DeleteJobByHand, localVars
<1> QED BY <1>1, <1>2, <1>4, <1>5, <1>6, <1>7, <1>8, <1>9, <1>10 DEF Next, Cluster

(* Results come from Jobs and cancellations from users: the strengthening   *)
(* of OutcomeIsReal that is inductive, because it also covers the result    *)
(* and the request a reconcile of run-controller.ts holds between calls.    *)
THEOREM ResultsAndRequests == Spec => [](ResultInv /\ CancelInv)
<1>1. Init => ResultInv /\ CancelInv
  BY DEF Init, ResultInv, CancelInv, Requested, NewRun, Gone, Results
<1>2. TypeOK /\ (ResultInv /\ CancelInv) /\ [Next]_vars => (ResultInv /\ CancelInv)'
  BY ResultStep, CancelStep
<1> QED BY <1>1, <1>2, TypeCorrect, PTL DEF Spec

(* Whatever a run reports happened, however stale the snapshots and whatever *)
(* fails: Succeeded and Failed report a Job that ended so, Cancelled a       *)
(* request (OutcomeIsReal, of run-controller.ts and informer.ts).            *)
THEOREM OutcomeReal == Spec => []OutcomeIsReal
<1>1. ResultInv /\ CancelInv => OutcomeIsReal
  BY DEF ResultInv, CancelInv, OutcomeIsReal
<1> QED BY <1>1, ResultsAndRequests, PTL

----------------------------------------------------------------------------
(***************************************************************************)
(* What a run is promised when its reconciles do not overlap: a timer      *)
(* fires only after the previous reconcile returned and the watch          *)
(* delivered what it wrote.  The code does not enforce this (informer.ts,  *)
(* run()); the theorems say what it would buy, and the runs of             *)
(* MCRunController with "overlap" say what is lost without it: a run walks *)
(* the lifecycle, gets one Job, and leaves none when it is over.           *)
(***************************************************************************)

(* The operator's view ends in the stored run. *)
Synced == up => IF watch = <<>> THEN cache = cr ELSE watch[Len(watch)] = cr

Alone == \A v, w \in Workers : pc[v] # "idle" /\ pc[w] # "idle" => v = w

BusyUp == \A w \in Workers : pc[w] # "idle" => up

(* The phases the stored run can have while a reconcile is at a step. *)
PhasesAt(step) ==
  CASE step = "idle" -> Phases
    [] step = "patchCancelled" -> {"Resolving", "Running"}
    [] step = "patchResolving" -> {"None"}
    [] step \in {"prepare", "createJob", "readJob", "patchRunning"} -> {"Resolving"}
    [] step = "patchError" -> {"None", "Resolving", "Running"}
    [] OTHER -> {"Running"}

StepPhase == cr.exists => \A w \in Workers : /\ cr.phase \in PhasesAt(pc[w])
                                             /\ obj[w].jobRef => cr.jobRef

RunningHasJob == /\ cr.phase = "Running" => cr.jobRef
                 /\ cr.phase \in {"None", "Resolving"} => ~cr.jobRef

SerialInv == Synced /\ Alone /\ BusyUp /\ StepPhase /\ RunningHasJob

(* The serial invariant holds when the operator has listed the new run.    *)
LEMMA SerialInit == Init => SerialInv
BY DEF Init, SerialInv, Synced, Alone, BusyUp, StepPhase, RunningHasJob, NewRun, Gone,
       PhasesAt, Phases, Terminal

(* Storing a run and telling the watch keeps the operator's view current. *)
LEMMA StoreSynced ==
  ASSUME TypeOK, Synced, up' = up, cache' = cache, cr' \in Runs,
         \/ watch' = IF up THEN Append(watch, cr') ELSE watch
         \/ cr' = cr /\ watch' = watch
  PROVE  Synced'
<1>1. watch \in Seq(Runs)
  BY DEF TypeOK
<1>2. CASE up /\ watch' = Append(watch, cr')
  BY <1>1, <1>2 DEF Synced
<1> QED BY <1>2 DEF Synced

(* The operator's view, cache and pending events, always ends in the run   *)
(* the API server stores.                                                  *)
LEMMA SyncedStep == ASSUME TypeOK, Synced, [Next]_vars PROVE Synced'
<1> USE DEF jobVars, userVars, queueVars
<1>0. TypeOK'
  BY TypeStep
<1>1. cr' \in Runs
  BY <1>0 DEF TypeOK
<1>2. CASE RequestCancel \/ DeleteRun
  BY <1>1, <1>2, StoreSynced DEF RequestCancel, DeleteRun, Store
<1>3. CASE DeriveKey \/ FinishJob \/ ExpireJob \/ CollectDependents \/ DeleteJobByHand
           \/ UNCHANGED vars
  BY <1>3 DEF DeriveKey, FinishJob, ExpireJob, CollectDependents, DeleteJobByHand, vars, Synced
<1>4. CASE DeliverWatch
  <2>1. watch \in Seq(Runs) /\ watch # <<>>
    BY <1>4 DEF DeliverWatch, TypeOK
  <2>2. /\ Tail(watch) = <<>> => Head(watch) = watch[Len(watch)]
        /\ Tail(watch) # <<>> => Tail(watch)[Len(Tail(watch))] = watch[Len(watch)]
    <3>1. Head(watch) = watch[1] /\ Len(Tail(watch)) = Len(watch) - 1
      BY <2>1
    <3>2. \A i \in 1..Len(Tail(watch)) : Tail(watch)[i] = watch[i+1]
      BY <2>1
    <3>3. Len(watch) \in Nat /\ Tail(watch) \in Seq(Runs)
      BY <2>1
    <3>4. Tail(watch) = <<>> => Len(watch) = 1
      <4>1. Tail(watch) = <<>> => Len(Tail(watch)) = 0
        BY <3>3, EmptySeq
      <4> QED BY <3>1, <3>3, <4>1
    <3>5. Tail(watch) # <<>> => Len(Tail(watch)) \in 1..Len(Tail(watch))
      BY <3>3
    <3> QED BY <3>1, <3>2, <3>3, <3>4, <3>5
  <2> QED BY <1>4, <2>1, <2>2 DEF DeliverWatch, Synced
<1>5. CASE Resync \/ Restart \/ Crash
  BY <1>5 DEF Resync, Restart, Crash, Synced
<1>6. ASSUME NEW w \in Workers, FireTimer(w) PROVE Synced'
  BY <1>6 DEF FireTimer, Synced
<1>7. ASSUME NEW w \in Workers, Reconcile(w) PROVE Synced'
  <2>1. up' = up /\ cache' = cache
    BY <1>7 DEF Reconcile, DeleteJob, PatchCancelled, PatchResolving, Prepare, CreateJob,
       ReadJob, PatchRunning, PatchError, GetJob, CaptureLogs, UploadLogs, PatchTtl, PatchFinal
  <2>2. CASE cr' = cr /\ watch' = watch
    BY <2>1, <2>2 DEF Synced
  <2>3. ASSUME NEW p \in Phases, NEW j \in BOOLEAN, NEW answer \in Answers,
               PatchRunStatus(w, p, j, answer)
        PROVE  Synced'
    BY <1>1, <2>1, <2>3, PatchEffect, StoreSynced
  <2>4. CASE PatchCancelled(w) \/ PatchResolving(w) \/ PatchRunning(w) \/ PatchError(w)
             \/ PatchFinal(w)
    BY <2>3, <2>4 DEF PatchCancelled, PatchResolving, PatchRunning, PatchError, PatchFinal,
       FinalPhase, Phases, Terminal
  <2>5. CASE DeleteJob(w) \/ Prepare(w) \/ CreateJob(w) \/ ReadJob(w) \/ GetJob(w)
             \/ CaptureLogs(w) \/ UploadLogs(w) \/ PatchTtl(w)
    BY <2>2, <2>5 DEF DeleteJob, Prepare, CreateJob, ReadJob, GetJob, CaptureLogs, UploadLogs, PatchTtl
  <2> QED BY <1>7, <2>4, <2>5 DEF Reconcile
<1> QED BY <1>2, <1>3, <1>4, <1>5, <1>6, <1>7 DEF Next, Cluster

(* One reconcile at a time, in a running operator. *)
LEMMA AloneStep ==
  ASSUME TypeOK, "overlap" \notin Env, Alone, BusyUp, [Next]_vars
  PROVE  Alone' /\ BusyUp'
<1> USE DEF jobVars, userVars, queueVars
<1>1. CASE pc' = pc /\ up' = up
  BY <1>1 DEF Alone, BusyUp
<1>2. CASE Cluster \/ DeliverWatch \/ Resync \/ UNCHANGED vars
  BY <1>1, <1>2 DEF Cluster, RequestCancel, DeleteRun, DeriveKey, FinishJob, ExpireJob,
     CollectDependents, DeleteJobByHand, DeliverWatch, Resync, vars, localVars
<1>3. CASE Crash \/ Restart
  BY <1>3 DEF Crash, Restart, localVars, Alone, BusyUp
<1>4. ASSUME NEW w \in Workers, FireTimer(w) PROVE Alone' /\ BusyUp'
  BY <1>4 DEF FireTimer, Quiet, Goto, localVars, Alone, BusyUp, TypeOK
<1>5. ASSUME NEW w \in Workers, Reconcile(w) PROVE Alone' /\ BusyUp'
  <2>1. up' = up /\ pc[w] # "idle" /\ (\A v \in Workers : v # w => pc'[v] = pc[v])
    BY <1>5 DEF Reconcile, DeleteJob, PatchCancelled, PatchResolving, Prepare, CreateJob,
       ReadJob, PatchRunning, PatchError, GetJob, CaptureLogs, UploadLogs, PatchTtl, PatchFinal,
       Continue, Return, Goto, TypeOK
  <2> QED BY <2>1 DEF Alone, BusyUp
<1> QED BY <1>2, <1>3, <1>4, <1>5 DEF Next

(* The stored phase is the one the reconcile in flight started from, as far *)
(* as its own patches moved it.                                             *)
LEMMA PhaseStep ==
  ASSUME TypeOK, "overlap" \notin Env, SerialInv, [Next]_vars
  PROVE  StepPhase' /\ RunningHasJob'
<1> USE DEF jobVars, userVars, queueVars
<1>1. ASSUME cr'.exists => /\ cr.exists /\ cr'.phase = cr.phase /\ cr'.jobRef = cr.jobRef,
             pc' = pc, obj' = obj,
             ~cr'.exists => cr' = Gone
      PROVE  StepPhase' /\ RunningHasJob'
  BY <1>1 DEF SerialInv, StepPhase, RunningHasJob, Gone
<1>2. CASE RequestCancel
  BY <1>1, <1>2 DEF RequestCancel, Store, localVars, TypeOK, Runs
<1>3. CASE DeleteRun
  BY <1>3 DEF DeleteRun, Store, StepPhase, RunningHasJob, Gone
<1>4. CASE DeriveKey \/ FinishJob \/ ExpireJob \/ CollectDependents \/ DeleteJobByHand
           \/ DeliverWatch \/ Resync \/ Restart \/ UNCHANGED vars
  BY <1>4 DEF DeriveKey, FinishJob, ExpireJob, CollectDependents, DeleteJobByHand, DeliverWatch,
     Resync, Restart, vars, localVars, SerialInv, StepPhase, RunningHasJob
<1>5. CASE Crash
  BY <1>5 DEF Crash, SerialInv, StepPhase, RunningHasJob, PhasesAt, TypeOK, Runs, Gone
<1>6. ASSUME NEW w \in Workers, FireTimer(w) PROVE StepPhase' /\ RunningHasJob'
  <2>1. CASE Settled(cache)
    BY <1>6, <2>1 DEF FireTimer, localVars, SerialInv, StepPhase, RunningHasJob
  <2>2. CASE ~Settled(cache)
    <3>1. cache = cr
      BY <1>6 DEF FireTimer, Quiet, SerialInv, Synced
    <3>2. cr.phase \in PhasesAt(EntryStep(cr))
      BY <2>2, <3>1 DEF Settled, EntryStep, PollOrStart, StartStep, PhasesAt, SerialInv,
         RunningHasJob, TypeOK, Runs, Phases, Terminal
    <3> QED BY <1>6, <2>2, <3>1, <3>2 DEF FireTimer, Goto, SerialInv, StepPhase, RunningHasJob, TypeOK
  <2> QED BY <2>1, <2>2
<1>7. ASSUME NEW w \in Workers, Reconcile(w) PROVE StepPhase' /\ RunningHasJob'
  <2>1. pc[w] # "idle" /\ (\A v \in Workers : v # w => pc'[v] = pc[v] /\ pc[v] = "idle")
    BY <1>7 DEF Reconcile, DeleteJob, PatchCancelled, PatchResolving, Prepare, CreateJob,
       ReadJob, PatchRunning, PatchError, GetJob, CaptureLogs, UploadLogs, PatchTtl, PatchFinal,
       Continue, Return, Goto, TypeOK, SerialInv, Alone
  <2>2. \A v \in Workers : obj'[v] = obj[v] \/ obj'[v] = Gone
    BY <1>7 DEF Reconcile, DeleteJob, PatchCancelled, PatchResolving, Prepare, CreateJob,
       ReadJob, PatchRunning, PatchError, GetJob, CaptureLogs, UploadLogs, PatchTtl, PatchFinal,
       Continue, Return, Goto, TypeOK
  <2>3. ASSUME cr' = cr, cr.exists => cr.phase \in PhasesAt(pc'[w])
        PROVE  StepPhase' /\ RunningHasJob'
    BY <2>1, <2>2, <2>3 DEF SerialInv, StepPhase, RunningHasJob, PhasesAt, TypeOK, Runs, Gone
  <2>4. ASSUME NEW p \in Phases, NEW j \in BOOLEAN, NEW answer \in Answers,
               PatchRunStatus(w, p, j, answer),
               cr.exists => cr.phase \in PhasesAt(pc'[w]) \/ answer = "ok",
               p \in PhasesAt(pc'[w]),
               p = "Resolving" => cr.phase = "None" /\ ~j,
               p = "Running" => j, p # "None"
        PROVE  StepPhase' /\ RunningHasJob'
    <3>1. CASE cr' = cr /\ ~cr.exists
      BY <2>3, <3>1
    <3>2. CASE cr' = cr /\ cr.exists /\ cr.phase \in PhasesAt(pc'[w])
      BY <2>3, <3>2
    <3>3. CASE /\ cr.exists /\ cr'.exists /\ cr'.phase = p
               /\ cr'.jobRef = (cr.jobRef \/ obj[w].jobRef \/ j)
      <4>1. RunningHasJob'
        <5>1. p = "Resolving" => ~cr.jobRef /\ ~obj[w].jobRef
          BY <2>4, <3>3 DEF SerialInv, StepPhase, RunningHasJob
        <5>2. p = "Resolving" => ~cr'.jobRef
          BY <2>4, <3>3, <5>1
        <5>3. p = "Running" => cr'.jobRef
          BY <2>4, <3>3
        <5> QED BY <2>4, <3>3, <5>2, <5>3 DEF RunningHasJob
      <4>2. \A v \in Workers : cr'.phase \in PhasesAt(pc'[v])
        BY <2>1, <2>4, <3>3 DEF PhasesAt
      <4>3. \A v \in Workers : obj'[v].jobRef => cr'.jobRef
        <5>1. cr.jobRef => cr'.jobRef
          BY <3>3
        <5>2. ~Gone.jobRef
          BY DEF Gone
        <5>3. \A v \in Workers : obj[v].jobRef => cr.jobRef
          BY <3>3 DEF SerialInv, StepPhase
        <5> QED BY <2>2, <5>1, <5>2, <5>3
      <4> QED BY <4>1, <4>2, <4>3 DEF StepPhase
    <3> QED BY <2>4, <3>1, <3>2, <3>3, PatchEffect
  <2>5. CASE DeleteJob(w) \/ CreateJob(w) \/ ReadJob(w)
    <3>1. cr' = cr /\ pc'[w] \in {"patchCancelled", "patchError", "patchRunning", "readJob"}
          /\ (pc[w] # "deleteJob" => pc'[w] # "patchCancelled")
          /\ (pc[w] = "deleteJob" => pc'[w] = "patchCancelled")
      BY <2>5 DEF DeleteJob, CreateJob, ReadJob, Continue, Goto, TypeOK
    <3> QED BY <2>3, <2>5, <3>1 DEF DeleteJob, CreateJob, ReadJob, SerialInv, StepPhase, PhasesAt
  <2>6. CASE Prepare(w)
    <3>1. cr' = cr /\ pc'[w] \in {"idle", "createJob", "patchError"}
      BY <2>6 DEF Prepare, Continue, Return, Goto, TypeOK
    <3> QED BY <2>3, <2>6, <3>1 DEF Prepare, SerialInv, StepPhase, PhasesAt, TypeOK, Runs
  <2>7. CASE GetJob(w) \/ CaptureLogs(w) \/ UploadLogs(w) \/ PatchTtl(w)
    <3>1. cr' = cr /\ pc'[w] \in {"idle", "patchError", "captureLogs", "uploadLogs", "patchTtl", "patchFinal"}
      BY <2>7 DEF GetJob, CaptureLogs, UploadLogs, PatchTtl, NextCall, Continue, Return, Goto, TypeOK
    <3>2. pc[w] \in {"getJob", "captureLogs", "uploadLogs", "patchTtl"}
      BY <2>7 DEF GetJob, CaptureLogs, UploadLogs, PatchTtl
    <3>3. cr.exists => cr.phase = "Running"
      BY <3>2 DEF SerialInv, StepPhase, PhasesAt
    <3> QED BY <2>3, <3>1, <3>3 DEF PhasesAt, Phases
  <2>8. CASE PatchCancelled(w) \/ PatchError(w) \/ PatchFinal(w)
    <3>1. PICK p \in Terminal, answer \in Answers :
            PatchRunStatus(w, p, FALSE, answer) /\ Return(w, ~Accepted(answer))
      BY <2>8 DEF PatchCancelled, PatchError, PatchFinal, FinalPhase, Terminal
    <3>2. pc'[w] = "idle" /\ PhasesAt("idle") = Phases
      BY <3>1 DEF Return, Goto, TypeOK, PhasesAt
    <3>3. cr.phase \in Phases /\ p \in Phases /\ p \notin {"None", "Resolving", "Running"}
      BY <3>1 DEF TypeOK, Runs, Phases, Terminal
    <3> QED BY <2>4, <3>1, <3>2, <3>3
  <2>9. CASE PatchResolving(w)
    <3>1. PICK answer \in Answers :
            /\ PatchRunStatus(w, "Resolving", FALSE, answer)
            /\ Continue(w, IF Accepted(answer) THEN "prepare" ELSE "patchError")
      BY <2>9 DEF PatchResolving
    <3>2. pc'[w] = IF Accepted(answer) THEN "prepare" ELSE "patchError"
      BY <3>1 DEF Continue, Goto, TypeOK
    <3>3. cr.exists => cr.phase = "None"
      BY <2>9 DEF PatchResolving, SerialInv, StepPhase, PhasesAt
    <3>4. CASE cr.exists
      <4>1. cr.phase \in PhasesAt(pc'[w]) \/ answer = "ok"
        BY <3>2, <3>3, <3>4 DEF PhasesAt, Accepted
      <4>2. "Resolving" \in PhasesAt(pc'[w]) /\ "Resolving" \in Phases
        BY <3>2 DEF PhasesAt, Phases
      <4> QED BY <2>4, <3>1, <3>3, <3>4, <4>1, <4>2
    <3>5. CASE ~cr.exists
      BY <2>3, <3>1, <3>5 DEF PatchRunStatus
    <3> QED BY <3>4, <3>5
  <2>10. CASE PatchRunning(w)
    <3>1. PICK answer \in Answers :
            /\ PatchRunStatus(w, "Running", TRUE, answer)
            /\ IF Accepted(answer) THEN Return(w, TRUE) ELSE Continue(w, "patchError")
      BY <2>10 DEF PatchRunning
    <3>2. pc'[w] = IF Accepted(answer) THEN "idle" ELSE "patchError"
      BY <3>1 DEF Continue, Return, Goto, TypeOK
    <3>3. cr.exists => cr.phase = "Resolving"
      BY <2>10 DEF PatchRunning, SerialInv, StepPhase, PhasesAt
    <3>4. CASE cr.exists
      <4>1. cr.phase \in PhasesAt(pc'[w]) \/ answer = "ok"
        BY <3>2, <3>3, <3>4 DEF PhasesAt, Accepted
      <4>2. "Running" \in PhasesAt(pc'[w]) /\ "Running" \in Phases
        BY <3>2 DEF PhasesAt, Phases
      <4> QED BY <2>4, <3>1, <3>3, <3>4, <4>1, <4>2
    <3>5. CASE ~cr.exists
      BY <2>3, <3>1, <3>5 DEF PatchRunStatus
    <3> QED BY <3>4, <3>5
  <2> QED BY <1>7, <2>5, <2>6, <2>7, <2>8, <2>9, <2>10 DEF Reconcile
<1> QED BY <1>2, <1>3, <1>4, <1>5, <1>6, <1>7 DEF Next, Cluster

(* Every step keeps the serial invariant when reconciles do not overlap.    *)
LEMMA SerialStep ==
  ASSUME TypeOK, "overlap" \notin Env, SerialInv, [Next]_vars
  PROVE  SerialInv'
BY SyncedStep, AloneStep, PhaseStep DEF SerialInv

(* Without overlapping reconciles a reconcile of run-controller.ts works on *)
(* the run as it is stored: its step tells the stored phase (SerialInv).    *)
THEOREM SerialInvariant == ASSUME "overlap" \notin Env PROVE Spec => []SerialInv
<1>1. TypeOK /\ SerialInv /\ [Next]_vars => SerialInv'
  BY SerialStep
<1> QED BY SerialInit, <1>1, TypeCorrect, PTL DEF Spec

----------------------------------------------------------------------------
(* Every step of serial reconciles is a step, or a stutter, of RunLifecycle. *)
LEMMA LifecycleStep ==
  ASSUME TypeOK, "overlap" \notin Env, SerialInv, ResultInv, CancelInv, [Next]_vars
  PROVE  [Lifecycle!Next]_(Lifecycle!vars)
<1> USE DEF jobVars, userVars, queueVars
<1>1. CASE cr' = cr /\ outcomes' = outcomes
  BY <1>1 DEF Lifecycle!vars
<1>2. CASE RequestCancel
  BY <1>2 DEF RequestCancel, Store, localVars, TypeOK, Runs, Phases, Terminal,
     Lifecycle!Next, Lifecycle!Request
<1>3. CASE DeleteRun
  BY <1>3 DEF DeleteRun, Store, localVars, Gone, TypeOK, Runs, Phases, Terminal,
     Lifecycle!Next, Lifecycle!Delete
<1>4. CASE FinishJob
  BY <1>4 DEF FinishJob, Results, Lifecycle!Next, Lifecycle!PlaybookEnds
<1>5. CASE DeriveKey \/ ExpireJob \/ CollectDependents \/ DeleteJobByHand \/ DeliverWatch
           \/ Resync \/ Crash \/ Restart \/ UNCHANGED vars
  BY <1>1, <1>5 DEF DeriveKey, ExpireJob, CollectDependents, DeleteJobByHand, RemoveJob,
     DeliverWatch, Resync, Crash, Restart, vars
<1>6. ASSUME NEW w \in Workers, FireTimer(w) PROVE [Lifecycle!Next]_(Lifecycle!vars)
  BY <1>1, <1>6 DEF FireTimer
<1>7. ASSUME NEW w \in Workers, Reconcile(w) PROVE [Lifecycle!Next]_(Lifecycle!vars)
  <2>1. CASE DeleteJob(w) \/ Prepare(w) \/ CreateJob(w) \/ ReadJob(w) \/ GetJob(w)
             \/ CaptureLogs(w) \/ UploadLogs(w) \/ PatchTtl(w)
    BY <1>1, <2>1 DEF DeleteJob, Prepare, CreateJob, ReadJob, GetJob, CaptureLogs, UploadLogs,
       PatchTtl, RemoveJob
  <2>2. CASE PatchResolving(w)
    <3>1. cr' = cr \/ (cr.exists /\ cr'.exists /\ cr'.cancel = cr.cancel /\ cr'.phase = "Resolving")
      BY <2>2, PatchEffect DEF PatchResolving, Phases
    <3>2. cr.exists => cr.phase = "None"
      BY <2>2 DEF PatchResolving, SerialInv, StepPhase, PhasesAt
    <3> QED BY <1>1, <2>2, <3>1, <3>2 DEF PatchResolving, Lifecycle!Next, Lifecycle!Resolve
  <2>3. CASE PatchRunning(w)
    <3>1. cr' = cr \/ (cr.exists /\ cr'.exists /\ cr'.cancel = cr.cancel /\ cr'.phase = "Running")
      BY <2>3, PatchEffect DEF PatchRunning, Phases
    <3>2. cr.exists => cr.phase = "Resolving"
      BY <2>3 DEF PatchRunning, SerialInv, StepPhase, PhasesAt
    <3> QED BY <1>1, <2>3, <3>1, <3>2 DEF PatchRunning, Lifecycle!Next, Lifecycle!Start
  <2>4. CASE PatchError(w)
    <3>1. cr' = cr \/ (cr.exists /\ cr'.exists /\ cr'.cancel = cr.cancel /\ cr'.phase = "Error")
      BY <2>4, PatchEffect DEF PatchError, Phases, Terminal
    <3>2. cr.exists => cr.phase \in {"None", "Resolving", "Running"}
      BY <2>4 DEF PatchError, SerialInv, StepPhase, PhasesAt
    <3> QED BY <1>1, <2>4, <3>1, <3>2 DEF PatchError, Lifecycle!Next, Lifecycle!GiveUp
  <2>5. CASE PatchCancelled(w)
    <3>1. cr' = cr \/ (cr.exists /\ cr'.exists /\ cr'.cancel = cr.cancel /\ cr'.phase = "Cancelled")
      BY <2>5, PatchEffect DEF PatchCancelled, Phases, Terminal
    <3>2. cr.exists => cr.phase \in {"Resolving", "Running"} /\ cr.cancel
      BY <2>5 DEF PatchCancelled, SerialInv, StepPhase, PhasesAt, CancelInv
    <3> QED BY <1>1, <2>5, <3>1, <3>2 DEF PatchCancelled, Lifecycle!Next, Lifecycle!Cancel
  <2>6. CASE PatchFinal(w)
    <3>1. \/ cr' = cr
          \/ /\ cr.exists /\ cr'.exists /\ cr'.cancel = cr.cancel
             /\ cr'.phase = FinalPhase(found[w])
      BY <2>6, PatchEffect DEF PatchFinal, FinalPhase, Phases, Terminal
    <3>2. cr.exists => cr.phase = "Running"
      BY <2>6 DEF PatchFinal, SerialInv, StepPhase, PhasesAt
    <3>3. found[w] \in Results /\ found[w] \in outcomes
      BY <2>6 DEF PatchFinal, ResultInv
    <3> QED BY <1>1, <2>6, <3>1, <3>2, <3>3 DEF PatchFinal, FinalPhase, Results,
            Lifecycle!Next, Lifecycle!Report
  <2> QED BY <1>7, <2>1, <2>2, <2>3, <2>4, <2>5, <2>6 DEF Reconcile
<1> QED BY <1>2, <1>3, <1>4, <1>5, <1>6, <1>7 DEF Next, Cluster

(* The operator's run controller implements the life cycle users are promised *)
(* (LifecycleSpec), through failed and lost calls, crashes, restarts and Jobs *)
(* deleted behind its back, provided its reconciles of a run do not overlap.  *)
THEOREM ImplementsLifecycle == ASSUME "overlap" \notin Env PROVE Spec => LifecycleSpec
<1>1. Init => Lifecycle!Init
  BY DEF Init, NewRun, Gone, Lifecycle!Init
<1>2. TypeOK /\ SerialInv /\ ResultInv /\ CancelInv /\ [Next]_vars
        => [Lifecycle!Next]_(Lifecycle!vars)
  BY LifecycleStep
<1> QED BY <1>1, <1>2, TypeCorrect, SerialInvariant, ResultsAndRequests, PTL
        DEF Spec, Lifecycle!Spec, LifecycleSpec

(* In the same setting a terminal phase is never overwritten (TerminalIsFinal, *)
(* of patchRunStatus in run-controller.ts).                                    *)
THEOREM TerminalFinal == ASSUME "overlap" \notin Env PROVE Spec => TerminalIsFinal
<1> DEFINE Kept == cr.exists /\ cr.phase \in Terminal => ~cr'.exists \/ cr'.phase = cr.phase
<1>1. TypeOK /\ SerialInv /\ [Next]_vars => [Kept]_vars
  <2> SUFFICES ASSUME TypeOK, SerialInv, Next, cr.exists, cr.phase \in Terminal, cr'.exists
               PROVE  cr'.phase = cr.phase
    OBVIOUS
  <2> USE DEF jobVars, userVars, queueVars
  <2>1. CASE RequestCancel
    BY <2>1 DEF RequestCancel, Store, TypeOK, Runs
  <2>2. CASE DeleteRun
    BY <2>2 DEF DeleteRun, Store, Gone
  <2>3. CASE DeriveKey \/ FinishJob \/ ExpireJob \/ CollectDependents \/ DeleteJobByHand
             \/ DeliverWatch \/ Resync \/ Crash \/ Restart
    BY <2>3 DEF DeriveKey, FinishJob, ExpireJob, CollectDependents, DeleteJobByHand,
       DeliverWatch, Resync, Crash, Restart
  <2>4. ASSUME NEW w \in Workers, FireTimer(w) PROVE cr' = cr
    BY <2>4 DEF FireTimer
  <2>5. ASSUME NEW w \in Workers, Reconcile(w) PROVE FALSE
    <3>1. pc[w] \in Steps /\ pc[w] # "idle"
      BY <2>5 DEF TypeOK, Reconcile, DeleteJob, PatchCancelled, PatchResolving, Prepare, CreateJob,
         ReadJob, PatchRunning, PatchError, GetJob, CaptureLogs, UploadLogs, PatchTtl, PatchFinal
    <3> QED BY <3>1 DEF SerialInv, StepPhase, PhasesAt, Steps, Terminal
  <2> QED BY <2>1, <2>2, <2>3, <2>4, <2>5 DEF Next, Cluster
<1> QED BY <1>1, TypeCorrect, SerialInvariant, PTL DEF Spec, TerminalIsFinal
----------------------------------------------------------------------------
(* The Job of a run, and its log. *)

Busy(step) == \E w \in Workers : pc[w] = step

(* Until the run is seen to run its Job is not let go of, and it never has  *)
(* another.                                                                 *)
JobKept ==
  cr.exists =>
    /\ jobsCreated <= 1
    /\ cr.phase \in {"None", "Resolving"} => /\ ~jobTtl
                                             /\ jobState = "absent" => jobsCreated = 0

(* What a reconcile knows of the Job between two calls, when none failed.   *)
JobKnown ==
  Undisturbed /\ cr.exists =>
    /\ cr.phase = "None" => jobState = "absent"
    /\ cr.phase = "Resolving" /\ jobState # "absent" => Busy("patchRunning")
    /\ Busy("patchCancelled") => jobState = "absent"
    /\ \A w \in Workers :
         pc[w] \in {"patchError", "captureLogs", "uploadLogs", "patchTtl", "patchFinal"}
           => jobState # "active"
    /\ cr.phase \in Terminal => jobState # "active"

(* Where the log is while it is taken from the Job to the archive, then.    *)
LogKept ==
  Undisturbed /\ S3 /\ cr.exists =>
    /\ jobTtl => cr.phase \in Terminal \/ Busy("patchFinal")
    /\ Busy("captureLogs") => jobState \in Results
    /\ \A w \in Workers : pc[w] = "uploadLogs" => chunk[w] = "full"
    /\ Busy("patchTtl") \/ Busy("patchFinal") => archive = "full"
    /\ cr.phase \in {"Succeeded", "Failed"} => archive = "full"

(* Nothing is left of a run that was deleted.                               *)
NothingLeft == ~cr.exists => cr = Gone

JobInv == JobKept /\ JobKnown /\ LogKept /\ NothingLeft

NoAccident == Env \cap {"overlap", "outage", "tamper"} = {}

(* Of a reconcile's steps only one is going on, so Busy speaks of it alone; *)
(* the run is in a phase that belongs to the step.                          *)
LEMMA OneBusy ==
  ASSUME TypeOK, SerialInv, NEW w \in Workers, Reconcile(w)
  PROVE  /\ pc[w] \in Steps \ {"idle"}
         /\ \A v \in Workers : v # w => pc[v] = "idle" /\ pc'[v] = "idle"
         /\ cr.exists => cr.phase \in PhasesAt(pc[w])
<1>1. pc[w] # "idle" /\ (\A v \in Workers : v # w => pc'[v] = pc[v] /\ pc[v] = "idle")
  BY DEF Reconcile, DeleteJob, PatchCancelled, PatchResolving, Prepare, CreateJob,
     ReadJob, PatchRunning, PatchError, GetJob, CaptureLogs, UploadLogs, PatchTtl, PatchFinal,
     Continue, Return, Goto, TypeOK, SerialInv, Alone
<1> QED BY <1>1 DEF TypeOK, SerialInv, StepPhase

(* A call that is answered is known to have been made.                      *)
LEMMA SpendOk ==
  ASSUME TypeOK, NEW answer \in Answers, Spend(answer)
  PROVE  /\ faults' \in Nat
         /\ faults' = 0 => faults = 0 /\ answer = "ok"
BY BoundsAssumption DEF TypeOK, Spend, Answers

(* An undisturbed run was undisturbed before, and its calls succeeded.      *)
LEMMA UndisturbedBefore ==
  ASSUME TypeOK, [Next]_vars
  PROVE  /\ Undisturbed' => Undisturbed
         /\ cr'.exists => cr.exists
<1> USE DEF jobVars, userVars, queueVars, localVars
<1>1. CASE Cluster \/ DeliverWatch \/ Resync \/ Restart \/ UNCHANGED vars
  BY <1>1 DEF Cluster, RequestCancel, DeleteRun, DeriveKey, FinishJob, ExpireJob, Store, Gone,
     CollectDependents, DeleteJobByHand, DeliverWatch, Resync, Restart, vars, Undisturbed
<1>2. CASE Crash
  BY <1>2, BoundsAssumption DEF Crash, Undisturbed, TypeOK
<1>3. ASSUME NEW w \in Workers, FireTimer(w) PROVE UNCHANGED <<cr, faults, crashes>>
  BY <1>3 DEF FireTimer
<1>4. ASSUME NEW w \in Workers, Reconcile(w)
      PROVE  /\ crashes' = crashes /\ (faults' = 0 => faults = 0)
             /\ cr'.exists => cr.exists
  <2>1. crashes' = crashes
    BY <1>4 DEF Reconcile, DeleteJob, PatchCancelled, PatchResolving, Prepare, CreateJob,
       ReadJob, PatchRunning, PatchError, GetJob, CaptureLogs, UploadLogs, PatchTtl, PatchFinal
  <2>2. faults' = faults \/ \E answer \in Answers : Spend(answer)
    BY <1>4 DEF Reconcile, DeleteJob, PatchCancelled, PatchResolving, Prepare, CreateJob, Answers,
       ReadJob, PatchRunning, PatchError, GetJob, CaptureLogs, UploadLogs, PatchTtl, PatchFinal,
       PatchRunStatus
  <2>3. faults' = 0 => faults = 0
    BY <2>2, SpendOk
  <2>4. cr' = cr \/ cr.exists
    BY <1>4 DEF Reconcile, DeleteJob, PatchCancelled, PatchResolving, Prepare, CreateJob,
       ReadJob, PatchRunning, PatchError, GetJob, CaptureLogs, UploadLogs, PatchTtl, PatchFinal,
       PatchRunStatus
  <2> QED BY <2>1, <2>3, <2>4
<1> QED BY <1>1, <1>2, <1>3, <1>4 DEF Next, Undisturbed
(* A patch of the run's status leaves its Job alone, and gives it a phase.  *)
LEMMA PatchKeepsJob ==
  ASSUME TypeOK, NEW w \in Workers, cr.exists, cr'.exists,
         \/ PatchCancelled(w) \/ PatchResolving(w) \/ PatchRunning(w)
         \/ PatchError(w) \/ PatchFinal(w)
  PROVE  /\ UNCHANGED <<jobVars, archive>>
         /\ cr'.phase # cr.phase =>
              /\ PatchCancelled(w) => cr'.phase = "Cancelled"
              /\ PatchResolving(w) => cr'.phase = "Resolving"
              /\ PatchRunning(w) => cr'.phase = "Running"
              /\ PatchError(w) => cr'.phase = "Error"
              /\ PatchFinal(w) => cr'.phase = FinalPhase(found[w])
<1>1. UNCHANGED <<jobVars, archive>>
  BY DEF PatchCancelled, PatchResolving, PatchRunning, PatchError, PatchFinal
<1>2. /\ {"Cancelled", "Resolving", "Running", "Error", FinalPhase(found[w])} \subseteq Phases
      /\ TRUE \in BOOLEAN /\ FALSE \in BOOLEAN
  BY DEF Phases, Terminal, FinalPhase
<1>3. ASSUME cr'.phase # cr.phase, NEW p \in Phases, NEW j \in BOOLEAN, NEW answer \in Answers,
             PatchRunStatus(w, p, j, answer)
      PROVE  cr'.phase = p
  BY <1>3, PatchEffect
<1>4. ASSUME cr'.phase # cr.phase
      PROVE  /\ PatchCancelled(w) => cr'.phase = "Cancelled"
             /\ PatchResolving(w) => cr'.phase = "Resolving"
             /\ PatchRunning(w) => cr'.phase = "Running"
             /\ PatchError(w) => cr'.phase = "Error"
             /\ PatchFinal(w) => cr'.phase = FinalPhase(found[w])
  <2>1. PatchCancelled(w) => cr'.phase = "Cancelled"
    BY <1>2, <1>3, <1>4 DEF PatchCancelled
  <2>2. PatchResolving(w) => cr'.phase = "Resolving"
    BY <1>2, <1>3, <1>4 DEF PatchResolving
  <2>3. PatchRunning(w) => cr'.phase = "Running"
    BY <1>2, <1>3, <1>4 DEF PatchRunning
  <2>4. PatchError(w) => cr'.phase = "Error"
    BY <1>2, <1>3, <1>4 DEF PatchError
  <2>5. PatchFinal(w) => cr'.phase = FinalPhase(found[w])
    BY <1>2, <1>3, <1>4 DEF PatchFinal
  <2> QED BY <2>1, <2>2, <2>3, <2>4, <2>5
<1> QED BY <1>1, <1>4

(* A run is given a Job once, and keeps it until it is seen to run.         *)
LEMMA JobKeptStep ==
  ASSUME TypeOK, NoAccident, SerialInv, JobKept, [Next]_vars
  PROVE  JobKept'
<1> USE DEF jobVars, userVars, queueVars, localVars
<1> SUFFICES ASSUME cr'.exists
             PROVE  /\ jobsCreated' <= 1
                    /\ cr'.phase \in {"None", "Resolving"} =>
                         ~jobTtl' /\ (jobState' = "absent" => jobsCreated' = 0)
  BY DEF JobKept
<1>0. cr.exists /\ TypeOK'
  BY UndisturbedBefore, TypeStep
<1>1. CASE RequestCancel \/ DeriveKey
  BY <1>0, <1>1 DEF RequestCancel, Store, DeriveKey, JobKept, TypeOK, Runs
<1>2. CASE DeleteRun \/ CollectDependents \/ DeleteJobByHand
  BY <1>0, <1>2 DEF DeleteRun, Store, Gone, CollectDependents, DeleteJobByHand, NoAccident
<1>3. CASE FinishJob \/ ExpireJob
  BY <1>0, <1>3 DEF FinishJob, ExpireJob, RemoveJob, NoAccident, JobKept, Results
<1>4. DeliverWatch \/ Resync \/ Crash \/ Restart \/ UNCHANGED vars => UNCHANGED <<cr, jobVars>>
  BY DEF DeliverWatch, Resync, Crash, Restart, vars
<1>5. ASSUME NEW w \in Workers, FireTimer(w) PROVE UNCHANGED <<cr, jobVars>>
  BY <1>5 DEF FireTimer
<1>6. ASSUME NEW w \in Workers, Reconcile(w)
      PROVE  /\ jobsCreated' <= 1
             /\ cr'.phase \in {"None", "Resolving"} =>
                  ~jobTtl' /\ (jobState' = "absent" => jobsCreated' = 0)
  <2>0. cr.phase \in PhasesAt(pc[w])
    BY <1>0, <1>6, OneBusy
  <2>1. CASE DeleteJob(w) \/ PatchTtl(w)
    BY <1>0, <2>0, <2>1 DEF DeleteJob, PatchTtl, RemoveJob, PhasesAt, JobKept
  <2>2. CASE CreateJob(w)
    BY <1>0, <2>0, <2>2 DEF CreateJob, PhasesAt, JobKept, TypeOK
  <2>3. CASE Prepare(w) \/ ReadJob(w) \/ GetJob(w) \/ CaptureLogs(w) \/ UploadLogs(w)
    <3>1. UNCHANGED <<cr, jobVars>>
      BY <2>3 DEF Prepare, ReadJob, GetJob, CaptureLogs, UploadLogs
    <3> QED BY <1>0, <3>1 DEF JobKept
  <2>4. CASE \/ PatchCancelled(w) \/ PatchResolving(w) \/ PatchRunning(w)
             \/ PatchError(w) \/ PatchFinal(w)
    <3>1. /\ UNCHANGED jobVars
          /\ cr'.phase \in {"None", "Resolving"} =>
               cr'.phase = cr.phase \/ (cr'.phase = "Resolving" /\ cr.phase = "None")
      BY <1>0, <2>0, <2>4, PatchKeepsJob
         DEF PatchResolving, PatchCancelled, PatchRunning, PatchError, PatchFinal, PhasesAt,
             FinalPhase
    <3> QED BY <1>0, <3>1 DEF JobKept
  <2> QED BY <1>6, <2>1, <2>2, <2>3, <2>4 DEF Reconcile
<1> QED BY <1>0, <1>1, <1>2, <1>3, <1>4, <1>5, <1>6 DEF Next, Cluster, JobKept
(* Where the one reconcile goes from a step at which all calls succeed.     *)
Succeeding(w) ==
  CASE pc[w] = "deleteJob" -> pc'[w] = "patchCancelled" /\ jobState' = "absent"
    [] pc[w] = "patchResolving" -> pc'[w] = "prepare"
    [] pc[w] = "prepare" -> pc'[w] \in {"idle", "createJob", "patchError"}
    [] pc[w] = "createJob" -> /\ jobState = "absent" => pc'[w] = "patchRunning"
                              /\ jobState # "absent" => pc'[w] = "readJob"
    [] pc[w] = "readJob" -> pc'[w] = IF jobState = "absent" THEN "patchError" ELSE "patchRunning"
    [] pc[w] = "getJob" -> \/ pc'[w] = "idle"
                           \/ pc'[w] = "patchError" /\ jobState = "absent"
                           \/ pc'[w] = "captureLogs" /\ jobState \in Results
    [] pc[w] = "captureLogs" -> /\ pc'[w] = IF S3 THEN "uploadLogs" ELSE "patchTtl"
                                /\ jobState # "absent" => chunk'[w] = "full"
    [] pc[w] = "uploadLogs" -> pc'[w] = "patchTtl" /\ archive' = chunk[w]
    [] pc[w] = "patchTtl" -> pc'[w] = "patchFinal"
    [] pc[w] = "patchRunning" -> pc'[w] = "idle" /\ cr'.phase = "Running"
    [] pc[w] = "patchCancelled" -> pc'[w] = "idle" /\ cr'.phase = "Cancelled"
    [] pc[w] = "patchError" -> pc'[w] = "idle" /\ cr'.phase = "Error"
    [] pc[w] = "patchFinal" -> pc'[w] = "idle" /\ cr'.phase \in {"Succeeded", "Failed"}

(* The steps that touch the Job, its TTL, the archive and the run's phase.  *)
Untouched(w) ==
  /\ pc[w] \notin {"deleteJob", "createJob"} => jobState' = jobState
  /\ pc[w] = "createJob" => jobState' \in {jobState, "active"}
  /\ pc[w] \notin {"deleteJob", "createJob", "patchTtl"} => jobTtl' = jobTtl
  /\ pc[w] # "patchTtl" /\ jobTtl' => jobTtl
  /\ pc[w] # "uploadLogs" => archive' = archive
  /\ pc[w] # "captureLogs" => chunk'[w] \in {chunk[w], "none"}
  /\ pc[w] \notin {"patchResolving", "patchRunning", "patchCancelled", "patchError", "patchFinal"}
       => cr' = cr
  /\ pc[w] = "patchResolving" => cr'.phase = "Resolving"

(* A reconcile step in a run in which no call has failed.                   *)
LEMMA ReconcileSucceeds ==
  ASSUME TypeOK, NEW w \in Workers, Reconcile(w), cr.exists, cr'.exists, faults' = 0
  PROVE  Succeeding(w) /\ Untouched(w)
<1> USE DEF jobVars, userVars, queueVars, localVars
<1>1. CASE DeleteJob(w)
  BY <1>1, SpendOk DEF DeleteJob, RemoveJob, Continue, Goto, TypeOK, Succeeding, Untouched
<1>2. CASE Prepare(w)
  BY <1>2 DEF Prepare, Continue, Return, Goto, TypeOK, Succeeding, Untouched
<1>3. CASE CreateJob(w)
  BY <1>3, SpendOk DEF CreateJob, Continue, Goto, TypeOK, Succeeding, Untouched
<1>4. CASE ReadJob(w)
  <2>1. PICK answer \in Answers : /\ Spend(answer)
                                  /\ Continue(w, IF answer = "ok" /\ jobState # "absent"
                                                 THEN "patchRunning" ELSE "patchError")
    BY <1>4 DEF ReadJob, Answers
  <2> QED BY <1>4, <2>1, SpendOk DEF ReadJob, Continue, Goto, TypeOK, Succeeding, Untouched
<1>5. CASE GetJob(w)
  <2>1. PICK answer \in {"ok", "refused"} :
          /\ Spend(answer)
          /\ \/ answer = "refused"
             \/ jobState = "absent" /\ Continue(w, "patchError")
             \/ jobState = "active" /\ Return(w, TRUE)
             \/ jobState \in Results /\ Goto(w, NextCall("getJob")) /\ UNCHANGED chunk
    BY <1>5 DEF GetJob
  <2>2. answer = "ok"
    BY <2>1, SpendOk DEF Answers
  <2>3. pc[w] = "getJob" /\ UNCHANGED <<cr, jobVars, archive>>
    BY <1>5 DEF GetJob
  <2> QED BY <2>1, <2>2, <2>3 DEF Continue, Return, Goto, NextCall, TypeOK, Succeeding, Untouched
<1>6. CASE CaptureLogs(w)
  <2>1. PICK answer \in {"ok", "refused"} :
          /\ Spend(answer)
          /\ chunk' = [chunk EXCEPT ![w] = IF answer = "ok" /\ jobState # "absent"
                                           THEN "full" ELSE "empty"]
    BY <1>6 DEF CaptureLogs
  <2>2. answer = "ok"
    BY <2>1, SpendOk DEF Answers
  <2> QED BY <1>6, <2>1, <2>2 DEF CaptureLogs, Goto, NextCall, TypeOK, Succeeding, Untouched
<1>7. CASE UploadLogs(w)
  BY <1>7, SpendOk DEF UploadLogs, Continue, Goto, NextCall, TypeOK, Succeeding, Untouched
<1>8. CASE PatchTtl(w)
  BY <1>8 DEF PatchTtl, Continue, Goto, NextCall, TypeOK, Succeeding, Untouched
<1>9. ASSUME NEW p \in Phases, NEW j \in BOOLEAN, NEW answer \in Answers,
             PatchRunStatus(w, p, j, answer)
      PROVE  cr'.phase = p /\ Accepted(answer)
  <2>1. answer = "ok"
    BY <1>9, SpendOk DEF PatchRunStatus
  <2> QED BY <1>9, <2>1, PatchEffect DEF Accepted
<1>10. ASSUME NEW p \in Phases, NEW j \in BOOLEAN, NEW next \in Steps,
              \E answer \in Answers :
                 /\ PatchRunStatus(w, p, j, answer)
                 /\ \/ next = "idle" /\ Return(w, ~Accepted(answer))
                    \/ IF Accepted(answer) THEN next = "idle" /\ Return(w, TRUE)
                                           ELSE Continue(w, "patchError")
                    \/ Continue(w, IF Accepted(answer) THEN next ELSE "patchError")
       PROVE  cr'.phase = p /\ pc'[w] = next /\ chunk'[w] \in {chunk[w], "none"}
  BY <1>9, <1>10 DEF Return, Continue, Goto, TypeOK
<1>11. CASE PatchCancelled(w) \/ PatchError(w) \/ PatchFinal(w)
  <2>1. PICK p \in Terminal :
          /\ \E answer \in Answers :
               PatchRunStatus(w, p, FALSE, answer) /\ Return(w, ~Accepted(answer))
          /\ pc[w] = "patchCancelled" => p = "Cancelled"
          /\ pc[w] = "patchError" => p = "Error"
          /\ pc[w] = "patchFinal" => p \in {"Succeeded", "Failed"}
    BY <1>11 DEF PatchCancelled, PatchError, PatchFinal, FinalPhase, Terminal
  <2>2. p \in Phases /\ FALSE \in BOOLEAN /\ "idle" \in Steps
    BY DEF Phases, Steps
  <2>3. cr'.phase = p /\ pc'[w] = "idle" /\ chunk'[w] \in {chunk[w], "none"}
    BY <1>10, <2>1, <2>2
  <2>4. pc[w] \in {"patchCancelled", "patchError", "patchFinal"} /\ UNCHANGED <<jobVars, archive>>
    BY <1>11 DEF PatchCancelled, PatchError, PatchFinal
  <2> QED BY <2>1, <2>3, <2>4 DEF Succeeding, Untouched
<1>12. CASE PatchResolving(w)
  <2>1. cr'.phase = "Resolving" /\ pc'[w] = "prepare" /\ chunk'[w] \in {chunk[w], "none"}
    BY <1>10, <1>12 DEF PatchResolving, Phases, Steps
  <2> QED BY <1>12, <2>1 DEF PatchResolving, Succeeding, Untouched
<1>13. CASE PatchRunning(w)
  <2>1. cr'.phase = "Running" /\ pc'[w] = "idle" /\ chunk'[w] \in {chunk[w], "none"}
    BY <1>10, <1>13 DEF PatchRunning, Phases, Steps
  <2> QED BY <1>13, <2>1 DEF PatchRunning, Succeeding, Untouched
<1> QED BY <1>1, <1>2, <1>3, <1>4, <1>5, <1>6, <1>7, <1>8, <1>11, <1>12, <1>13 DEF Reconcile
(* When no call failed, a reconcile never loses sight of its run's Job.     *)
LEMMA JobKnownStep ==
  ASSUME TypeOK, NoAccident, SerialInv, JobKnown, [Next]_vars
  PROVE  JobKnown'
<1> USE DEF jobVars, userVars, queueVars, localVars
<1> SUFFICES ASSUME Undisturbed', cr'.exists PROVE JobKnown'
  BY DEF JobKnown
<1>0. Undisturbed /\ cr.exists
  BY UndisturbedBefore
<1>1. ASSUME cr'.phase = cr.phase, pc' = pc,
             jobState' = jobState \/ (jobState' # "active" /\ jobState # "absent")
      PROVE  JobKnown'
  BY <1>0, <1>1 DEF JobKnown, Busy
<1>2. CASE RequestCancel \/ DeriveKey
  BY <1>0, <1>1, <1>2 DEF RequestCancel, Store, DeriveKey, TypeOK, Runs
<1>3. CASE FinishJob \/ ExpireJob
  BY <1>1, <1>3 DEF FinishJob, ExpireJob, RemoveJob, Results
<1>4. CASE DeleteRun \/ CollectDependents \/ DeleteJobByHand \/ Crash
  BY <1>0, <1>4, BoundsAssumption
     DEF DeleteRun, Store, Gone, CollectDependents, DeleteJobByHand, Crash, NoAccident,
         Undisturbed, TypeOK
<1>5. DeliverWatch \/ Resync \/ Restart \/ UNCHANGED vars
        => cr' = cr /\ pc' = pc /\ jobState' = jobState
  BY DEF DeliverWatch, Resync, Restart, vars
<1>6. ASSUME NEW w \in Workers, FireTimer(w) PROVE JobKnown'
  <2>1. cr' = cr /\ jobState' = jobState
    BY <1>6 DEF FireTimer
  <2>2. \A v \in Workers : pc[v] = "idle"
    BY <1>6 DEF FireTimer, Quiet, NoAccident
  <2>3. CASE pc' = pc
    BY <1>1, <2>1, <2>3
  <2>4. CASE pc' = [pc EXCEPT ![w] = EntryStep(cache)] /\ ~Settled(cache)
    <3>1. cache = cr
      BY <1>6 DEF FireTimer, Quiet, NoAccident, SerialInv, Synced
    <3>2. EntryStep(cr) = "patchCancelled" => cr.phase \in {"None", "Resolving"}
      BY <2>4, <3>1 DEF EntryStep, PollOrStart, StartStep, Settled, SerialInv, RunningHasJob,
                        TypeOK, Runs, Phases
    <3>3. EntryStep(cr) \in {"deleteJob", "patchCancelled", "getJob", "prepare", "patchResolving"}
      BY DEF EntryStep, PollOrStart, StartStep
    <3>4. cr.phase \in {"None", "Resolving"} => jobState = "absent"
      BY <1>0, <2>2 DEF JobKnown, Busy
    <3>5. \A v \in Workers : pc'[v] \in {"idle", EntryStep(cr)}
      BY <2>2, <2>4, <3>1 DEF TypeOK
    <3> QED BY <1>0, <2>1, <3>2, <3>3, <3>4, <3>5 DEF JobKnown, Busy
  <2> QED BY <1>6, <2>3, <2>4 DEF FireTimer, Goto
<1>7. ASSUME NEW w \in Workers, Reconcile(w) PROVE JobKnown'
  <2>1. /\ pc[w] \in Steps \ {"idle"} /\ cr.phase \in PhasesAt(pc[w])
        /\ \A v \in Workers : v # w => pc[v] = "idle" /\ pc'[v] = "idle"
    BY <1>0, <1>7, OneBusy
  <2>2. Succeeding(w) /\ Untouched(w)
    BY <1>0, <1>7, ReconcileSucceeds DEF Undisturbed
  <2>3. /\ cr.phase = "None" => jobState = "absent"
        /\ cr.phase = "Resolving" /\ jobState # "absent" => pc[w] = "patchRunning"
        /\ pc[w] = "patchCancelled" => jobState = "absent"
        /\ pc[w] \in {"patchError", "captureLogs", "uploadLogs", "patchTtl", "patchFinal"}
             => jobState # "active"
    BY <1>0, <2>1 DEF JobKnown, Busy
  <2>4. /\ cr'.phase = "None" => jobState' = "absent"
        /\ cr'.phase = "Resolving" /\ jobState' # "absent" => pc'[w] = "patchRunning"
        /\ pc'[w] = "patchCancelled" => jobState' = "absent"
        /\ pc'[w] \in {"patchError", "captureLogs", "uploadLogs", "patchTtl", "patchFinal"}
             => jobState' # "active"
        /\ cr'.phase \in Terminal => jobState' # "active"
    <3>1. CASE pc[w] \in {"deleteJob", "patchResolving", "prepare", "createJob", "readJob"}
      BY <2>1, <2>2, <2>3, <3>1 DEF Succeeding, Untouched, PhasesAt, Terminal
    <3>2. CASE pc[w] \in {"getJob", "captureLogs", "uploadLogs", "patchTtl"}
      BY <2>1, <2>2, <2>3, <3>2 DEF Succeeding, Untouched, PhasesAt, Terminal, Results
    <3>3. CASE pc[w] \in {"patchRunning", "patchCancelled", "patchError", "patchFinal"}
      BY <2>1, <2>2, <2>3, <3>3 DEF Succeeding, Untouched, PhasesAt, Terminal
    <3> QED BY <2>1, <3>1, <3>2, <3>3 DEF Steps
  <2> QED BY <2>1, <2>4 DEF JobKnown, Busy
<1> QED BY <1>1, <1>2, <1>3, <1>4, <1>5, <1>6, <1>7 DEF Next, Cluster

(* Nor, when no call failed, of its log.                                    *)
LEMMA LogKeptStep ==
  ASSUME TypeOK, NoAccident, SerialInv, JobKnown, LogKept, [Next]_vars
  PROVE  LogKept'
<1> USE DEF jobVars, userVars, queueVars, localVars
<1> SUFFICES ASSUME Undisturbed', S3, cr'.exists PROVE LogKept'
  BY DEF LogKept
<1>0. Undisturbed /\ cr.exists
  BY UndisturbedBefore
<1>1. ASSUME cr'.phase = cr.phase, pc' = pc, UNCHANGED <<chunk, archive>>,
             \/ jobState' = jobState /\ jobTtl' = jobTtl
             \/ jobState' \in Results /\ jobTtl' = jobTtl
             \/ jobTtl /\ ~jobTtl'
      PROVE  LogKept'
  <2>1. CASE ~(jobTtl /\ ~jobTtl')
    BY <1>0, <1>1, <2>1 DEF LogKept, Busy
  <2>2. CASE jobTtl /\ ~jobTtl'
    <3>1. ~Busy("captureLogs")
      <4>1. SUFFICES ASSUME NEW w \in Workers, pc[w] = "captureLogs" PROVE FALSE
        BY DEF Busy
      <4>2. cr.phase = "Running"
        BY <1>0, <4>1 DEF SerialInv, StepPhase, PhasesAt
      <4>3. PICK v \in Workers : pc[v] = "patchFinal"
        BY <1>0, <2>2, <4>2 DEF LogKept, Busy, Terminal
      <4> QED BY <4>1, <4>3 DEF SerialInv, Alone
    <3> QED BY <1>0, <1>1, <2>2, <3>1 DEF LogKept, Busy
  <2> QED BY <2>1, <2>2
<1>2. CASE RequestCancel \/ DeriveKey
  BY <1>0, <1>1, <1>2 DEF RequestCancel, Store, DeriveKey, TypeOK, Runs
<1>3. CASE FinishJob \/ ExpireJob
  BY <1>1, <1>3 DEF FinishJob, ExpireJob, RemoveJob, NoAccident
<1>4. CASE DeleteRun \/ CollectDependents \/ DeleteJobByHand \/ Crash
  BY <1>0, <1>4, BoundsAssumption
     DEF DeleteRun, Store, Gone, CollectDependents, DeleteJobByHand, Crash, NoAccident,
         Undisturbed, TypeOK
<1>5. DeliverWatch \/ Resync \/ Restart \/ UNCHANGED vars
        => UNCHANGED <<cr, pc, chunk, archive, jobState, jobTtl>>
  BY DEF DeliverWatch, Resync, Restart, vars
<1>6. ASSUME NEW w \in Workers, FireTimer(w) PROVE LogKept'
  <2>1. UNCHANGED <<cr, jobTtl, chunk, archive>>
    BY <1>6 DEF FireTimer
  <2>2. \A v \in Workers : pc[v] = "idle"
    BY <1>6 DEF FireTimer, Quiet, NoAccident
  <2>3. \A v \in Workers : pc'[v] \in {"idle", EntryStep(cache)}
    BY <1>6, <2>2 DEF FireTimer, Goto, TypeOK
  <2>4. EntryStep(cache) \in {"deleteJob", "patchCancelled", "getJob", "prepare", "patchResolving"}
    BY DEF EntryStep, PollOrStart, StartStep
  <2> QED BY <1>0, <2>1, <2>2, <2>3, <2>4 DEF LogKept, Busy
<1>7. ASSUME NEW w \in Workers, Reconcile(w) PROVE LogKept'
  <2>1. /\ pc[w] \in Steps \ {"idle"} /\ cr.phase \in PhasesAt(pc[w])
        /\ \A v \in Workers : v # w => pc[v] = "idle" /\ pc'[v] = "idle"
    BY <1>0, <1>7, OneBusy
  <2>2. Succeeding(w) /\ Untouched(w)
    BY <1>0, <1>7, ReconcileSucceeds DEF Undisturbed
  <2>3. /\ jobTtl => cr.phase \in Terminal \/ pc[w] = "patchFinal"
        /\ pc[w] = "captureLogs" => jobState \in Results
        /\ pc[w] = "uploadLogs" => chunk[w] = "full"
        /\ pc[w] \in {"patchTtl", "patchFinal"} => archive = "full"
        /\ cr.phase \in {"Succeeded", "Failed"} => archive = "full"
    BY <1>0, <2>1 DEF LogKept, Busy
  <2>4. /\ jobTtl' => cr'.phase \in Terminal \/ pc'[w] = "patchFinal"
        /\ pc'[w] = "captureLogs" => jobState' \in Results
        /\ pc'[w] = "uploadLogs" => chunk'[w] = "full"
        /\ pc'[w] \in {"patchTtl", "patchFinal"} => archive' = "full"
        /\ cr'.phase \in {"Succeeded", "Failed"} => archive' = "full"
    <3>1. CASE pc[w] \in {"deleteJob", "patchResolving", "prepare", "createJob", "readJob"}
      BY <2>1, <2>2, <2>3, <3>1 DEF Succeeding, Untouched, PhasesAt, Terminal
    <3>2. CASE pc[w] \in {"getJob", "captureLogs"}
      BY <2>1, <2>2, <2>3, <3>2 DEF Succeeding, Untouched, PhasesAt, Terminal, Results
    <3>3. CASE pc[w] \in {"uploadLogs", "patchTtl"}
      BY <2>1, <2>2, <2>3, <3>3 DEF Succeeding, Untouched, PhasesAt, Terminal
    <3>4. CASE pc[w] \in {"patchRunning", "patchCancelled", "patchError", "patchFinal"}
      BY <2>1, <2>2, <2>3, <3>4 DEF Succeeding, Untouched, PhasesAt, Terminal
    <3> QED BY <2>1, <3>1, <3>2, <3>3, <3>4 DEF Steps
  <2> QED BY <2>1, <2>4 DEF LogKept, Busy
<1> QED BY <1>1, <1>2, <1>3, <1>4, <1>5, <1>6, <1>7 DEF Next, Cluster

(* A run that was deleted is not brought back by a late patch.              *)
LEMMA NothingLeftStep == ASSUME TypeOK, NothingLeft, [Next]_vars PROVE NothingLeft'
<1> USE DEF jobVars, userVars, queueVars, localVars
<1>1. CASE Cluster
  BY <1>1 DEF Cluster, RequestCancel, DeleteRun, DeriveKey, FinishJob, ExpireJob, Store, Gone,
     CollectDependents, DeleteJobByHand, NothingLeft, TypeOK, Runs
<1>2. DeliverWatch \/ Resync \/ Crash \/ Restart \/ UNCHANGED vars => cr' = cr
  BY DEF DeliverWatch, Resync, Crash, Restart, vars
<1>3. ASSUME NEW w \in Workers, FireTimer(w) PROVE cr' = cr
  BY <1>3 DEF FireTimer
<1>4. ASSUME NEW w \in Workers, Reconcile(w) PROVE NothingLeft'
  <2>1. CASE \/ PatchCancelled(w) \/ PatchResolving(w) \/ PatchRunning(w)
             \/ PatchError(w) \/ PatchFinal(w)
    <3>1. PICK p \in Phases, j \in BOOLEAN, answer \in Answers : PatchRunStatus(w, p, j, answer)
      BY <2>1 DEF PatchCancelled, PatchResolving, PatchRunning, PatchError, PatchFinal, FinalPhase,
         Phases, Terminal
    <3> QED BY <3>1, PatchEffect DEF NothingLeft
  <2>2. CASE \/ DeleteJob(w) \/ Prepare(w) \/ CreateJob(w) \/ ReadJob(w) \/ GetJob(w)
             \/ CaptureLogs(w) \/ UploadLogs(w) \/ PatchTtl(w)
    <3>1. cr' = cr
      BY <2>2 DEF DeleteJob, Prepare, CreateJob, ReadJob, GetJob, CaptureLogs, UploadLogs, PatchTtl
    <3> QED BY <3>1 DEF NothingLeft
  <2> QED BY <1>4, <2>1, <2>2 DEF Reconcile
<1> QED BY <1>1, <1>2, <1>3, <1>4 DEF Next, NothingLeft

(* The Job's invariant is kept while reconciles do not overlap, the operator *)
(* is never away for a day and nobody deletes the Job.                       *)
THEOREM JobInvariant == ASSUME NoAccident PROVE Spec => []JobInv
<1>1. Init => JobInv
  BY DEF Init, JobInv, JobKept, JobKnown, LogKept, NothingLeft, Busy, NewRun, Gone, Terminal
<1>2. TypeOK /\ SerialInv /\ JobInv /\ [Next]_vars => JobInv'
  BY JobKeptStep, JobKnownStep, LogKeptStep, NothingLeftStep DEF JobInv
<1>3. "overlap" \notin Env
  BY DEF NoAccident
<1> QED BY <1>1, <1>2, <1>3, TypeCorrect, SerialInvariant, PTL DEF Spec

(* Then the playbook of a run is never run twice, whatever fails or crashes *)
(* (OneJobPerRun, createJob of run-controller.ts and its fixed Job name).   *)
THEOREM OneJob == ASSUME NoAccident PROVE Spec => []OneJobPerRun
<1>1. JobInv => OneJobPerRun
  BY DEF JobInv, JobKept, OneJobPerRun
<1> QED BY <1>1, JobInvariant, PTL

(* Until a call fails or the operator crashes, a run that is over has left  *)
(* no Job running (NoOrphanJob, the cancel branch of reconcileRun).         *)
THEOREM JobsEnd == ASSUME NoAccident PROVE Spec => []NoOrphanJob
<1>1. JobInv => NoOrphanJob
  BY DEF JobInv, JobKnown, NothingLeft, Gone, NoOrphanJob
<1> QED BY <1>1, JobInvariant, PTL

(* The log of a run that reports a result is archived, then too             *)
(* (ReportedRunIsArchived, the order of the calls in pollJobToCompletion).  *)
THEOREM ReportsArchived == ASSUME NoAccident PROVE Spec => []ReportedRunIsArchived
<1>1. JobInv /\ TypeOK => ReportedRunIsArchived
  BY DEF JobInv, LogKept, NothingLeft, Gone, ReportedRunIsArchived
<1> QED BY <1>1, JobInvariant, TypeCorrect, PTL

(***************************************************************************)
(* RunPage: the page of a run shows, and downloads, the log that was asked *)
(* for (ui/src/views/runs/RunDetailView.vue, api/src/modules/              *)
(* ansibleruns.ts).                                                        *)
(***************************************************************************)

SeriesRuns == 1..MaxRuns
AnyUnit == Shards \cup {All}
LogPlaces == Places \cup {"none"}
Status == [phase : {"None", "Resolving", "Running"} \cup Ended,
           logs : UNION {[U -> LogPlaces] : U \in SUBSET AnyUnit}]
Get == [id : Nat, run : SeriesRuns]
Stream == [id : Nat, run : SeriesRuns, open : BOOLEAN, followed : BOOLEAN, events : Seq(Status)]
Item == [run : {None} \cup SeriesRuns, st : Status]
Page == [run : SeriesRuns, shard : AnyUnit, item : Item]
Request == [at : {"closed", "asked", "reading"}, run : {None} \cup SeriesRuns, shard : AnyUnit,
            st : Status, todo : SUBSET AnyUnit]
Line == [run : {None} \cup SeriesRuns, unit : AnyUnit, text : {"whole", "tail"}]
Notices == {"none", "no logs available", "failed to read"}

ClusterType ==
  /\ parallel \in BOOLEAN
  /\ DOMAIN status \in SUBSET SeriesRuns /\ status \in [DOMAIN status -> Status]
  /\ pods \in SUBSET (SeriesRuns \X AnyUnit)

ViewType == page \in Page /\ gets \in SUBSET Get /\ streams \in SUBSET Stream

CountersType ==
  stopWatch \in Nat /\ retrying \in {None} \cup SeriesRuns /\ moves \in Nat /\ pageFaults \in Nat

LogType ==
  /\ request \in [Readers -> Request]
  /\ got \in [Readers -> SUBSET Line]
  /\ notice \in [Readers -> Notices]

TypeInv == ClusterType /\ ViewType /\ CountersType /\ LogType

(* The log on display was asked for with the route and the shard that are   *)
(* selected now.                                                            *)
ViewCurrent == request["view"].run = page.run /\ request["view"].shard = page.shard

(* A request has received nothing until the run has been read. From then on *)
(* what it has and what it is still to read are the logs of the shards that *)
(* were asked for, by the status the run had, unless a notice is shown.     *)
LogOf(q, lines, note) ==
  /\ q.at = "asked" => lines = {}
  /\ q.at # "reading" => q.todo = {}
  /\ \A line \in lines : line.run = q.run /\ line.unit \in Wanted(q.st, q.shard)
  /\ q.todo \subseteq WithLogs(q.st, q.shard)
  /\ q.at = "reading" /\ note = "none" =>
       {line.unit : line \in lines} \cup q.todo = WithLogs(q.st, q.shard)

LogsInv == \A d \in Readers : LogOf(request[d], got[d], notice[d])

PageInv == TypeInv /\ ViewCurrent /\ LogsInv

----------------------------------------------------------------------------
(* The name of a retry *)

LEMMA Least ==
  ASSUME NEW S \in SUBSET Nat, S # {}
  PROVE  \E x \in S : \A y \in S : x <= y
<1> DEFINE Below == {ss \in Nat \X Nat : ss[1] < ss[2]}
<1>1. IsWellFoundedOn(Below, Nat)
  BY NatLessThanWellFounded, Zenon DEF OpToRel
<1>2. \A x, y \in Nat : y < x => <<y, x>> \in Below
  OBVIOUS
<1> HIDE DEF Below
<1>3. PICK x \in S : \A y \in S : ~ (<<y, x>> \in Below)
  BY <1>1, WFMin
<1>4. ASSUME NEW y \in S PROVE x <= y
  <2>1. x \in Nat /\ y \in Nat /\ ~ (y < x)
    BY <1>2, <1>3
  <2>2. QED
    BY <2>1
<1>5. QED
  BY <1>4

LEMMA Largest ==
  ASSUME NEW v \in Nat, NEW S \in SUBSET (0..v), S # {}
  PROVE  Max(S) \in S /\ \A y \in S : Max(S) >= y
<1> DEFINE T == {t \in 0..v : v - t \in S}
<1>1. T \in SUBSET Nat /\ T # {}
  <2>1. PICK x \in S : TRUE
    OBVIOUS
  <2>2. v - x \in 0..v /\ v - (v - x) = x
    OBVIOUS
  <2>3. v - x \in T
    BY <2>2
  <2>4. \A t \in T : t \in Nat
    OBVIOUS
  <2>5. QED
    BY <2>3, <2>4
<1>2. PICK m \in T : \A y \in T : m <= y
  BY <1>1, Least
<1>3. ASSUME NEW y \in S PROVE v - m >= y
  <2>1. v - y \in 0..v /\ v - (v - y) = y
    OBVIOUS
  <2>2. v - y \in T
    BY <2>1
  <2>3. QED
    BY <2>2, <1>2
<1>4. v - m \in S
  BY <1>2
<1>5. QED
  BY <1>3, <1>4 DEF Max

(* NextName is Max of a finite set of naturals.                             *)
LEMMA NextIsRun ==
  ASSUME ClusterType, NextName <= MaxRuns
  PROVE  NextName \in SeriesRuns
<1> DEFINE S == DOMAIN status \cup {1}
<1>1. MaxRuns \in Nat /\ S \in SUBSET (0..MaxRuns) /\ S # {}
  BY PageAssumption DEF ClusterType, SeriesRuns
<1>2. Max(S) \in S
  BY <1>1, Largest
<1>3. QED
  BY <1>1, <1>2 DEF NextName, SeriesRuns

----------------------------------------------------------------------------
(* Records of the model *)

LEMMA StatusMade ==
  ASSUME NEW phase \in {"None", "Resolving", "Running"} \cup Ended,
         NEW U \in SUBSET AnyUnit, NEW logs \in [U -> LogPlaces]
  PROVE  [phase |-> phase, logs |-> logs] \in Status
<1>1. logs \in UNION {[V -> LogPlaces] : V \in SUBSET AnyUnit}
  OBVIOUS
<1>2. QED
  BY <1>1 DEF Status

LEMMA Fresh == NewStatus \in Status /\ NoItem \in Item /\ All \in AnyUnit
<1>1. {All} \in SUBSET AnyUnit /\ [u \in {All} |-> "none"] \in [{All} -> LogPlaces]
  BY DEF AnyUnit, LogPlaces
<1>2. NewStatus \in Status
  BY <1>1, StatusMade DEF NewStatus
<1>3. QED
  BY <1>1, <1>2 DEF NoItem, Item

LEMMA ToldStreams ==
  ASSUME NEW r, NEW st \in Status, streams \in SUBSET Stream
  PROVE  Told(r, st) \in SUBSET Stream
<1>1. ASSUME NEW s \in streams
      PROVE  [s EXCEPT !.events = Append(@, st)] \in Stream
  <2>1. s \in Stream
    BY <1>1
  <2>2. Append(s.events, st) \in Seq(Status)
    BY <2>1 DEF Stream
  <2>3. QED
    BY <2>1, <2>2 DEF Stream
<1>2. QED
  BY <1>1 DEF Told

LEMMA RequestAsked ==
  ASSUME NEW r \in {None} \cup SeriesRuns, NEW shard \in AnyUnit
  PROVE  /\ Asked(r, shard) \in Request /\ Closed \in Request
         /\ Asked(r, shard).run = r /\ Asked(r, shard).shard = shard
         /\ LogOf(Asked(r, shard), {}, "none") /\ LogOf(Closed, {}, "none")
<1>1. /\ Asked(r, shard) \in Request /\ Closed \in Request
      /\ Asked(r, shard).run = r /\ Asked(r, shard).shard = shard
      /\ Asked(r, shard).at = "asked" /\ Asked(r, shard).todo = {}
      /\ Closed.at = "closed" /\ Closed.todo = {}
  BY Fresh DEF Asked, Closed, Request
<1>2. QED
  BY <1>1 DEF LogOf

LEMMA WantedUnits ==
  ASSUME NEW st \in Status, NEW shard \in AnyUnit
  PROVE  /\ WithLogs(st, shard) \in SUBSET AnyUnit
         /\ WithLogs(st, shard) \subseteq Wanted(st, shard)
         /\ Units(st) \in SUBSET AnyUnit
<1>1. Units(st) \in SUBSET AnyUnit
  BY DEF Status, Units
<1>2. Wanted(st, shard) \in SUBSET AnyUnit
  BY <1>1 DEF Wanted
<1>3. QED
  BY <1>1, <1>2 DEF WithLogs

----------------------------------------------------------------------------
(* What the page asks for *)

(* The log of one reader is asked for anew.                                 *)
LEMMA AsksOne ==
  ASSUME LogType, LogsInv, NEW d \in Readers, NEW r \in SeriesRuns, NEW shard \in AnyUnit,
         request' = [request EXCEPT ![d] = Asked(r, shard)],
         got' = [got EXCEPT ![d] = {}],
         notice' = [notice EXCEPT ![d] = "none"]
  PROVE  /\ LogType' /\ LogsInv'
         /\ request'[d].run = r /\ request'[d].shard = shard
         /\ \A e \in Readers \ {d} : request'[e] = request[e]
<1>1. /\ Asked(r, shard) \in Request /\ LogOf(Asked(r, shard), {}, "none")
      /\ Asked(r, shard).run = r /\ Asked(r, shard).shard = shard
  BY RequestAsked
<1>2. LogType'
  BY <1>1 DEF LogType, Notices
<1>3. /\ request'[d] = Asked(r, shard) /\ got'[d] = {} /\ notice'[d] = "none"
      /\ \A e \in Readers \ {d} :
           request'[e] = request[e] /\ got'[e] = got[e] /\ notice'[e] = notice[e]
  BY DEF LogType
<1>4. LogsInv'
  BY <1>1, <1>3 DEF LogsInv
<1>5. QED
  BY <1>1, <1>2, <1>3, <1>4

(* Whatever turns the page asks for another log, when it has to.            *)
LEMMA Turned ==
  ASSUME PageInv, NEW p \in Page, Turn(p)
  PROVE  page' \in Page /\ LogType' /\ LogsInv' /\ ViewCurrent'
<1>1. page' = p /\ "view" \in Readers
  BY DEF Turn, Readers
<1>2. CASE Key(p) # Key(page)
  <2>1. p.run \in SeriesRuns /\ p.shard \in AnyUnit
    BY DEF Page
  <2>2. Ask(p)
    BY <1>2 DEF Turn
  <2>3. /\ LogType' /\ LogsInv'
        /\ request'["view"].run = p.run /\ request'["view"].shard = p.shard
    BY <1>1, <2>1, <2>2, AsksOne DEF Ask, PageInv, TypeInv
  <2>4. QED
    BY <1>1, <2>3 DEF ViewCurrent
<1>3. CASE Key(p) = Key(page)
  <2>1. UNCHANGED logVars
    BY <1>3 DEF Turn
  <2>2. p.run = page.run /\ p.shard = page.shard
    BY <1>3 DEF Key
  <2>3. LogType' /\ LogsInv'
    BY <2>1 DEF logVars, LogType, LogsInv, PageInv, TypeInv
  <2>4. ViewCurrent'
    BY <1>1, <2>1, <2>2 DEF logVars, ViewCurrent, PageInv
  <2>5. QED
    BY <1>1, <2>3, <2>4
<1>4. QED
  BY <1>2, <1>3

(* A step that leaves the page and its requests alone.                      *)
LEMMA LogsAlone ==
  ASSUME PageInv, UNCHANGED <<page, logVars>>
  PROVE  page' \in Page /\ LogType' /\ LogsInv' /\ ViewCurrent'
BY DEF PageInv, TypeInv, ViewType, logVars, LogType, LogsInv, ViewCurrent

----------------------------------------------------------------------------
(* The operator and the cluster *)

(* A report changes the status of one run, and tells the watches.           *)
LEMMA Reported ==
  ASSUME PageInv, NEW r \in DOMAIN status, NEW st \in Status, Report(r, st),
         pods' \in SUBSET (SeriesRuns \X AnyUnit), pageFaults' \in Nat
  PROVE  PageInv'
<1>1. ClusterType'
  BY DEF Report, ClusterType, PageInv, TypeInv
<1>2. streams' \in SUBSET Stream
  BY ToldStreams DEF Report, PageInv, TypeInv, ViewType
<1>3. page' \in Page /\ LogType' /\ LogsInv' /\ ViewCurrent'
  BY LogsAlone DEF Report
<1>4. CountersType' /\ gets' \in SUBSET Get
  BY DEF Report, CountersType, PageInv, TypeInv, ViewType
<1>5. QED
  BY <1>1, <1>2, <1>3, <1>4 DEF PageInv, TypeInv, ViewType

LEMMA StatusOf ==
  ASSUME ClusterType, NEW r \in DOMAIN status
  PROVE  /\ r \in SeriesRuns /\ status[r] \in Status
         /\ Units(status[r]) \in SUBSET AnyUnit
         /\ status[r].logs \in [Units(status[r]) -> LogPlaces]
<1>1. r \in SeriesRuns /\ status[r] \in Status
  BY DEF ClusterType
<1>2. PICK U \in SUBSET AnyUnit : status[r].logs \in [U -> LogPlaces]
  BY <1>1 DEF Status
<1>3. QED
  BY <1>1, <1>2 DEF Units

LEMMA OperatorStep == PageInv /\ Operator => PageInv'
<1> SUFFICES ASSUME PageInv, NEW r \in DOMAIN status,
                    Resolve(r) \/ Start(r) \/ Poll(r) \/ Abandon(r)
             PROVE  PageInv'
  BY DEF Operator
<1>1. /\ r \in SeriesRuns /\ status[r] \in Status
      /\ Units(status[r]) \in SUBSET AnyUnit
      /\ status[r].logs \in [Units(status[r]) -> LogPlaces]
  BY StatusOf DEF PageInv, TypeInv
<1>2. pods \in SUBSET (SeriesRuns \X AnyUnit) /\ pageFaults \in Nat
  BY DEF PageInv, TypeInv, ClusterType, CountersType
<1>3. \A phase \in {"None", "Resolving", "Running"} \cup Ended :
        [status[r] EXCEPT !.phase = phase] \in Status
  BY <1>1 DEF Status
<1>4. CASE Resolve(r)
  BY <1>2, <1>3, <1>4, Reported DEF Resolve
<1>5. CASE Start(r)
  <2> DEFINE U == IF parallel THEN Shards ELSE {All}
             st == [status[r] EXCEPT !.phase = "Running", !.logs = [u \in U |-> "none"]]
  <2>1. U \in SUBSET AnyUnit /\ [u \in U |-> "none"] \in [U -> LogPlaces]
    BY DEF AnyUnit, LogPlaces
  <2>2. [u \in U |-> "none"] \in UNION {[V -> LogPlaces] : V \in SUBSET AnyUnit}
    BY <2>1
  <2>3. st \in Status
    BY <1>1, <2>2 DEF Status
  <2>4. QED
    BY <1>2, <1>5, <2>3, Reported DEF Start
<1>6. CASE Poll(r)
  <2>1. PICK done \in (SUBSET Active(status[r])) \ {{}}, place \in Places :
          /\ IF place = "s3" THEN UNCHANGED pageFaults ELSE Fault
          /\ pods' = IF place = "s3" THEN pods ELSE pods \cup ({r} \X done)
          /\ Report(r, [phase |-> IF done = Active(status[r]) THEN "Reported" ELSE "Running",
                        logs |-> [u \in Units(status[r]) |->
                                    IF u \in done THEN place ELSE status[r].logs[u]]])
    BY <1>6 DEF Poll
  <2> DEFINE logs == [u \in Units(status[r]) |->
                        IF u \in done THEN place ELSE status[r].logs[u]]
             phase == IF done = Active(status[r]) THEN "Reported" ELSE "Running"
  <2>2. logs \in [Units(status[r]) -> LogPlaces]
    BY <1>1 DEF LogPlaces
  <2>3. phase \in {"None", "Resolving", "Running"} \cup Ended
    BY DEF Ended
  <2>4. [phase |-> phase, logs |-> logs] \in Status
    BY <1>1, <2>2, <2>3, StatusMade
  <2>5. done \in SUBSET AnyUnit
    BY <1>1 DEF Active
  <2>6. pods' \in SUBSET (SeriesRuns \X AnyUnit)
    BY <1>1, <1>2, <2>1, <2>5
  <2>7. pageFaults' \in Nat
    BY <1>2, <2>1 DEF Fault
  <2>8. QED
    BY <2>1, <2>4, <2>6, <2>7, Reported
<1>7. CASE Abandon(r)
  <2>1. [status[r] EXCEPT !.phase = "Abandoned"] \in Status
    BY <1>3 DEF Ended
  <2>2. QED
    BY <1>2, <1>7, <2>1, Reported DEF Abandon
<1>8. QED
  BY <1>4, <1>5, <1>6, <1>7

LEMMA CollectStep == PageInv /\ CollectPod => PageInv'
<1> SUFFICES ASSUME PageInv, CollectPod PROVE PageInv'
  OBVIOUS
<1>1. page' \in Page /\ LogType' /\ LogsInv' /\ ViewCurrent'
  BY LogsAlone DEF CollectPod
<1>2. ClusterType'
  BY DEF CollectPod, ClusterType, PageInv, TypeInv
<1>3. ViewType' /\ CountersType'
  BY <1>1 DEF CollectPod, watchVars, ViewType, CountersType, PageInv, TypeInv
<1>4. QED
  BY <1>1, <1>2, <1>3 DEF PageInv, TypeInv

LEMMA DeleteStep ==
  ASSUME PageInv, NEW r \in DOMAIN status, RemoveRun(r)
  PROVE  PageInv'
<1>1. page' \in Page /\ LogType' /\ LogsInv' /\ ViewCurrent'
  BY LogsAlone DEF RemoveRun
<1>2. ClusterType'
  <2>1. status' = [q \in DOMAIN status \ {r} |-> status[q]]
    BY DEF RemoveRun
  <2>2. DOMAIN status' \in SUBSET SeriesRuns /\ status' \in [DOMAIN status' -> Status]
    BY <2>1 DEF ClusterType, PageInv, TypeInv
  <2>3. QED
    BY <2>2 DEF RemoveRun, ClusterType, PageInv, TypeInv
<1>3. streams' \in SUBSET Stream
  <2>1. status[r] \in Status
    BY StatusOf DEF PageInv, TypeInv
  <2>2. QED
    BY <2>1, ToldStreams DEF RemoveRun, PageInv, TypeInv, ViewType
<1>4. CountersType' /\ gets' \in SUBSET Get
  BY DEF RemoveRun, Move, CountersType, PageInv, TypeInv, ViewType
<1>5. QED
  BY <1>1, <1>2, <1>3, <1>4 DEF PageInv, TypeInv, ViewType

----------------------------------------------------------------------------
(* The page *)

(* The page goes to a run, with the watches that are open.                  *)
LEMMA Opened ==
  ASSUME PageInv, NEW r \in SeriesRuns, NEW open \in SUBSET Stream, Open(r, open), moves' \in Nat
  PROVE  ViewType' /\ LogType' /\ LogsInv' /\ ViewCurrent' /\ stopWatch' \in Nat
<1>1. [page EXCEPT !.run = r, !.shard = All] \in Page
  BY Fresh DEF PageInv, TypeInv, ViewType, Page
<1>2. page' \in Page /\ LogType' /\ LogsInv' /\ ViewCurrent'
  BY <1>1, Turned DEF Open
<1>3. [id |-> moves', run |-> r] \in Get
  BY DEF Get
<1>4. gets' \in SUBSET Get /\ streams' \in SUBSET Stream
  BY <1>3 DEF Open, PageInv, TypeInv, ViewType
<1>5. stopWatch' \in Nat
  BY DEF Open, PageInv, TypeInv, CountersType
<1>6. QED
  BY <1>2, <1>4, <1>5 DEF ViewType

LEMMA NavigateStep == PageInv /\ Navigate => PageInv'
<1> SUFFICES ASSUME PageInv, Navigate PROVE PageInv'
  OBVIOUS
<1>1. PICK r \in DOMAIN status : Open(r, streams)
  BY DEF Navigate
<1>2. r \in SeriesRuns
  BY StatusOf DEF PageInv, TypeInv
<1>3. streams \in SUBSET Stream /\ moves' \in Nat
  BY DEF Navigate, Move, PageInv, TypeInv, ViewType, CountersType
<1>4. ViewType' /\ LogType' /\ LogsInv' /\ ViewCurrent' /\ stopWatch' \in Nat
  BY <1>1, <1>2, <1>3, Opened
<1>5. ClusterType' /\ CountersType'
  BY <1>3, <1>4 DEF Navigate, clusterVars, ClusterType, CountersType, PageInv, TypeInv
<1>6. QED
  BY <1>4, <1>5 DEF PageInv, TypeInv

LEMMA SelectStep == PageInv /\ SelectShard => PageInv'
<1> SUFFICES ASSUME PageInv, SelectShard PROVE PageInv'
  OBVIOUS
<1>1. PICK u \in (Units(page.item.st) \cup {All}) \ {page.shard} :
        Turn([page EXCEPT !.shard = u])
  BY DEF SelectShard
<1>2. page \in Page
  BY DEF PageInv, TypeInv, ViewType
<1>3. page.item.st \in Status /\ page.shard \in AnyUnit
  BY <1>2 DEF Page, Item
<1>4. u \in AnyUnit
  BY <1>3, Fresh, WantedUnits
<1>5. [page EXCEPT !.shard = u] \in Page
  BY <1>2, <1>4 DEF Page
<1>6. page' \in Page /\ LogType' /\ LogsInv' /\ ViewCurrent'
  BY <1>1, <1>5, Turned
<1>7. ClusterType' /\ ViewType' /\ CountersType'
  BY <1>6 DEF SelectShard, Move, clusterVars, watchVars, ClusterType, ViewType,
              CountersType, PageInv, TypeInv
<1>8. QED
  BY <1>6, <1>7 DEF PageInv, TypeInv

(* Another run is put on display.                                           *)
LEMMA Shown ==
  ASSUME PageInv, NEW r \in SeriesRuns, NEW st \in Status, NEW open \in SUBSET Stream,
         Show(r, st, open)
  PROVE  /\ page' \in Page /\ LogType' /\ LogsInv' /\ ViewCurrent'
         /\ streams' \in SUBSET Stream
<1>1. [run |-> r, st |-> st] \in Item
  BY DEF Item
<1>2. [page EXCEPT !.item = [run |-> r, st |-> st]] \in Page
  BY <1>1 DEF Page, PageInv, TypeInv, ViewType
<1>3. page' \in Page /\ LogType' /\ LogsInv' /\ ViewCurrent'
  BY <1>2, Turned DEF Show
<1>4. ASSUME NEW s \in open PROVE [s EXCEPT !.followed = @ /\ s.run = r] \in Stream
  BY <1>4 DEF Stream
<1>5. streams' \in SUBSET Stream
  BY <1>4 DEF Show
<1>6. QED
  BY <1>3, <1>5

LEMMA TakeStep ==
  ASSUME PageInv, NEW get \in gets, TakeRun(get)
  PROVE  PageInv'
<1>1. get \in Get /\ streams \in SUBSET Stream
  BY DEF PageInv, TypeInv, ViewType
<1>2. CASE get.run \in DOMAIN status
  <2> DEFINE s == [id |-> get.id, run |-> get.run, open |-> FALSE, followed |-> FALSE,
                   events |-> <<>>]
  <2>1. get.run \in SeriesRuns /\ status[get.run] \in Status
    BY <1>2, StatusOf DEF PageInv, TypeInv
  <2>2. s \in Stream
    BY <1>1, EmptySeq DEF Get, Stream
  <2>3. Show(get.run, status[get.run], streams \cup {s}) /\ stopWatch' = get.id
    BY <1>2 DEF TakeRun
  <2>4. /\ page' \in Page /\ LogType' /\ LogsInv' /\ ViewCurrent'
        /\ streams' \in SUBSET Stream
    BY <1>1, <2>1, <2>2, <2>3, Shown
  <2>5. stopWatch' \in Nat
    BY <1>1, <2>3 DEF Get
  <2>6. ClusterType' /\ CountersType' /\ gets' \in SUBSET Get
    BY <2>5 DEF TakeRun, clusterVars, ClusterType, CountersType, ViewType, PageInv, TypeInv
  <2>7. QED
    BY <2>4, <2>6 DEF PageInv, TypeInv, ViewType
<1>3. CASE get.run \notin DOMAIN status
  <2>1. UNCHANGED <<page, logVars, streams, stopWatch>>
    BY <1>3 DEF TakeRun
  <2>2. page' \in Page /\ LogType' /\ LogsInv' /\ ViewCurrent'
    BY <2>1, LogsAlone
  <2>3. ClusterType' /\ CountersType' /\ ViewType'
    BY <2>1 DEF TakeRun, clusterVars, ClusterType, CountersType, ViewType, PageInv, TypeInv
  <2>4. QED
    BY <2>2, <2>3 DEF PageInv, TypeInv
<1>4. QED
  BY <1>2, <1>3

LEMMA SubscribeStep ==
  ASSUME PageInv, NEW s \in streams, Subscribe(s)
  PROVE  PageInv'
<1>1. page' \in Page /\ LogType' /\ LogsInv' /\ ViewCurrent'
  BY LogsAlone DEF Subscribe
<1>2. s \in Stream /\ streams \in SUBSET Stream
  BY DEF PageInv, TypeInv, ViewType
<1> DEFINE seen == page.item.run = s.run /\ s.run \in DOMAIN status
                   /\ status[s.run].phase \notin Ended
<1>3. seen \in BOOLEAN
  OBVIOUS
<1> HIDE DEF seen
<1>4. [s EXCEPT !.open = TRUE, !.followed = seen] \in Stream
  BY <1>2, <1>3 DEF Stream
<1>5. streams' = (streams \ {s}) \cup {[s EXCEPT !.open = TRUE, !.followed = seen]}
  BY DEF Subscribe, seen
<1>6. streams' \in SUBSET Stream
  BY <1>2, <1>4, <1>5
<1>7. ClusterType' /\ CountersType' /\ gets' \in SUBSET Get
  BY DEF Subscribe, clusterVars, ClusterType, CountersType, ViewType, PageInv, TypeInv
<1>8. QED
  BY <1>1, <1>6, <1>7 DEF PageInv, TypeInv, ViewType

LEMMA DeliverStep ==
  ASSUME PageInv, NEW s \in streams, Deliver(s)
  PROVE  PageInv'
<1>1. s \in Stream /\ streams \in SUBSET Stream
  BY DEF PageInv, TypeInv, ViewType
<1>2. s.run \in SeriesRuns /\ s.events \in Seq(Status) /\ s.events # <<>>
  BY <1>1 DEF Deliver, Stream
<1>3. Head(s.events) \in Status /\ Tail(s.events) \in Seq(Status)
  BY <1>2
<1>4. [s EXCEPT !.events = Tail(@)] \in Stream
  BY <1>1, <1>3 DEF Stream
<1>5. (streams \ {s}) \cup {[s EXCEPT !.events = Tail(@)]} \in SUBSET Stream
  BY <1>1, <1>4
<1>6. /\ page' \in Page /\ LogType' /\ LogsInv' /\ ViewCurrent'
      /\ streams' \in SUBSET Stream
  BY <1>2, <1>3, <1>5, Shown DEF Deliver
<1>7. ClusterType' /\ CountersType' /\ gets' \in SUBSET Get
  BY DEF Deliver, clusterVars, ClusterType, CountersType, ViewType, PageInv, TypeInv
<1>8. QED
  BY <1>6, <1>7 DEF PageInv, TypeInv, ViewType

----------------------------------------------------------------------------
(* The log routes *)

LEMMA DownloadStep == PageInv /\ AskDownload => PageInv'
<1> SUFFICES ASSUME PageInv, AskDownload PROVE PageInv'
  OBVIOUS
<1>1. page.run \in SeriesRuns /\ page.shard \in AnyUnit /\ "download" \in Readers
  BY DEF PageInv, TypeInv, ViewType, Page, Readers
<1>2. /\ LogType' /\ LogsInv'
      /\ \A e \in Readers \ {"download"} : request'[e] = request[e]
  BY <1>1, AsksOne DEF AskDownload, PageInv, TypeInv
<1>3. "view" \in Readers \ {"download"}
  BY DEF Readers
<1>4. request'["view"] = request["view"]
  BY <1>2, <1>3
<1>5. ViewCurrent'
  BY <1>4 DEF AskDownload, ViewCurrent, PageInv
<1>6. ClusterType' /\ ViewType' /\ CountersType'
  BY DEF AskDownload, Move, clusterVars, watchVars, ClusterType, ViewType, CountersType,
         PageInv, TypeInv
<1>7. QED
  BY <1>2, <1>5, <1>6 DEF PageInv, TypeInv

(* A request moves on for one reader, and names the same run and shard.     *)
LEMMA MovesOn ==
  ASSUME PageInv, NEW d \in Readers, NEW q \in Request, NEW lines \in SUBSET Line,
         NEW note \in Notices,
         request' = [request EXCEPT ![d] = q],
         got' = [got EXCEPT ![d] = lines],
         notice' = [notice EXCEPT ![d] = note],
         q.run = request[d].run, q.shard = request[d].shard, LogOf(q, lines, note),
         UNCHANGED <<clusterVars, page, watchVars, retrying, moves>>, pageFaults' \in Nat
  PROVE  PageInv'
<1>1. LogType'
  BY DEF LogType, PageInv, TypeInv
<1>2. /\ request'[d] = q /\ got'[d] = lines /\ notice'[d] = note
      /\ \A e \in Readers \ {d} :
           request'[e] = request[e] /\ got'[e] = got[e] /\ notice'[e] = notice[e]
  BY DEF LogType, PageInv, TypeInv
<1>3. LogsInv'
  BY <1>2 DEF LogsInv, PageInv
<1>4. request'["view"].run = request["view"].run /\ request'["view"].shard = request["view"].shard
  BY <1>2 DEF Readers
<1>5. ViewCurrent'
  BY <1>4 DEF ViewCurrent, PageInv
<1>6. ClusterType' /\ ViewType' /\ CountersType'
  BY DEF clusterVars, watchVars, ClusterType, ViewType, CountersType, PageInv, TypeInv
<1>7. QED
  BY <1>1, <1>3, <1>5, <1>6 DEF PageInv, TypeInv

LEMMA LogFacts ==
  ASSUME PageInv, NEW d \in Readers
  PROVE  /\ request[d] \in Request /\ got[d] \in SUBSET Line /\ notice[d] \in Notices
         /\ got = [got EXCEPT ![d] = got[d]] /\ notice = [notice EXCEPT ![d] = notice[d]]
         /\ LogOf(request[d], got[d], notice[d]) /\ pageFaults \in Nat
BY DEF PageInv, TypeInv, LogType, LogsInv, CountersType

LEMMA RouteStep ==
  ASSUME PageInv, NEW d \in Readers, Route(d)
  PROVE  PageInv'
<1> DEFINE r == request[d].run
           logs == WithLogs(status[r], request[d].shard)
<1>1. /\ request[d] \in Request /\ got[d] \in SUBSET Line /\ notice[d] \in Notices
      /\ got = [got EXCEPT ![d] = got[d]] /\ notice = [notice EXCEPT ![d] = notice[d]]
      /\ LogOf(request[d], got[d], notice[d]) /\ pageFaults \in Nat
  BY LogFacts
<1>2. request[d].at = "asked" /\ got[d] = {} /\ request[d].todo = {}
  BY <1>1 DEF Route, LogOf
<1>3. CASE r \in DOMAIN status /\ logs # {}
  <2> DEFINE q == [request[d] EXCEPT !.at = "reading", !.st = status[r], !.todo = logs]
  <2>1. status[r] \in Status /\ request[d].shard \in AnyUnit
    BY <1>1, <1>3, StatusOf DEF PageInv, TypeInv, Request
  <2>2. logs \in SUBSET AnyUnit
    BY <2>1, WantedUnits
  <2>3. request' = [request EXCEPT ![d] = q] /\ notice' = notice
    BY <1>1, <1>3 DEF Route, Request
  <2>4. /\ q \in Request /\ q.run = r /\ q.shard = request[d].shard
        /\ q.at = "reading" /\ q.st = status[r] /\ q.todo = logs
    BY <1>1, <2>1, <2>2 DEF Request
  <2>5. LogOf(q, got[d], notice[d])
    BY <1>2, <2>4 DEF LogOf
  <2> HIDE DEF q
  <2>6. QED
    BY <1>1, <2>3, <2>4, <2>5, MovesOn DEF Route
<1>4. CASE ~ (r \in DOMAIN status /\ logs # {})
  <2> DEFINE q == [request[d] EXCEPT !.at = "closed"]
  <2>1. request' = [request EXCEPT ![d] = q]
        /\ notice' = [notice EXCEPT ![d] = "no logs available"]
    BY <1>1, <1>4 DEF Route, Request
  <2>2. /\ q \in Request /\ q.run = r /\ q.shard = request[d].shard
        /\ q.at = "closed" /\ q.todo = {}
    BY <1>1, <1>2 DEF Request
  <2>3. LogOf(q, got[d], "no logs available")
    BY <1>2, <2>2 DEF LogOf
  <2> HIDE DEF q
  <2>4. "no logs available" \in Notices
    BY DEF Notices
  <2>5. QED
    BY <1>1, <2>1, <2>2, <2>3, <2>4, MovesOn DEF Route
<1>5. QED
  BY <1>3, <1>4

(* One log is read, or a notice takes its place.                            *)
LEMMA ReadOne ==
  ASSUME NEW q \in Request, NEW p \in Request, NEW lines \in SUBSET Line, NEW note \in Notices,
         NEW u \in q.todo, NEW line \in Line, line.run = q.run, line.unit = u,
         LogOf(q, lines, note), p = [q EXCEPT !.todo = @ \ {u}]
  PROVE  LogOf(p, lines \cup {line}, note) /\ LogOf(p, lines, "failed to read")
<1>1. /\ p.run = q.run /\ p.shard = q.shard /\ p.st = q.st /\ p.at = q.at
      /\ p.todo = q.todo \ {u}
  BY DEF Request
<1>2. q.st \in Status /\ q.shard \in AnyUnit
  BY DEF Request
<1>3. q.at = "reading" /\ u \in WithLogs(q.st, q.shard) /\ u \in Wanted(q.st, q.shard)
  BY <1>2, WantedUnits DEF LogOf
<1>4. \A l \in lines \cup {line} : l.run = p.run /\ l.unit \in Wanted(p.st, p.shard)
  BY <1>1, <1>3 DEF LogOf
<1>5. p.todo \subseteq WithLogs(p.st, p.shard)
  BY <1>1 DEF LogOf
<1>6. ASSUME note = "none"
      PROVE  {l.unit : l \in lines \cup {line}} \cup p.todo = WithLogs(p.st, p.shard)
  <2>1. {l.unit : l \in lines \cup {line}} = {l.unit : l \in lines} \cup {u}
    OBVIOUS
  <2>2. {l.unit : l \in lines} \cup q.todo = WithLogs(q.st, q.shard)
    BY <1>3, <1>6 DEF LogOf
  <2>3. QED
    BY <1>1, <2>1, <2>2
<1>7. p.at = "reading"
  BY <1>1, <1>3
<1>8. LogOf(p, lines \cup {line}, note)
  BY <1>4, <1>5, <1>6, <1>7 DEF LogOf
<1>9. LogOf(p, lines, "failed to read")
  BY <1>4, <1>5, <1>7 DEF LogOf
<1>10. QED
  BY <1>8, <1>9

LEMMA ReadStep ==
  ASSUME PageInv, NEW d \in Readers, NEW u \in request[d].todo, Read(d, u)
  PROVE  PageInv'
<1> DEFINE r == request[d].run
           archived == request[d].st.logs[u] = "s3"
           text == IF archived \/ d = "download" THEN "whole" ELSE "tail"
           line == [run |-> r, unit |-> u, text |-> text]
           p == [request[d] EXCEPT !.todo = @ \ {u}]
<1>1. /\ request[d] \in Request /\ got[d] \in SUBSET Line /\ notice[d] \in Notices
      /\ got = [got EXCEPT ![d] = got[d]] /\ notice = [notice EXCEPT ![d] = notice[d]]
      /\ LogOf(request[d], got[d], notice[d]) /\ pageFaults \in Nat
  BY LogFacts
<1>2. text \in {"whole", "tail"}
  OBVIOUS
<1> HIDE DEF text
<1>3. line \in Line /\ line.run = r /\ line.unit = u
  BY <1>1, <1>2 DEF Line, Request
<1>4. p \in Request /\ p.run = r /\ p.shard = request[d].shard
  BY <1>1 DEF Request
<1>5. LogOf(p, got[d] \cup {line}, notice[d]) /\ LogOf(p, got[d], "failed to read")
  <2>1. p = [request[d] EXCEPT !.todo = @ \ {u}]
    OBVIOUS
  <2> HIDE DEF p, line
  <2>2. QED
    BY <1>1, <1>3, <1>4, <2>1, ReadOne
<1>6. request' = [request EXCEPT ![d] = p]
  BY DEF Read
<1>7. pageFaults' \in Nat
  <2>1. UNCHANGED pageFaults \/ Fault
    BY Zenon DEF Read
  <2>2. QED
    BY <1>1, <2>1 DEF Fault
<1>8. \/ got' = [got EXCEPT ![d] = got[d] \cup {line}] /\ notice' = notice
      \/ got' = got /\ notice' = [notice EXCEPT ![d] = "failed to read"]
  BY DEF Read, text
<1>9. UNCHANGED <<clusterVars, page, watchVars, retrying, moves>>
  BY DEF Read
<1> HIDE DEF p, line
<1>10. CASE got' = [got EXCEPT ![d] = got[d] \cup {line}] /\ notice' = notice
  <2>1. got[d] \cup {line} \in SUBSET Line
    BY <1>1, <1>3
  <2>2. QED
    BY <1>1, <1>4, <1>5, <1>6, <1>7, <1>9, <1>10, <2>1, MovesOn
<1>11. CASE got' = got /\ notice' = [notice EXCEPT ![d] = "failed to read"]
  <2>1. "failed to read" \in Notices
    BY DEF Notices
  <2>2. QED
    BY <1>1, <1>4, <1>5, <1>6, <1>7, <1>9, <1>11, <2>1, MovesOn
<1>12. QED
  BY <1>8, <1>10, <1>11

----------------------------------------------------------------------------
(* Retries *)

LEMMA RetryStep == PageInv /\ Retry => PageInv'
<1> SUFFICES ASSUME PageInv, Retry PROVE PageInv'
  OBVIOUS
<1>1. retrying' \in SeriesRuns
  BY NextIsRun DEF Retry, PageInv, TypeInv
<1>2. page' \in Page /\ LogType' /\ LogsInv' /\ ViewCurrent'
  BY LogsAlone DEF Retry
<1>3. ClusterType' /\ ViewType' /\ CountersType'
  BY <1>1 DEF Retry, Move, clusterVars, watchVars, ClusterType, ViewType, CountersType,
              PageInv, TypeInv
<1>4. QED
  BY <1>2, <1>3 DEF PageInv, TypeInv

LEMMA StoredType ==
  ASSUME ClusterType, NEW r \in SeriesRuns, Stored(r), UNCHANGED <<parallel, pods>>
  PROVE  ClusterType'
<1>1. status' = [q \in DOMAIN status \cup {r} |-> IF q = r THEN NewStatus ELSE status[q]]
  BY DEF Stored
<1>2. DOMAIN status' \in SUBSET SeriesRuns /\ status' \in [DOMAIN status' -> Status]
  BY <1>1, Fresh DEF ClusterType
<1>3. QED
  BY <1>2 DEF ClusterType

LEMMA CreateStep == PageInv /\ CreateRetry => PageInv'
<1> SUFFICES ASSUME PageInv, CreateRetry PROVE PageInv'
  OBVIOUS
<1>1. /\ retrying \in SeriesRuns /\ retrying' = None /\ moves' \in Nat /\ pageFaults' \in Nat
      /\ UNCHANGED <<parallel, pods>>
  BY DEF CreateRetry, PageInv, TypeInv, CountersType
<1>2. streams \in SUBSET Stream /\ Told(retrying, NewStatus) \in SUBSET Stream
  BY ToldStreams, Fresh DEF PageInv, TypeInv, ViewType
<1>3. CASE retrying \in DOMAIN status
  <2>1. UNCHANGED <<status, page, watchVars, logVars>>
    BY <1>3 DEF CreateRetry
  <2>2. page' \in Page /\ LogType' /\ LogsInv' /\ ViewCurrent'
    BY <2>1, LogsAlone
  <2>3. ClusterType' /\ ViewType' /\ CountersType'
    BY <1>1, <2>1 DEF watchVars, ClusterType, ViewType, CountersType, PageInv, TypeInv
  <2>4. QED
    BY <2>2, <2>3 DEF PageInv, TypeInv
<1>4. CASE retrying \notin DOMAIN status /\ retrying # page.run
  <2>1. Stored(retrying) /\ Open(retrying, Told(retrying, NewStatus))
    BY <1>4 DEF CreateRetry
  <2>2. ViewType' /\ LogType' /\ LogsInv' /\ ViewCurrent' /\ stopWatch' \in Nat
    BY <1>1, <1>2, <2>1, Opened
  <2>3. ClusterType'
    BY <1>1, <2>1, StoredType DEF PageInv, TypeInv
  <2>4. CountersType'
    BY <1>1, <2>2 DEF CountersType
  <2>5. QED
    BY <2>2, <2>3, <2>4 DEF PageInv, TypeInv
<1>5. CASE retrying \notin DOMAIN status /\ retrying = page.run
  <2>1. /\ Stored(retrying) /\ streams' = Told(retrying, NewStatus)
        /\ UNCHANGED <<page, gets, stopWatch, logVars>>
    BY <1>5 DEF CreateRetry
  <2>2. page' \in Page /\ LogType' /\ LogsInv' /\ ViewCurrent'
    BY <2>1, LogsAlone
  <2>3. ClusterType'
    BY <1>1, <2>1, StoredType DEF PageInv, TypeInv
  <2>4. ViewType' /\ CountersType'
    BY <1>1, <1>2, <2>1, <2>2 DEF ViewType, CountersType, PageInv, TypeInv
  <2>5. QED
    BY <2>2, <2>3, <2>4 DEF PageInv, TypeInv
<1>6. QED
  BY <1>3, <1>4, <1>5

LEMMA OtherStep == PageInv /\ OtherRetry => PageInv'
<1> SUFFICES ASSUME PageInv, OtherRetry PROVE PageInv'
  OBVIOUS
<1>1. NextName \in SeriesRuns /\ Stored(NextName) /\ UNCHANGED <<parallel, pods>>
  BY NextIsRun DEF OtherRetry, PageInv, TypeInv
<1> DEFINE n == NextName
<1>2. ClusterType'
  <2> HIDE DEF n
  <2>1. n \in SeriesRuns /\ Stored(n) /\ UNCHANGED <<parallel, pods>>
    BY <1>1 DEF n
  <2>2. QED
    BY <2>1, StoredType DEF PageInv, TypeInv
<1>3. streams' \in SUBSET Stream
  BY ToldStreams, Fresh DEF OtherRetry, PageInv, TypeInv, ViewType
<1>4. page' \in Page /\ LogType' /\ LogsInv' /\ ViewCurrent'
  BY LogsAlone DEF OtherRetry
<1>5. CountersType' /\ gets' \in SUBSET Get
  BY DEF OtherRetry, Move, CountersType, ViewType, PageInv, TypeInv
<1>6. QED
  BY <1>2, <1>3, <1>4, <1>5 DEF PageInv, TypeInv, ViewType

----------------------------------------------------------------------------
(* The invariant *)

LEMMA InitPage == PageInit => PageInv
<1> SUFFICES ASSUME PageInit PROVE PageInv
  OBVIOUS
<1>1. 1 \in SeriesRuns /\ Readers = {"view", "download"}
  BY PageAssumption DEF SeriesRuns, Readers
<1>2. /\ Asked(1, All) \in Request /\ Closed \in Request
      /\ Asked(1, All).run = 1 /\ Asked(1, All).shard = All
      /\ LogOf(Asked(1, All), {}, "none") /\ LogOf(Closed, {}, "none")
  BY <1>1, Fresh, RequestAsked
<1>3. /\ request["view"] = Asked(1, All) /\ request["download"] = Closed
      /\ request \in [Readers -> Request]
  BY <1>1, <1>2 DEF PageInit
<1>4. ClusterType
  <2>1. status = [q \in {1} |-> NewStatus]
    BY DEF PageInit
  <2>2. DOMAIN status \in SUBSET SeriesRuns /\ status \in [DOMAIN status -> Status]
    BY <1>1, <2>1, Fresh
  <2>3. QED
    BY <2>2 DEF PageInit, ClusterType
<1>5. ViewType
  BY <1>1, Fresh DEF PageInit, ViewType, Page, Get
<1>6. CountersType
  BY DEF PageInit, CountersType, None
<1>7. LogType
  BY <1>3 DEF PageInit, LogType, Notices
<1>8. LogsInv
  BY <1>1, <1>2, <1>3 DEF PageInit, LogsInv
<1>9. ViewCurrent
  BY <1>2, <1>3 DEF PageInit, ViewCurrent
<1>10. QED
  BY <1>4, <1>5, <1>6, <1>7, <1>8, <1>9 DEF PageInv, TypeInv

LEMMA StutterStep == PageInv /\ UNCHANGED pageVars => PageInv'
<1> SUFFICES ASSUME PageInv, UNCHANGED pageVars PROVE PageInv'
  OBVIOUS
<1>1. page' \in Page /\ LogType' /\ LogsInv' /\ ViewCurrent'
  BY LogsAlone DEF pageVars
<1>2. ClusterType' /\ ViewType' /\ CountersType'
  BY DEF pageVars, clusterVars, watchVars, ClusterType, ViewType, CountersType, PageInv, TypeInv
<1>3. QED
  BY <1>1, <1>2 DEF PageInv, TypeInv

LEMMA NextPage == PageInv /\ [PageNext]_pageVars => PageInv'
<1> SUFFICES ASSUME PageInv, [PageNext]_pageVars PROVE PageInv'
  OBVIOUS
<1>1. CASE \E r \in DOMAIN status : RemoveRun(r)
  BY <1>1, DeleteStep
<1>2. CASE Arrivals
  BY <1>2, TakeStep, SubscribeStep, DeliverStep DEF Arrivals
<1>3. CASE Logs
  BY <1>3, RouteStep, ReadStep DEF Logs
<1>4. QED
  BY <1>1, <1>2, <1>3, OperatorStep, CollectStep, NavigateStep, SelectStep, DownloadStep,
     RetryStep, CreateStep, OtherStep, StutterStep DEF PageNext

(* What the page has asked for, received and is still to read agree at all  *)
(* times.                                                                   *)
THEOREM PageInvariant == PageSpec => []PageInv
BY InitPage, NextPage, PTL DEF PageSpec

(* Every variable has its type, whatever the order of answers and events.   *)
THEOREM PageTypeCorrect == PageSpec => []TypeInv
BY PageInvariant, PTL DEF PageInv

(* The log on display, and the file downloaded, is of the run and shard     *)
(* that were asked for, and is whole unless a notice says that it is not:   *)
(* RunDetailView resets logLines with every new key, and selectRunLogs      *)
(* reads only what the status of the run, as it was found, names.           *)
THEOREM LogsRight == PageSpec => []LogIsOfRequest
<1>1. ASSUME PageInv PROVE LogIsOfRequest
  <2>1. ASSUME NEW d \in Readers
        PROVE  LET q == request[d]
               IN /\ \A line \in got[d] : line.run = q.run /\ line.unit \in Wanted(q.st, q.shard)
                  /\ q.at = "reading" /\ q.todo = {} /\ notice[d] = "none" =>
                       {line.unit : line \in got[d]} = WithLogs(q.st, q.shard)
    <3>1. LogOf(request[d], got[d], notice[d])
      BY <1>1 DEF PageInv, LogsInv
    <3>2. QED
      BY <3>1 DEF LogOf
  <2>2. QED
    BY <1>1, <2>1 DEF LogIsOfRequest, ViewCurrent, PageInv
<1>2. QED
  BY <1>1, PageInvariant, PTL
=============================================================================
