------------------------------- MODULE RunPage -------------------------------
(***************************************************************************)
(* The page of a run (packages/ui/src/views/runs/RunDetailView.vue) and    *)
(* the way its log takes there: the Job's pod, the archive in S3, the      *)
(* status the operator writes once a Job has ended (pollJobToCompletion),  *)
(* and the routes of packages/api/src/modules/ansibleruns.ts that answer   *)
(* a request for the log out of the status they find.                      *)
(*                                                                         *)
(* Runs are the members of one series: run 1, and <run 1>-retry-<n> as n.  *)
(***************************************************************************)
EXTENDS Naturals, Sequences, FiniteSetsExt

CONSTANTS
  Shards,       \* the shards of a run that is parallel
  MaxRuns, MaxMoves, MaxPageFaults

ASSUME PageAssumption == /\ MaxRuns \in Nat \ {0} /\ MaxMoves \in Nat /\ MaxPageFaults \in Nat
                         /\ 0 \notin Shards

VARIABLES
  parallel,     \* spec.parallel.enabled of the series
  status,       \* the runs that are stored, with their status
  pods,         \* the logs that are not archived and can be read from their pod
  page,         \* the run of the route, the selected shard, the run shown
  gets,         \* store.get calls that are not answered yet
  streams,      \* watches of the page that were not aborted
  stopWatch,    \* the watch that the page would abort
  request,      \* the last request for a log of the page and of its download button
  got,          \* what was received of it
  notice,       \* what kept a log from being received
  retrying,     \* the name POST .../retry is about to create, or None
  moves, pageFaults

clusterVars == <<parallel, status, pods>>
watchVars == <<gets, streams, stopWatch>>
logVars == <<request, got, notice>>
pageVars == <<clusterVars, page, watchVars, logVars, retrying, moves, pageFaults>>

----------------------------------------------------------------------------
None == 0
All == 0        \* no shard selected; also the one log of a run without shards

(* Phases that end a run: reported with its logs (Succeeded, Failed), or    *)
(* without (Cancelled, Error).                                              *)
Ended == {"Reported", "Abandoned"}

(* Where status.logs says that the log of an ended Job is: with S3 set up   *)
(* it is archived, unless the upload failed. "none": the Job has not ended. *)
Places == {"pod", "s3"}

NewStatus == [phase |-> "None", logs |-> [u \in {All} |-> "none"]]
Units(st) == DOMAIN st.logs
Active(st) == {u \in Units(st) : st.logs[u] = "none"}

NoItem == [run |-> None, st |-> NewStatus]
Readers == {"view", "download"}
Closed == [at |-> "closed", run |-> None, shard |-> All, st |-> NewStatus, todo |-> {}]
Asked(r, shard) == [Closed EXCEPT !.at = "asked", !.run = r, !.shard = shard]

(* The page has been opened on run 1.                                       *)
PageInit ==
  /\ parallel \in BOOLEAN
  /\ status = [r \in {1} |-> NewStatus]
  /\ pods = {}
  /\ page = [run |-> 1, shard |-> All, item |-> NoItem]
  /\ gets = {[id |-> 1, run |-> 1]} /\ streams = {} /\ stopWatch = None
  /\ request = [view |-> Asked(1, All), download |-> Closed]
  /\ got = [d \in Readers |-> {}] /\ notice = [d \in Readers |-> "none"]
  /\ retrying = None /\ moves = 1 /\ pageFaults = 0

Fault == pageFaults < MaxPageFaults /\ pageFaults' = pageFaults + 1

(* Something a user does.                                                   *)
Move == moves < MaxMoves /\ moves' = moves + 1

----------------------------------------------------------------------------
(* The run, as the operator reports it. *)

Told(r, st) ==
  {IF s.run = r /\ s.open THEN [s EXCEPT !.events = Append(@, st)] ELSE s : s \in streams}

Report(r, st) ==
  /\ status' = [status EXCEPT ![r] = st]
  /\ streams' = Told(r, st)
  /\ UNCHANGED <<parallel, page, gets, stopWatch, logVars, retrying, moves>>

Resolve(r) ==
  /\ status[r].phase = "None" /\ Report(r, [status[r] EXCEPT !.phase = "Resolving"])
  /\ UNCHANGED <<pods, pageFaults>>

Start(r) ==
  /\ status[r].phase = "Resolving"
  /\ Report(r, [status[r] EXCEPT !.phase = "Running",
                                 !.logs = [u \in IF parallel THEN Shards ELSE {All} |-> "none"]])
  /\ UNCHANGED <<pods, pageFaults>>

(* A poll finds Jobs ended and reports them with their logs: those of the   *)
(* pod and, when the upload succeeded, of the archive. The last one ends    *)
(* the run.                                                                 *)
Poll(r) ==
  /\ status[r].phase = "Running"
  /\ \E done \in (SUBSET Active(status[r])) \ {{}}, place \in Places :
       /\ IF place = "s3" THEN UNCHANGED pageFaults ELSE Fault
       /\ pods' = IF place = "s3" THEN pods ELSE pods \cup ({r} \X done)
       /\ Report(r, [phase |-> IF done = Active(status[r]) THEN "Reported" ELSE "Running",
                     logs |-> [u \in Units(status[r]) |->
                                 IF u \in done THEN place ELSE status[r].logs[u]]])

(* The run is cancelled, or its references do not resolve.                  *)
Abandon(r) ==
  /\ status[r].phase \notin Ended
  /\ Report(r, [status[r] EXCEPT !.phase = "Abandoned"])
  /\ UNCHANGED <<pods, pageFaults>>

(* Jobs are collected once their logs are reported.                         *)
CollectPod ==
  /\ \E pod \in pods : pods' = pods \ {pod}
  /\ UNCHANGED <<parallel, status, page, watchVars, logVars, retrying, moves, pageFaults>>

RemoveRun(r) ==
  /\ Move
  /\ status' = [q \in DOMAIN status \ {r} |-> status[q]]
  /\ pods' = {pod \in pods : pod[1] # r}
  /\ streams' = Told(r, status[r])
  /\ UNCHANGED <<parallel, page, gets, stopWatch, logVars, retrying, pageFaults>>

----------------------------------------------------------------------------
(* The page. *)

(* What the log on display depends on; a change of it restarts the log.     *)
KeyNoPhase(p) == <<p.run, p.shard>> \* mutant: not the phase of the run

Key(p) == <<p.run, p.shard, p.item.st.phase>>

AskKeepLines(p) ==                  \* mutant: logLines are not reset
  /\ request' = [request EXCEPT !["view"] = Asked(p.run, p.shard)]
  /\ UNCHANGED <<got, notice>>

Ask(p) ==
  /\ request' = [request EXCEPT !["view"] = Asked(p.run, p.shard)]
  /\ got' = [got EXCEPT !["view"] = {}]
  /\ notice' = [notice EXCEPT !["view"] = "none"]

Turn(p) ==
  /\ page' = p
  /\ IF Key(p) # Key(page) THEN Ask(p) ELSE UNCHANGED logVars

(* The route changes: the watch is stopped, the run is asked for.           *)
Open(r, open) ==
  /\ Turn([page EXCEPT !.run = r, !.shard = All])
  /\ gets' = gets \cup {[id |-> moves', run |-> r]}
  /\ streams' = {s \in open : s.id # stopWatch}
  /\ UNCHANGED stopWatch

Navigate ==
  /\ Move
  /\ \E r \in DOMAIN status \ {page.run} : Open(r, streams)
  /\ UNCHANGED <<clusterVars, retrying, pageFaults>>

SelectShard ==
  /\ Move
  /\ \E u \in (Units(page.item.st) \cup {All}) \ {page.shard} :
       Turn([page EXCEPT !.shard = u])
  /\ UNCHANGED <<clusterVars, watchVars, retrying, pageFaults>>

(* Another run is on display than the one s watches: s has not been followed.*)
Show(r, st, open) ==
  /\ Turn([page EXCEPT !.item = [run |-> r, st |-> st]])
  /\ streams' = {[s EXCEPT !.followed = @ /\ s.run = r] : s \in open}

(* The run asked for is answered, whichever run the route names by now, and *)
(* a watch is opened for it. An answer of another kind stops there.         *)
TakeRun(get) ==
  /\ gets' = gets \ {get}
  /\ IF get.run \in DOMAIN status
     THEN /\ Show(get.run, status[get.run], streams \cup
               {[id |-> get.id, run |-> get.run, open |-> FALSE, followed |-> FALSE,
                 events |-> <<>>]})
          /\ stopWatch' = get.id
     ELSE UNCHANGED <<page, logVars, streams, stopWatch>>
  /\ UNCHANGED <<clusterVars, retrying, moves, pageFaults>>

(* The hub has subscribed the page's watch; what happened before is missed. *)
(* (A run that has not ended by then is followed, if it is on display.)     *)
Subscribe(s) ==
  /\ ~s.open
  /\ streams' = (streams \ {s}) \cup
       {[s EXCEPT !.open = TRUE,
                  !.followed = page.item.run = s.run /\ s.run \in DOMAIN status
                               /\ status[s.run].phase \notin Ended]}
  /\ UNCHANGED <<clusterVars, page, gets, stopWatch, logVars, retrying, moves, pageFaults>>

Deliver(s) ==
  /\ s.events # <<>>
  /\ Show(s.run, Head(s.events), (streams \ {s}) \cup {[s EXCEPT !.events = Tail(@)]})
  /\ UNCHANGED <<clusterVars, gets, stopWatch, retrying, moves, pageFaults>>

----------------------------------------------------------------------------
(* The log routes. *)

AskDownload ==
  /\ Move
  /\ request' = [request EXCEPT !["download"] = Asked(page.run, page.shard)]
  /\ got' = [got EXCEPT !["download"] = {}]
  /\ notice' = [notice EXCEPT !["download"] = "none"]
  /\ UNCHANGED <<clusterVars, page, watchVars, retrying, pageFaults>>

(* selectRunLogs: the shard asked for, all of them when none was, or the    *)
(* run's own log while it has no shards.                                    *)
Wanted(st, shard) ==
  IF shard \in Units(st) THEN {shard} ELSE IF shard = All THEN Units(st) ELSE {}

WithLogs(st, shard) == {u \in Wanted(st, shard) : st.logs[u] # "none"}

(* The run is read; all that follows goes by the status it had.             *)
Route(d) ==
  /\ request[d].at = "asked"
  /\ LET r == request[d].run
         logs == WithLogs(status[r], request[d].shard)
     IN IF r \in DOMAIN status /\ logs # {}
        THEN /\ request' = [request EXCEPT ![d].at = "reading", ![d].st = status[r],
                                           ![d].todo = logs]
             /\ UNCHANGED notice
        ELSE /\ request' = [request EXCEPT ![d].at = "closed"]
             /\ notice' = [notice EXCEPT ![d] = "no logs available"]
  /\ UNCHANGED <<clusterVars, page, watchVars, got, retrying, moves, pageFaults>>

(* The archived log is preferred to the pod's, of which the view gets the   *)
(* last lines; a pod is never followed, for it has ended when status.logs   *)
(* names it.                                                                *)
Read(d, u) ==
  LET r == request[d].run
      archived == request[d].st.logs[u] = "s3"
      text == IF archived \/ d = "download" THEN "whole" ELSE "tail"
  IN /\ u \in request[d].todo
     /\ request' = [request EXCEPT ![d].todo = @ \ {u}]
     /\ \/ /\ archived \/ <<r, u>> \in pods
           /\ got' = [got EXCEPT ![d] = @ \cup {[run |-> r, unit |-> u, text |-> text]}]
           /\ UNCHANGED <<notice, pageFaults>>
        \/ /\ IF archived \/ <<r, u>> \in pods THEN Fault ELSE UNCHANGED pageFaults
           /\ notice' = [notice EXCEPT ![d] = "failed to read"]
           /\ UNCHANGED got
     /\ UNCHANGED <<clusterVars, page, watchVars, retrying, moves>>

----------------------------------------------------------------------------
(* Retrying a run. *)

NextName == Max(DOMAIN status \cup {1}) + 1

(* The names are listed: the new run is to be the next of its series.       *)
Retry ==
  /\ Move
  /\ retrying = None /\ page.item.st.phase \in Ended /\ page.run \in DOMAIN status
  /\ NextName <= MaxRuns /\ retrying' = NextName
  /\ UNCHANGED <<clusterVars, page, watchVars, logVars, pageFaults>>

Stored(r) == status' = [q \in DOMAIN status \cup {r} |-> IF q = r THEN NewStatus ELSE status[q]]

(* It is created, unless somebody else did so meanwhile, and the page goes  *)
(* there.                                                                   *)
CreateRetry ==
  /\ retrying # None /\ retrying' = None /\ moves' = moves + 1
  /\ IF retrying \in DOMAIN status
     THEN UNCHANGED <<status, page, watchVars, logVars>>
     ELSE /\ Stored(retrying)
          /\ IF retrying # page.run THEN Open(retrying, Told(retrying, NewStatus))
             ELSE /\ streams' = Told(retrying, NewStatus)
                  /\ UNCHANGED <<page, gets, stopWatch, logVars>>
  /\ UNCHANGED <<parallel, pods, pageFaults>>

(* Somebody else does, on a page that offers it once a run has ended.       *)
OtherRetry ==
  /\ Move /\ \E r \in DOMAIN status : status[r].phase \in Ended
  /\ NextName <= MaxRuns /\ Stored(NextName)
  /\ streams' = Told(NextName, NewStatus)
  /\ UNCHANGED <<parallel, pods, page, gets, stopWatch, logVars, retrying, pageFaults>>

----------------------------------------------------------------------------
Operator == \E r \in DOMAIN status : Resolve(r) \/ Start(r) \/ Poll(r) \/ Abandon(r)

Arrivals ==
  \/ \E get \in gets : TakeRun(get)
  \/ \E s \in streams : Subscribe(s) \/ Deliver(s)

Logs == \E d \in Readers : Route(d) \/ \E u \in request[d].todo : Read(d, u)

PageNext ==
  \/ Operator \/ CollectPod \/ \E r \in DOMAIN status : RemoveRun(r)
  \/ Navigate \/ SelectShard \/ AskDownload \/ Retry \/ CreateRetry \/ OtherRetry
  \/ Arrivals \/ Logs

PageSpec == PageInit /\ [][PageNext]_pageVars

(* Answers and events arrive; users and the operator owe nothing.           *)
FairPage == PageSpec /\ WF_pageVars(Arrivals) /\ WF_pageVars(Logs)

----------------------------------------------------------------------------
(* Properties *)

Selected == Wanted(status[page.run], page.shard)

(* Whatever is shown, or is in the file downloaded, belongs to the run and  *)
(* shard that were asked for: while the route, the shard and the phase      *)
(* change under answers that are on their way. And a log that was asked for *)
(* to the end is all there, or the page says that it is not.                *)
LogIsOfRequest ==
  /\ request["view"].run = page.run /\ request["view"].shard = page.shard
  /\ \A d \in Readers :
       LET q == request[d]
       IN /\ \A line \in got[d] : line.run = q.run /\ line.unit \in Wanted(q.st, q.shard)
          /\ q.at = "reading" /\ q.todo = {} /\ notice[d] = "none" =>
               {line.unit : line \in got[d]} = WithLogs(q.st, q.shard)

(* The page has watched the run of its route since before it ended, and has *)
(* shown no other since.                                                    *)
Following == \E s \in streams : s.followed /\ s.run = page.run

Archived(r) == r \in DOMAIN status /\ \A u \in Selected : status[r].logs[u] = "s3"

(* "Reconnecting on every phase transition guarantees at least one          *)
(* connection is made after the Job/shards actually exist"                  *)
(* (RunDetailView.vue): a page that has followed its run shows the whole    *)
(* log of it, or that it could not be read, some time after it ended.       *)
PageShowsLog ==
  \A r \in 1..MaxRuns :
    page.run = r /\ Following /\ Archived(r) /\ status[r].phase \in Ended
      ~> \/ page.run # r \/ ~Following \/ ~Archived(r)
         \/ notice["view"] = "failed to read"
         \/ \A u \in Selected : [run |-> r, unit |-> u, text |-> "whole"] \in got["view"]
=============================================================================
