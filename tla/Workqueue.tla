----------------------------- MODULE Workqueue -----------------------------
(***************************************************************************)
(* packages/operator/src/k8s/informer.ts: ResourceController, the cache    *)
(* and work queue each controller of the operator reconciles from, fed by  *)
(* a list every ten minutes and by the watch in between.  RunController    *)
(* has one object and takes its queue for granted; here there are several, *)
(* and what is reconciled does not matter.                                 *)
(***************************************************************************)
EXTENDS WatchStream

CONSTANTS
  MaxFaults,        \* lists and reconciles that fail
  MaxLists,         \* resyncs that await their list at the same time
  MaxRuns           \* reconciles of one object at the same time

VARIABLES
  cache,            \* the version of each object, by its key
  timers,           \* the keys that are scheduled
  watch,            \* watchHandle; one that was replaced is stopped
  lists,            \* resyncs that await the answer to a list of some version
  running,          \* reconciles that did not return yet, with what they read
  reconciled,       \* the keys that were reconciled as they are in the cache
  faults

queueVars == <<serverVars, cache, timers, watch, lists, running, reconciled, faults>>

(* keyOf gives "undefined" for an object without a name. *)
Keys == Names \cup {Nameless}

Something == -2     \* what is cached for a bookmark or an error

QueueInit ==
  /\ ServerInit
  /\ cache = [k \in Keys |-> Absent] /\ timers = {} /\ watch = NoWatch
  /\ lists = {Version}
  /\ running = {} /\ reconciled = {} /\ faults = 0

Fault == faults < MaxFaults /\ faults' = faults + 1

Schedule(keys) == timers' = timers \cup keys

StillReconciled == reconciled' = {k \in reconciled : cache'[k] = cache[k]}

----------------------------------------------------------------------------
(* resync lists the objects... *)
BeginResync == Cardinality(lists \cup {Version}) <= MaxLists /\ lists' = lists \cup {Version}

Resync ==
  /\ lists = {} /\ BeginResync
  /\ UNCHANGED <<serverVars, cache, timers, watch, running, reconciled, faults>>

ListedKeepVanished(v) ==            \* mutant: keys that are gone stay
  [k \in Keys |-> IF k \in Existing(v) THEN At(v, k) ELSE cache[k]]

Listed(v) == [k \in Keys |-> IF k \in Names THEN At(v, k) ELSE Absent]

(* ... takes over what is there and schedules it, whatever it knew before,  *)
(* and starts another watch.  A failure is logged; the next tick follows.   *)
FinishResync(v) ==
  /\ v \in lists /\ lists' = lists \ {v}
  /\ \/ /\ cache' = Listed(v) /\ Schedule(Existing(v))
        /\ watch' = NewWatch(v) /\ StillReconciled /\ UNCHANGED faults
     \/ Fault /\ UNCHANGED <<cache, timers, watch, reconciled>>
  /\ UNCHANGED <<serverVars, running>>

KeyOf(e) == e.name

OnDeleted(e) ==
  /\ cache' = [cache EXCEPT ![KeyOf(e)] = Absent]
  /\ timers' = timers \ {KeyOf(e)} /\ StillReconciled

(* Everything but DELETED counts as an object that is there now. *)
OnOther(e) ==
  /\ cache' = [cache EXCEPT ![KeyOf(e)] = IF e.name = Nameless THEN Something ELSE e.rv]
  /\ Schedule({KeyOf(e)}) /\ StillReconciled

OnEvent(e) ==
  CASE e = NoEvent -> UNCHANGED <<cache, timers, lists, reconciled>>
    [] e = Expired -> BeginResync /\ UNCHANGED <<cache, timers, reconciled>>
    [] e.type = "DELETED" -> OnDeleted(e) /\ UNCHANGED lists
    [] e.type \in {"ADDED", "MODIFIED", "BOOKMARK", "ERROR"} -> OnOther(e) /\ UNCHANGED lists

TakeStep(steps) ==
  /\ \E s \in steps : watch' = s.watch /\ OnEvent(s.event)
  /\ UNCHANGED <<serverVars, running, faults>>

Stream == TakeStep(Connecting(watch) \cup Delivering(watch))
WatchBreaks == TakeStep(Accidents(watch))

(* run: the object is read from the cache now, and a key that is gone from  *)
(* it is forgotten.                                                         *)
Run(k) ==
  /\ k \in timers /\ Cardinality({r \in running : r[1] = k}) < MaxRuns
  /\ timers' = timers \ {k}
  /\ running' = IF cache[k] = Absent THEN running ELSE running \cup {<<k, cache[k]>>}
  /\ UNCHANGED <<serverVars, cache, watch, lists, reconciled, faults>>

RetryNever(k) == UNCHANGED timers   \* mutant: a reconcile that failed is not repeated

Retry(k) == Schedule({k})

(* A reconcile returns, and may ask to be repeated; one that throws is.     *)
Return(k) ==
  /\ \E r \in running :
       /\ r[1] = k /\ running' = running \ {r}
       /\ \/ /\ reconciled' = IF r[2] = cache[k] THEN reconciled \cup {k} ELSE reconciled
             /\ UNCHANGED faults
             /\ UNCHANGED timers \/ Schedule({k})
          \/ Fault /\ Retry(k) /\ UNCHANGED reconciled
  /\ UNCHANGED <<serverVars, cache, watch, lists>>

----------------------------------------------------------------------------
Server == (Change \/ Compact) /\ UNCHANGED <<cache, timers, watch, lists, running, reconciled, faults>>

QueueNext ==
  \/ Server \/ Resync \/ Stream \/ WatchBreaks
  \/ \E v \in lists : FinishResync(v)
  \/ \E k \in Keys : Run(k) \/ Return(k)

QueueSpec == QueueInit /\ [][QueueNext]_queueVars

(* Timers fire, the one of the resync included, and calls are answered. *)
FairSpec ==
  /\ QueueSpec /\ WF_queueVars(Resync) /\ WF_queueVars(Stream)
  /\ WF_queueVars(\E v \in lists : FinishResync(v))
  /\ \A k \in Keys : WF_queueVars(Run(k)) /\ WF_queueVars(Return(k))

----------------------------------------------------------------------------
(* Properties *)

QueueTypeOK ==
  /\ log \in Seq([name : Names, deleted : BOOLEAN]) /\ Version <= MaxVersion
  /\ oldest \in 0..Version
  /\ cache \in [Keys -> {Something} \cup 0..MaxVersion]
  /\ timers \subseteq Keys /\ watch \in Watches /\ lists \subseteq 0..Version
  /\ running \subseteq Keys \X ({Something} \cup 1..MaxVersion)
  /\ reconciled \subseteq Keys
  /\ faults \in 0..MaxFaults

(* No wakeup is lost: what is in the cache was reconciled in this version,  *)
(* is being reconciled, or is scheduled, however lists, events, late        *)
(* reconciles and failures follow each other.                               *)
NoLostWakeup ==
  \A k \in Keys : cache[k] # Absent =>
    k \in timers \cup reconciled \/ <<k, cache[k]>> \in running

(* "self-heals from any watch events missed for any reason": the cache ends *)
(* up with the objects of the cluster, and each of them reconciled as it    *)
(* is, also when the watch is stuck at a version that was forgotten.        *)
QueueSettles ==
  <>[](/\ \A n \in Names : cache[n] = At(Version, n)
       /\ Existing(Version) \subseteq reconciled)
============================================================================
