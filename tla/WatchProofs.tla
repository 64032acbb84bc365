---------------------------- MODULE WatchProofs ----------------------------
(***************************************************************************)
(* The two users of a watch (k8s-client/src/watch.ts).  The operator's     *)
(* work queue loses no wakeup (operator/src/k8s/informer.ts), for any      *)
(* number of objects, changes, resyncs, failures and reconciles of one     *)
(* object at the same time.  The API's watch of the cluster runs as long   *)
(* as somebody reads from it, and a page that is subscribed misses nothing *)
(* (api/src/lib/watch-hub.ts, ui/src/stores/createResourceStore.ts), for   *)
(* any number of pages, connections, hubs, objects and changes.            *)
(***************************************************************************)
EXTENDS Workqueue, LiveViews, SequenceTheorems, WellFoundedInduction, TLAPS

----------------------------------------------------------------------------
(* The work queue.  It schedules what it caches, whatever it was told, so   *)
(* nothing of the API server is needed.                                     *)

(* Enough of the types to read the property after a step. *)
Shape ==
  /\ cache = [k \in Keys |-> cache[k]]
  /\ \A r \in running : r = <<r[1], r[2]>>

QueueInv == Shape /\ NoLostWakeup

(* Whatever a watch does next, what it hands on is one of the kinds of      *)
(* events that onEvent tells apart.                                        *)
LEMMA EventKinds ==
  ASSUME NEW s \in Connecting(watch) \cup Delivering(watch) \cup Accidents(watch)
  PROVE  \/ s.event = NoEvent \/ s.event = Expired
         \/ s.event.type \in {"DELETED", "ADDED", "MODIFIED", "BOOKMARK", "ERROR"}
<1>1. CASE s \in Connect(watch)
  BY <1>1 DEF Connect, Step
<1>2. CASE s \in ConnectExpired(watch)
  BY <1>2 DEF ConnectExpired, Step, Event
<1>3. CASE s \in Deliver(watch)
  BY <1>3 DEF Deliver, Step, ChangeEvent, Event
<1>4. CASE s \in DeliverListed(watch)
  BY <1>4 DEF DeliverListed, Step, Event
<1>5. CASE s \in Bookmark(watch)
  BY <1>5 DEF Bookmark, Step, Event
<1>6. CASE s \in End(watch)
  BY <1>6 DEF End, Step
<1>7. QED
  BY <1>1, <1>2, <1>3, <1>4, <1>5, <1>6 DEF Connecting, Delivering, Accidents

(* An event changes at most the object it names, and schedules it or takes  *)
(* it out of the cache.                                                     *)
LEMMA EventKeepsWakeups ==
  ASSUME QueueInv, TakeStep(Connecting(watch) \cup Delivering(watch))
                   \/ TakeStep(Accidents(watch))
  PROVE  QueueInv'
<1>1. PICK s \in Connecting(watch) \cup Delivering(watch) \cup Accidents(watch) :
        OnEvent(s.event)
  BY DEF TakeStep
<1>2. UNCHANGED running
  BY DEF TakeStep
<1> DEFINE e == s.event
           Quiet == UNCHANGED <<cache, timers, reconciled>>
<1> HIDE DEF e
<1>3. Quiet \/ OnDeleted(e) \/ OnOther(e)
  <2>1. CASE e = NoEvent
    BY <2>1, <1>1 DEF OnEvent, e, NoEvent, Expired
  <2>2. CASE e = Expired
    BY <2>2, <1>1 DEF OnEvent, e, NoEvent, Expired
  <2>3. CASE e.type \in {"DELETED", "ADDED", "MODIFIED", "BOOKMARK", "ERROR"}
    <3>1. e # NoEvent /\ e # Expired
      BY <2>3 DEF NoEvent, Expired
    <3>2. QED
      BY <2>3, <3>1, <1>1 DEF OnEvent, e
  <2>4. QED
    BY <2>1, <2>2, <2>3, EventKinds DEF e
<1>4. CASE Quiet
  BY <1>4, <1>2 DEF QueueInv, Shape, NoLostWakeup
<1>5. CASE OnDeleted(e)
  BY <1>5, <1>2 DEF QueueInv, Shape, NoLostWakeup, OnDeleted, StillReconciled
<1>6. CASE OnOther(e)
  BY <1>6, <1>2 DEF QueueInv, Shape, NoLostWakeup, OnOther, Schedule, StillReconciled
<1>7. QED
  BY <1>3, <1>4, <1>5, <1>6

(* A list schedules whatever it caches.                                     *)
LEMMA ListKeepsWakeups ==
  ASSUME QueueInv, NEW v \in lists, FinishResync(v)
  PROVE  QueueInv'
<1>1. UNCHANGED running
  BY DEF FinishResync
<1>2. CASE cache' = Listed(v) /\ Schedule(Existing(v))
  <2>1. \A k \in Keys : cache'[k] # Absent => k \in timers'
    BY <1>2 DEF Listed, Existing, Schedule
  <2>2. QED
    BY <2>1, <1>1, <1>2 DEF QueueInv, Shape, NoLostWakeup, Listed
<1>3. CASE UNCHANGED <<cache, timers, watch, reconciled>>
  BY <1>1, <1>3 DEF QueueInv, Shape, NoLostWakeup
<1>4. QED
  BY <1>2, <1>3 DEF FinishResync

(* A key that is taken off the timers is reconciled as it is in the cache.  *)
LEMMA RunKeepsWakeups ==
  ASSUME QueueInv, NEW k \in Keys, Run(k)
  PROVE  QueueInv'
<1>1. UNCHANGED <<cache, reconciled>> /\ timers' = timers \ {k} /\ running \subseteq running'
  BY DEF Run
<1>2. cache[k] # Absent => <<k, cache[k]>> \in running'
  BY DEF Run
<1>3. \A r \in running' : r = <<r[1], r[2]>>
  BY DEF QueueInv, Shape, Run
<1>4. QED
  BY <1>1, <1>2, <1>3 DEF QueueInv, Shape, NoLostWakeup

(* A reconcile that returns did its object as it is now, or something else  *)
(* was scheduled or is reconciled for the object by then.                   *)
LEMMA ReturnKeepsWakeups ==
  ASSUME QueueInv, NEW k \in Keys, Return(k)
  PROVE  QueueInv'
<1>1. PICK r \in running :
        /\ r[1] = k /\ running' = running \ {r}
        /\ \/ /\ reconciled' = IF r[2] = cache[k] THEN reconciled \cup {k} ELSE reconciled
              /\ UNCHANGED faults
              /\ UNCHANGED timers \/ Schedule({k})
           \/ Fault /\ Retry(k) /\ UNCHANGED reconciled
  BY DEF Return
<1>2. UNCHANGED cache /\ timers \subseteq timers' /\ reconciled \subseteq reconciled'
  BY <1>1 DEF Return, Schedule, Retry
<1>3. k \in timers' \cup reconciled' \/ r[2] # cache[k]
  BY <1>1 DEF Retry, Schedule
<1>4. r = <<k, r[2]>>
  BY <1>1 DEF QueueInv, Shape
<1>5. ASSUME NEW j \in Keys, cache'[j] # Absent
      PROVE  j \in timers' \cup reconciled' \/ <<j, cache'[j]>> \in running'
  <2>1. j \in timers \cup reconciled \/ <<j, cache[j]>> \in running
    BY <1>2, <1>5 DEF QueueInv, NoLostWakeup
  <2>2. <<j, cache[j]>> = r => j = k /\ r[2] = cache[k]
    BY <1>4
  <2>3. QED
    BY <2>1, <2>2, <1>1, <1>2, <1>3
<1>6. QED
  BY <1>1, <1>2, <1>5 DEF QueueInv, Shape, NoLostWakeup

(* No wakeup is lost: whatever is in the cache was reconciled in that       *)
(* version, is being reconciled in it, or has a timer, also when a list     *)
(* overtakes an event, a reconcile fails or several of one object overlap.  *)
THEOREM WakeupsKept == QueueSpec => []NoLostWakeup
<1>1. QueueInit => QueueInv
  BY DEF QueueInit, QueueInv, Shape, NoLostWakeup, Absent
<1>2. QueueInv /\ [QueueNext]_queueVars => QueueInv'
  <2> SUFFICES ASSUME QueueInv, [QueueNext]_queueVars PROVE QueueInv'
    OBVIOUS
  <2>1. CASE Server \/ Resync
    BY <2>1 DEF Server, Resync, QueueInv, Shape, NoLostWakeup
  <2>2. CASE Stream \/ WatchBreaks
    BY <2>2, EventKeepsWakeups DEF Stream, WatchBreaks
  <2>3. CASE \E v \in lists : FinishResync(v)
    BY <2>3, ListKeepsWakeups
  <2>4. CASE \E k \in Keys : Run(k) \/ Return(k)
    BY <2>4, RunKeepsWakeups, ReturnKeepsWakeups
  <2>5. CASE UNCHANGED queueVars
    BY <2>5 DEF queueVars, QueueInv, Shape, NoLostWakeup
  <2>6. QED
    BY <2>1, <2>2, <2>3, <2>4, <2>5 DEF QueueNext
<1>3. QueueInv => NoLostWakeup
  BY DEF QueueInv
<1>4. QED
  BY <1>1, <1>2, <1>3, PTL DEF QueueSpec

----------------------------------------------------------------------------
(* Live views *)

States == {"requested", "listing", "subscribed", "cancelling", "over"}
Conn == [state : States, since : {Unknown} \cup 0..MaxVersion, hub : 0..MaxHubs,
         aborted : BOOLEAN, gone : BOOLEAN]
Hub == [subscribers : SUBSET (1..MaxConns), watch : Watches, gap : BOOLEAN]
Entry == [name : Names, deleted : BOOLEAN]

TypeInv ==
  /\ TypeOK
  /\ log \in Seq(Entry) /\ Version <= MaxVersion /\ oldest \in 0..Version
  /\ Len(conns) <= MaxConns /\ Len(hubs) <= MaxHubs
  /\ stream \in [Pages -> 0..Len(conns)]

(* A watch never is ahead of the server. Until it has a gap it knows where  *)
(* it is, and its connection continues there.                               *)
WatchTrue(w, gap) ==
  /\ w.sent <= Version /\ w.rv <= Version
  /\ ~gap => w.rv # Unknown /\ w.listing = {} /\ (w.open => w.sent = w.rv)

WatchesInv == \A h \in DOMAIN hubs : WatchTrue(hubs[h].watch, hubs[h].gap)

Readers(h) == {c \in DOMAIN conns : conns[c].state = "subscribed" /\ conns[c].hub = h}

(* Who is subscribed to a hub are the connections that say so, and its      *)
(* watch is stopped with the last of them.                                  *)
SubscribersInv ==
  /\ \A h \in DOMAIN hubs :
       hubs[h].subscribers = Readers(h) /\ (Running(h) <=> hubs[h].subscribers # {})
  /\ \A c \in DOMAIN conns :
       /\ conns[c].state \in {"subscribed", "cancelling"} => conns[c].hub \in DOMAIN hubs
       /\ conns[c].state = "listing" => conns[c].since \in 0..Version
  /\ current # None => Running(current)

ViewsInv == TypeInv /\ WatchesInv /\ SubscribersInv /\ NothingMissed

----------------------------------------------------------------------------
(* The last change of an object *)

LEMMA Least ==
  ASSUME NEW S \in SUBSET Nat, S # {}
  PROVE  \E x \in S : \A y \in S : x <= y
<1> DEFINE Below == {ss \in Nat \X Nat : ss[1] < ss[2]}
<1>1. IsWellFoundedOn(Below, Nat)
  BY NatLessThanWellFounded, Zenon DEF OpToRel
<1>2. \A x, y \in Nat : y < x => <<y, x>> \in Below
  OBVIOUS
<1> HIDE DEF Below
<1>3. PICK x \in S : \A y \in S : ~ (<<y, x>> \in Below)
  BY <1>1, WFMin
<1>4. ASSUME NEW y \in S PROVE x <= y
  <2>1. x \in Nat /\ y \in Nat /\ ~ (y < x)
    BY <1>2, <1>3
  <2>2. QED
    BY <2>1
<1>5. QED
  BY <1>4

LEMMA Largest ==
  ASSUME NEW v \in Nat, NEW S \in SUBSET (0..v), S # {}
  PROVE  Max(S) \in S /\ \A y \in S : Max(S) >= y
<1> DEFINE T == {t \in 0..v : v - t \in S}
<1>1. T \in SUBSET Nat /\ T # {}
  <2>1. PICK x \in S : TRUE
    OBVIOUS
  <2>2. v - x \in 0..v /\ v - (v - x) = x
    OBVIOUS
  <2>3. v - x \in T
    BY <2>2
  <2>4. \A t \in T : t \in Nat
    OBVIOUS
  <2>5. QED
    BY <2>3, <2>4
<1>2. PICK m \in T : \A y \in T : m <= y
  BY <1>1, Least
<1>3. ASSUME NEW y \in S PROVE v - m >= y
  <2>1. v - y \in 0..v /\ v - (v - y) = y
    OBVIOUS
  <2>2. v - y \in T
    BY <2>1
  <2>3. QED
    BY <2>2, <1>2
<1>4. v - m \in S
  BY <1>2
<1>5. QED
  BY <1>3, <1>4 DEF Max

(* Changed and At of a log.                                                 *)
ChangesIn(l, v, n) == {i \in 1..v : l[i].name = n}
LastIn(l, n) == Max({0} \cup ChangesIn(l, Len(l), n))
ValueIn(l, v, n) ==
  IF ChangesIn(l, v, n) = {} \/ l[Max(ChangesIn(l, v, n))].deleted THEN Absent
  ELSE Max(ChangesIn(l, v, n))

LEMMA Readings ==
  ASSUME NEW n
  PROVE  /\ Changed(n) = LastIn(log, n) /\ Changed(n)' = LastIn(log', n)
         /\ At(Version, n) = ValueIn(log, Len(log), n)
         /\ At(Version, n)' = ValueIn(log', Len(log'), n)
BY DEF Changed, At, Version, LastIn, ValueIn, ChangesIn

LEMMA ValueRange ==
  ASSUME NEW l, NEW n, NEW v \in Nat
  PROVE  ValueIn(l, v, n) \in 0..v
<1>1. CASE ChangesIn(l, v, n) = {}
  BY <1>1 DEF ValueIn, Absent
<1>2. CASE ChangesIn(l, v, n) # {}
  <2>1. ChangesIn(l, v, n) \in SUBSET (0..v)
    BY DEF ChangesIn
  <2>2. Max(ChangesIn(l, v, n)) \in 0..v
    BY <1>2, <2>1, Largest
  <2>3. QED
    BY <2>2 DEF ValueIn, Absent
<1>3. QED
  BY <1>1, <1>2

LEMMA LastChange ==
  ASSUME NEW l \in Seq(Entry), NEW n
  PROVE  /\ LastIn(l, n) \in 0..Len(l)
         /\ \A v \in 1..Len(l) : l[v].name = n => v <= LastIn(l, n)
         /\ LastIn(l, n) # 0 => l[LastIn(l, n)].name = n
         /\ ValueIn(l, Len(l), n) =
              IF LastIn(l, n) = 0 \/ l[LastIn(l, n)].deleted THEN Absent ELSE LastIn(l, n)
<1> DEFINE S == ChangesIn(l, Len(l), n)
           m == LastIn(l, n)
<1>1. Len(l) \in Nat /\ S \in SUBSET (0..Len(l)) /\ {0} \cup S \in SUBSET (0..Len(l))
  BY DEF ChangesIn
<1>2. m \in {0} \cup S /\ \A y \in {0} \cup S : m >= y
  BY <1>1, Largest DEF LastIn
<1>3. \A v \in 1..Len(l) : l[v].name = n <=> v \in S
  BY DEF ChangesIn
<1>4. 0 \notin S
  BY DEF ChangesIn
<1>5. CASE S = {}
  BY <1>1, <1>2, <1>3, <1>5 DEF ValueIn
<1>6. CASE S # {}
  <2>1. Max(S) \in S /\ \A y \in S : Max(S) >= y
    BY <1>1, <1>6, Largest
  <2>2. m \in S /\ m = Max(S)
    BY <1>1, <1>2, <1>4, <2>1
  <2>3. QED
    BY <1>1, <1>2, <1>3, <1>4, <1>6, <2>2 DEF ValueIn
<1>7. QED
  BY <1>5, <1>6

(* One more change moves the last one of its object, and no other.          *)
Moved(l, k, e, n) ==
  /\ e.name = n => LastIn(k, n) = Len(l) + 1
  /\ e.name # n => /\ LastIn(k, n) = LastIn(l, n)
                  /\ ValueIn(k, Len(k), n) = ValueIn(l, Len(l), n)

LEMMA ChangeMoves ==
  ASSUME NEW l \in Seq(Entry), NEW e \in Entry, NEW k, k = Append(l, e), NEW n
  PROVE  Moved(l, k, e, n)
<1> USE DEF Moved
<1>1. /\ k \in Seq(Entry) /\ Len(k) = Len(l) + 1 /\ Len(l) \in Nat /\ k[Len(l) + 1] = e
      /\ \A i \in 1..Len(l) : k[i] = l[i]
  OBVIOUS
<1>2. /\ LastIn(k, n) \in 0..Len(k)
      /\ \A v \in 1..Len(k) : k[v].name = n => v <= LastIn(k, n)
      /\ LastIn(k, n) # 0 => k[LastIn(k, n)].name = n
      /\ ValueIn(k, Len(k), n) =
           IF LastIn(k, n) = 0 \/ k[LastIn(k, n)].deleted THEN Absent ELSE LastIn(k, n)
  BY <1>1, LastChange
<1>3. CASE e.name = n
  BY <1>1, <1>2, <1>3
<1>4. CASE e.name # n
  <2>1. /\ LastIn(l, n) \in 0..Len(l)
        /\ \A v \in 1..Len(l) : l[v].name = n => v <= LastIn(l, n)
        /\ LastIn(l, n) # 0 => l[LastIn(l, n)].name = n
        /\ ValueIn(l, Len(l), n) =
             IF LastIn(l, n) = 0 \/ l[LastIn(l, n)].deleted THEN Absent ELSE LastIn(l, n)
    BY LastChange
  <2>2. LastIn(k, n) # Len(l) + 1
    BY <1>1, <1>2, <1>4
  <2>3. LastIn(k, n) = LastIn(l, n)
    BY <1>1, <1>2, <2>1, <2>2
  <2>4. QED
    BY <1>1, <1>2, <1>4, <2>1, <2>3
<1>5. QED
  BY <1>3, <1>4
----------------------------------------------------------------------------
(* Steps of a watch *)

(* What a hub hands on: a change, the one after those it has seen as long   *)
(* as it has no gap, or nothing a page would show.                          *)
Telling == {"ADDED", "MODIFIED", "DELETED"}

Goes(w, gap, u, e) ==
  /\ u \in Watches /\ u.stopped = w.stopped /\ WatchTrue(u, gap \/ e = Expired)
  /\ e.type \in Telling => e.name \in Names /\ e.rv \in 0..MaxVersion
  /\ ~gap /\ e # Expired =>
       \/ u.rv = w.rv /\ e.type \notin Telling
       \/ w.rv + 1 \in 1..Version /\ u.rv = w.rv + 1 /\ e = ChangeEvent(w.rv + 1)

(* An event that shows nothing.                                             *)
LEMMA QuietStep ==
  ASSUME NEW w, NEW gap \in BOOLEAN, NEW u \in Watches, u.stopped = w.stopped,
         NEW e, e.type \notin Telling,
         u.sent <= Version, u.rv <= Version,
         ~gap /\ e # Expired =>
           u.rv = w.rv /\ u.rv # Unknown /\ u.listing = {} /\ (u.open => u.sent = u.rv)
  PROVE  Goes(w, gap, u, e)
BY DEF Goes, WatchTrue

LEMMA WatchSteps ==
  ASSUME TypeInv, NEW w \in Watches, NEW gap \in BOOLEAN, WatchTrue(w, gap),
         NEW s \in Connecting(w) \cup Delivering(w) \cup Accidents(w)
  PROVE  Goes(w, gap, s.watch, s.event)
<1>1. /\ log \in Seq(Entry) /\ Version \in 0..MaxVersion /\ oldest \in 0..Version
      /\ Version \in Nat /\ MaxVersion \in Nat
  BY ObjectsAssumption DEF TypeInv, Version
<1>2. /\ w.rv \in Int /\ w.rv >= -1 /\ w.rv <= Version /\ w.sent \in 0..Version
      /\ w.listing \subseteq Names /\ Unknown = -1
  BY <1>1 DEF Watches, Unknown, WatchTrue
<1>3. /\ NoEvent.type \notin Telling /\ Expired.type \notin Telling
      /\ \A n, v : /\ Event("ERROR", n, v).type \notin Telling
                   /\ Event("BOOKMARK", n, v).type \notin Telling
  BY DEF Telling, NoEvent, Expired, Event
<1> HIDE DEF Version
<1>4. CASE s \in Connect(w)
  <2>1. PICK e : e = NoEvent /\ e.type \notin Telling
    BY <1>3
  <2>2. CASE w.rv = Unknown
    <3>1. PICK all : all = Existing(Version) /\ all \subseteq Names
      BY DEF Existing
    <3>2. PICK u : u = [w EXCEPT !.open = TRUE, !.sent = Version, !.listing = all]
      OBVIOUS
    <3>3. s = [watch |-> u, event |-> e]
      BY <1>4, <2>1, <2>2, <3>1, <3>2 DEF Connect, Step
    <3>4. u \in Watches
      BY <1>1, <3>1, <3>2 DEF Watches
    <3>5. u.stopped = w.stopped /\ u.sent <= Version /\ u.rv <= Version
      BY <1>1, <1>2, <3>2 DEF Watches
    <3>6. Goes(w, gap, u, e)
      BY <2>1, <2>2, <3>4, <3>5, QuietStep DEF WatchTrue
    <3>7. QED
      BY <3>3, <3>6
  <2>3. CASE w.rv # Unknown
    <3>1. PICK u : u = [w EXCEPT !.open = TRUE, !.sent = w.rv]
      OBVIOUS
    <3>2. s = [watch |-> u, event |-> e]
      BY <1>4, <2>1, <2>3, <3>1 DEF Connect, Step
    <3>3. /\ u \in Watches /\ u.stopped = w.stopped /\ u.sent = w.rv /\ u.rv = w.rv
          /\ u.sent <= Version /\ u.listing = w.listing
      BY <1>1, <1>2, <2>3, <3>1 DEF Watches
    <3>4. Goes(w, gap, u, e)
      BY <1>2, <2>1, <2>3, <3>3, QuietStep DEF WatchTrue
    <3>5. QED
      BY <3>2, <3>4
  <2>4. QED
    BY <2>2, <2>3
<1>5. CASE s \in ConnectExpired(w)
  <2>1. CASE s = Step([w EXCEPT !.rv = Unknown], Expired)
    <3>1. PICK u, e : u = [w EXCEPT !.rv = Unknown] /\ e = Expired
      OBVIOUS
    <3>2. s = [watch |-> u, event |-> e]
      BY <2>1, <3>1 DEF Step
    <3>3. u \in Watches /\ u.stopped = w.stopped /\ u.sent <= Version /\ u.rv <= Version
      BY <1>1, <1>2, <3>1 DEF Watches
    <3>4. Goes(w, gap, u, e)
      BY <1>3, <3>1, <3>3, QuietStep
    <3>5. QED
      BY <3>2, <3>4
  <2>2. CASE s = Step(w, Event("ERROR", Nameless, Unknown))
    <3>1. PICK e : e = Event("ERROR", Nameless, Unknown) /\ e.type \notin Telling
      BY <1>3
    <3>2. s = [watch |-> w, event |-> e]
      BY <2>2, <3>1 DEF Step
    <3>3. Goes(w, gap, w, e)
      BY <1>2, <3>1, QuietStep DEF WatchTrue
    <3>4. QED
      BY <3>2, <3>3
  <2>3. QED
    BY <1>5, <2>1, <2>2 DEF ConnectExpired
<1>6. CASE s \in Deliver(w)
  <2>1. PICK v, u, e : /\ v = w.sent + 1 /\ u = [w EXCEPT !.sent = v, !.rv = v]
                       /\ e = ChangeEvent(v)
    OBVIOUS
  <2>2. s = [watch |-> u, event |-> e] /\ w.open /\ w.listing = {} /\ v \in 1..Version
    BY <1>1, <1>2, <1>6, <2>1 DEF Deliver, Step
  <2>3. log[v] \in Entry
    BY <1>1, <2>2 DEF Version
  <2>4. e.name \in Names /\ e.rv = v
    BY <2>1, <2>3 DEF ChangeEvent, Event, Entry
  <2>5. u \in Watches /\ u.stopped = w.stopped /\ u.sent = v /\ u.rv = v /\ u.listing = {}
    <3>1. v \in 0..MaxVersion
      BY <1>1, <2>2
    <3>2. u \in Watches
      BY <2>1, <3>1 DEF Watches
    <3>3. u.stopped = w.stopped /\ u.sent = v /\ u.rv = v /\ u.listing = w.listing
      BY <2>1 DEF Watches
    <3>4. QED
      BY <2>2, <3>2, <3>3
  <2>6. ~gap => v = w.rv + 1
    BY <2>1, <2>2 DEF WatchTrue
  <2>7. Goes(w, gap, u, e)
    BY <1>1, <1>2, <2>1, <2>2, <2>4, <2>5, <2>6 DEF Goes, WatchTrue
  <2>8. QED
    BY <2>2, <2>7
<1>7. CASE s \in DeliverListed(w)
  <2>1. PICK n : n = Min(w.listing)
    OBVIOUS
  <2>2. n \in w.listing
    <3>1. w.listing \in SUBSET Nat /\ w.listing # {}
      BY <1>2, <1>7 DEF DeliverListed, Names
    <3>2. PICK x \in w.listing : \A y \in w.listing : x <= y
      BY <3>1, Least
    <3>3. QED
      BY <2>1, <3>2 DEF Min
  <2>3. PICK v : v = At(w.sent, n)
    OBVIOUS
  <2>4. v \in 0..w.sent
    <3>1. v = ValueIn(log, w.sent, n)
      BY <2>3 DEF At, ValueIn, ChangesIn
    <3>2. QED
      BY <1>1, <1>2, <3>1, ValueRange
  <2>5. PICK u, e : u = [w EXCEPT !.listing = @ \ {n}, !.rv = v] /\ e = Event("ADDED", n, v)
    OBVIOUS
  <2>6. s = [watch |-> u, event |-> e] /\ gap
    BY <1>7, <2>1, <2>3, <2>5 DEF DeliverListed, Step, WatchTrue
  <2>7. e.name = n /\ e.rv = v
    BY <2>5 DEF Event
  <2>8. /\ u \in Watches /\ u.stopped = w.stopped /\ u.sent <= Version /\ u.rv <= Version
        /\ v \in 0..MaxVersion /\ n \in Names
    <3>1. v \in 0..MaxVersion /\ v <= Version /\ n \in Names
      BY <1>1, <1>2, <2>2, <2>4
    <3>2. u \in Watches
      BY <2>5, <3>1 DEF Watches
    <3>3. u.stopped = w.stopped /\ u.sent = w.sent /\ u.rv = v
      BY <2>5 DEF Watches
    <3>4. QED
      BY <1>2, <3>1, <3>2, <3>3
  <2>9. Goes(w, gap, u, e)
    BY <2>6, <2>7, <2>8 DEF Goes, WatchTrue
  <2>10. QED
    BY <2>6, <2>9
<1>8. CASE s \in Bookmark(w)
  <2>1. PICK u, e : u = [w EXCEPT !.rv = w.sent] /\ e = Event("BOOKMARK", Nameless, w.sent)
    OBVIOUS
  <2>2. s = [watch |-> u, event |-> e] /\ w.open /\ w.listing = {}
    BY <1>8, <2>1 DEF Bookmark, Step
  <2>3. /\ u \in Watches /\ u.stopped = w.stopped /\ u.sent = w.sent /\ u.rv = w.sent
        /\ u.listing = {}
    BY <1>1, <1>2, <2>1, <2>2 DEF Watches
  <2>4. Goes(w, gap, u, e)
    BY <1>1, <1>2, <1>3, <2>1, <2>2, <2>3, QuietStep DEF WatchTrue
  <2>5. QED
    BY <2>2, <2>4
<1>9. CASE s \in End(w)
  <2>1. PICK u, e : u = Closed(w) /\ e = NoEvent
    OBVIOUS
  <2>2. s = [watch |-> u, event |-> e]
    BY <1>9, <2>1 DEF End, Step
  <2>3. /\ u \in Watches /\ u.stopped = w.stopped /\ u.sent = 0 /\ u.rv = w.rv
        /\ u.listing = {} /\ ~u.open
    <3>1. u = [w EXCEPT !.open = FALSE, !.sent = 0, !.listing = {}] /\ 0 \in 0..MaxVersion
      BY <1>1, <2>1 DEF Closed
    <3>2. u \in Watches
      BY <3>1 DEF Watches
    <3>3. QED
      BY <3>1, <3>2 DEF Watches
  <2>4. Goes(w, gap, u, e)
    BY <1>1, <1>2, <1>3, <2>1, <2>3, QuietStep DEF WatchTrue
  <2>5. QED
    BY <2>2, <2>4
<1>10. QED
  BY <1>4, <1>5, <1>6, <1>7, <1>8, <1>9 DEF Connecting, Delivering, Accidents
----------------------------------------------------------------------------
(* Steps of the hubs *)

SinceOf(p) == conns[stream[p]].since
SeenBy(p) == hubs[conns[stream[p]].hub].watch.rv

(* A page that stays live, or that is shown what its hub has seen.          *)
LEMMA Unmissed ==
  ASSUME TypeInv, NothingMissed, UNCHANGED log,
         \A p \in Pages : Live(p)' =>
           \/ SinceOf(p)' \in Int /\ SeenBy(p)' \in Int /\ SeenBy(p)' <= SinceOf(p)'
           \/ /\ Live(p) /\ items'[p] = items[p]
              /\ SinceOf(p)' = SinceOf(p) /\ SeenBy(p)' = SeenBy(p)
  PROVE  NothingMissed'
<1> SUFFICES ASSUME NEW p \in Pages, Live(p)', NEW n \in Visible[p], Changed(n)' > SinceOf(p)'
             PROVE  items'[p][n] = At(Version, n)' \/ SeenBy(p)' < Changed(n)'
  BY VisibleAssumption DEF NothingMissed, SinceOf, SeenBy
<1>1. Changed(n)' = Changed(n) /\ At(Version, n)' = At(Version, n)
  BY Readings
<1>2. Changed(n) \in Int
  <2>1. Changed(n) = LastIn(log, n) /\ log \in Seq(Entry)
    BY Readings DEF TypeInv
  <2>2. QED
    BY <2>1, LastChange
<1>3. CASE SinceOf(p)' \in Int /\ SeenBy(p)' \in Int /\ SeenBy(p)' <= SinceOf(p)'
  BY <1>1, <1>2, <1>3
<1>4. CASE /\ Live(p) /\ items'[p] = items[p]
           /\ SinceOf(p)' = SinceOf(p) /\ SeenBy(p)' = SeenBy(p)
  <2>1. Changed(n) > SinceOf(p)
    BY <1>1, <1>4
  <2>2. items[p][n] = At(Version, n) \/ SeenBy(p) < Changed(n)
    BY <1>4, <2>1 DEF NothingMissed, SinceOf, SeenBy
  <2>3. QED
    BY <1>1, <1>4, <2>2
<1>5. QED
  BY <1>3, <1>4

LEMMA LiveReader ==
  ASSUME TypeInv, SubscribersInv, NEW p \in Pages, Live(p)
  PROVE  /\ stream[p] \in DOMAIN conns /\ conns[stream[p]].hub \in DOMAIN hubs
         /\ stream[p] \in hubs[conns[stream[p]].hub].subscribers
         /\ \A h \in DOMAIN hubs : Reads(p, h) <=> conns[stream[p]].hub = h
BY DEF Live, TypeInv, SubscribersInv, Readers, Reads, None

LEMMA Constants == /\ 0 \in 0..MaxVersion /\ 0 \in 0..MaxHubs /\ MaxHubs \in Nat
                   /\ MaxVersion \in Nat /\ MaxConns \in Nat /\ None = 0
BY ObjectsAssumption, VisibleAssumption DEF None

LEMMA ClosedFacts ==
  /\ ClosedHub \in Hub /\ ClosedHub.subscribers = {} /\ ClosedHub.watch.stopped
  /\ ClosedHub.watch.sent = 0 /\ ClosedHub.watch.rv = 0
  /\ ClosedHub.watch.listing = {} /\ ~ClosedHub.watch.open
<1>1. /\ NoWatch \in Watches /\ NoWatch.stopped /\ NoWatch.sent = 0 /\ NoWatch.rv = 0
      /\ NoWatch.listing = {} /\ ~NoWatch.open
  BY Constants DEF NoWatch, NewWatch, Watches
<1>2. QED
  BY <1>1 DEF ClosedHub, Hub

LEMMA Types ==
  ASSUME TypeInv
  PROVE  /\ hubs \in Seq(Hub) /\ conns \in Seq(Conn) /\ log \in Seq(Entry)
         /\ Version \in 0..MaxVersion /\ Version \in Nat
<1>1. hubs \in Seq(Hub)
  BY DEF TypeInv, TypeOK, Hub
<1>2. conns \in Seq(Conn)
  BY DEF TypeInv, TypeOK, Conn, States
<1>3. QED
  BY <1>1, <1>2, Constants DEF TypeInv, Version

LEMMA Replaced ==
  ASSUME NEW S, NEW s \in Seq(S), NEW i \in DOMAIN s, NEW x \in S, NEW t,
         t = [s EXCEPT ![i] = x]
  PROVE  /\ t \in Seq(S) /\ Len(t) = Len(s) /\ DOMAIN t = DOMAIN s
         /\ \A j \in DOMAIN s : t[j] = IF j = i THEN x ELSE s[j]
OBVIOUS

LEMMA HubKeeps ==
  ASSUME ViewsInv, NEW h \in DOMAIN hubs, NEW steps, HubSteps(h, steps),
         steps \subseteq Connecting(hubs[h].watch) \cup Delivering(hubs[h].watch)
                           \cup Accidents(hubs[h].watch)
  PROVE  ViewsInv'
<1>1. PICK u, e, w, gap :
        /\ w = hubs[h].watch /\ gap = hubs[h].gap
        /\ items' = Relayed(h, e)
        /\ hubs' = [hubs EXCEPT ![h].watch = u, ![h].gap = @ \/ e = Expired]
        /\ \E s \in steps : u = s.watch /\ e = s.event
  BY DEF HubSteps
<1>2. UNCHANGED <<log, oldest, stream, conns, current>>
  BY DEF HubSteps, serverVars
<1>3. hubs \in Seq(Hub) /\ hubs[h] \in Hub /\ w \in Watches /\ gap \in BOOLEAN /\ WatchTrue(w, gap)
  <2>1. hubs \in Seq(Hub) /\ hubs[h] \in Hub
    BY Types DEF ViewsInv
  <2>2. w \in Watches /\ gap \in BOOLEAN
    BY <1>1, <2>1 DEF Hub
  <2>3. QED
    BY <1>1, <2>1, <2>2 DEF ViewsInv, WatchesInv
<1>4. Goes(w, gap, u, e)
  BY <1>1, <1>3, WatchSteps DEF ViewsInv
<1>5. PICK hub : hub = [hubs[h] EXCEPT !.watch = u, !.gap = gap \/ e = Expired]
  OBVIOUS
<1>6. /\ hub \in Hub /\ hub.subscribers = hubs[h].subscribers /\ hub.watch = u
      /\ hub.gap = (gap \/ e = Expired)
  BY <1>3, <1>4, <1>5 DEF Hub, Goes
<1>7. hubs' = [hubs EXCEPT ![h] = hub]
  BY <1>1, <1>3, <1>5
<1>8. /\ hubs' \in Seq(Hub) /\ Len(hubs') = Len(hubs) /\ DOMAIN hubs' = DOMAIN hubs
      /\ hubs'[h] = hub /\ \A g \in DOMAIN hubs : g # h => hubs'[g] = hubs[g]
  BY <1>3, <1>6, <1>7
<1>9. TypeInv'
  <2>1. items' \in [Pages -> [Names -> 0..MaxVersion]]
    <3>1. CASE e.type \in Telling
      BY <1>1, <1>4, <3>1, Constants DEF Goes, Relayed, Absent, ViewsInv, TypeInv, TypeOK
    <3>2. CASE e.type \notin Telling
      BY <1>1, <3>2 DEF Relayed, Telling, ViewsInv, TypeInv, TypeOK
    <3>3. QED
      BY <3>1, <3>2
  <2>2. QED
    BY <1>2, <1>8, <2>1 DEF ViewsInv, TypeInv, TypeOK, Version, Hub, Conn, States, Entry
<1>10. WatchesInv'
  <2>1. WatchTrue(u, gap \/ e = Expired)'
    BY <1>2, <1>4 DEF Goes, WatchTrue, Version
  <2>2. QED
    BY <1>2, <1>6, <1>8, <2>1 DEF ViewsInv, WatchesInv, WatchTrue, Version
<1>11. SubscribersInv'
  <2>1. \A g \in DOMAIN hubs : /\ hubs'[g].subscribers = hubs[g].subscribers
                               /\ Running(g)' <=> Running(g)
    BY <1>1, <1>4, <1>6, <1>8 DEF Running, Goes
  <2>2. \A g : Readers(g)' = Readers(g)
    BY <1>2 DEF Readers
  <2>3. current # None => current \in DOMAIN hubs
    BY <1>3 DEF ViewsInv, TypeInv, TypeOK, None
  <2>4. QED
    BY <1>2, <1>8, <2>1, <2>2, <2>3 DEF ViewsInv, SubscribersInv, Version
<1>12. NothingMissed'
  <2> SUFFICES ASSUME NEW p \in Pages, Live(p)', NEW n \in Visible[p],
                      Changed(n)' > SinceOf(p)'
               PROVE  items'[p][n] = At(Version, n)' \/ SeenBy(p)' < Changed(n)'
    BY VisibleAssumption DEF NothingMissed, SinceOf, SeenBy
  <2>1. Live(p) /\ SinceOf(p)' = SinceOf(p)
    <3>1. PICK g : g = conns[stream[p]].hub
      OBVIOUS
    <3>2. /\ stream[p] # None /\ conns[stream[p]].state = "subscribed"
          /\ ~hubs'[g].gap
      BY <1>2, <3>1 DEF Live
    <3>3. stream[p] \in DOMAIN conns
      BY <3>2, Types DEF ViewsInv, TypeInv, None
    <3>4. g \in DOMAIN hubs
      BY <3>1, <3>2, <3>3 DEF ViewsInv, SubscribersInv
    <3>5. ~hubs[g].gap
      BY <1>1, <1>6, <1>8, <3>2, <3>4
    <3>6. QED
      BY <1>2, <3>1, <3>2, <3>5 DEF Live, SinceOf
  <2>2. Changed(n)' = Changed(n) /\ At(Version, n)' = At(Version, n)
    BY <1>2, Readings
  <2>3. items[p][n] = At(Version, n) \/ SeenBy(p) < Changed(n)
    BY <2>1, <2>2 DEF ViewsInv, NothingMissed, SinceOf, SeenBy
  <2>4. PICK g \in DOMAIN hubs : g = conns[stream[p]].hub
    BY <2>1, LiveReader DEF ViewsInv
  <2>5. CASE g # h
    <3>1. items'[p] = items[p]
      BY <1>1, <2>1, <2>4, <2>5, LiveReader DEF Relayed, ViewsInv, TypeInv, TypeOK
    <3>2. SeenBy(p)' = SeenBy(p)
      BY <1>2, <1>8, <2>4, <2>5 DEF SeenBy
    <3>3. QED
      BY <2>2, <2>3, <3>1, <3>2
  <2>6. CASE g = h
    <3>1. ~gap /\ e # Expired
      BY <1>1, <1>2, <1>6, <1>8, <2>4, <2>6 DEF Live
    <3>2. SeenBy(p) = w.rv /\ SeenBy(p)' = u.rv
      BY <1>1, <1>2, <1>6, <1>8, <2>4, <2>6 DEF SeenBy
    <3>3. CASE u.rv = w.rv /\ e.type \notin Telling
      BY <1>1, <2>2, <2>3, <3>2, <3>3 DEF Relayed, Telling
    <3>4. CASE /\ w.rv + 1 \in 1..Version /\ u.rv = w.rv + 1
               /\ e = ChangeEvent(w.rv + 1)
      <4>1. PICK v : v = w.rv + 1 /\ v \in 1..Version /\ w.rv \in Int
        BY <1>3, <3>4 DEF Watches, Unknown
      <4>2. PICK m : m = log[v].name /\ m \in Names
        <5>1. log[v] \in Entry
          BY <4>1, Types DEF ViewsInv, Version
        <5>2. QED
          BY <5>1 DEF Entry
      <4>3. /\ Changed(n) \in 0..Version
            /\ m = n => v <= Changed(n)
            /\ Changed(n) # 0 => log[Changed(n)].name = n
            /\ At(Version, n) =
                 IF Changed(n) = 0 \/ log[Changed(n)].deleted THEN Absent ELSE Changed(n)
        <5>1. log \in Seq(Entry)
          BY DEF ViewsInv, TypeInv
        <5>2. QED
          BY <4>1, <4>2, <5>1, Readings, LastChange DEF Version
      <4>4. items'[p] = IF m \in Visible[p]
                        THEN [items[p] EXCEPT ![m] = IF log[v].deleted THEN Absent ELSE v]
                        ELSE items[p]
        <5>1. /\ e.name = m /\ e.rv = v /\ e.type \in Telling
              /\ e.type = "DELETED" <=> log[v].deleted
          BY <3>4, <4>1, <4>2 DEF ChangeEvent, Event, Telling
        <5>2. Reads(p, h)
          BY <2>1, <2>4, <2>6, LiveReader DEF ViewsInv
        <5>3. QED
          BY <1>1, <5>1, <5>2 DEF Relayed, Telling
      <4>5. items[p] \in [Names -> 0..MaxVersion] /\ Visible[p] \subseteq Names
        BY VisibleAssumption DEF ViewsInv, TypeInv, TypeOK
      <4>6. CASE Changed(n) = v
        BY <2>2, <4>1, <4>2, <4>3, <4>4, <4>5, <4>6
      <4>7. CASE Changed(n) < v
        <5>1. n # m /\ items'[p][n] = items[p][n]
          BY <4>1, <4>3, <4>4, <4>5, <4>7
        <5>2. ~(SeenBy(p) < Changed(n))
          BY <3>2, <4>1, <4>3, <4>7
        <5>3. QED
          BY <2>2, <2>3, <5>1, <5>2
      <4>8. CASE Changed(n) > v
        BY <2>2, <3>2, <3>4, <4>1, <4>8
      <4>9. QED
        BY <4>1, <4>3, <4>6, <4>7, <4>8
    <3>5. QED
      BY <1>4, <3>1, <3>3, <3>4 DEF Goes
  <2>7. QED
    BY <2>5, <2>6
<1>13. QED
  BY <1>9, <1>10, <1>11, <1>12 DEF ViewsInv
----------------------------------------------------------------------------
(* Steps of the server, of pages and of connections *)

LEMMA ServerKeeps ==
  ASSUME ViewsInv, Change \/ Compact, UNCHANGED <<pageVars, hubVars>>
  PROVE  ViewsInv'
<1>1. UNCHANGED <<items, stream, conns, hubs, current>>
  BY DEF pageVars, hubVars
<1>2. CASE Compact
  <2>1. UNCHANGED log /\ oldest' \in 0..Version
    BY <1>2, Types DEF Compact, ViewsInv
  <2>2. TypeInv'
    BY <1>1, <2>1 DEF ViewsInv, TypeInv, TypeOK, Version
  <2>3. WatchesInv' /\ SubscribersInv'
    BY <1>1, <2>1
       DEF ViewsInv, WatchesInv, WatchTrue, SubscribersInv, Readers, Running, Version
  <2>4. NothingMissed'
    BY <1>1, <2>1, Unmissed DEF ViewsInv, Live, SinceOf, SeenBy
  <2>5. QED
    BY <2>2, <2>3, <2>4 DEF ViewsInv
<1>3. CASE Change
  <2>1. PICK e \in Entry : log' = Append(log, e) /\ Version < MaxVersion /\ UNCHANGED oldest
    BY <1>3 DEF Change, Entry
  <2>2. /\ log' \in Seq(Entry) /\ Version' = Version + 1 /\ Version \in Nat
        /\ Version' <= MaxVersion /\ oldest' \in 0..Version'
    BY <2>1, Types, Constants DEF ViewsInv, TypeInv, Version
  <2>3. TypeInv'
    BY <1>1, <2>2 DEF ViewsInv, TypeInv, TypeOK
  <2>4. WatchesInv'
    <3>1. ASSUME NEW h \in DOMAIN hubs PROVE WatchTrue(hubs[h].watch, hubs[h].gap)'
      <4>1. PICK w, gap : w = hubs[h].watch /\ gap = hubs[h].gap /\ WatchTrue(w, gap)
        BY DEF ViewsInv, WatchesInv
      <4>2. w.sent \in Int /\ w.rv \in Int
        <5>1. hubs[h] \in Hub
          BY Types DEF ViewsInv
        <5>2. w \in Watches
          BY <4>1, <5>1 DEF Hub
        <5>3. QED
          BY <5>2, Constants DEF Watches, Unknown
      <4>3. WatchTrue(w, gap)'
        BY <2>2, <4>1, <4>2 DEF WatchTrue
      <4>4. QED
        BY <1>1, <4>1, <4>3
    <3>2. QED
      BY <1>1, <3>1 DEF WatchesInv
  <2>5. SubscribersInv'
    BY <1>1, <2>2 DEF ViewsInv, SubscribersInv, Readers, Running
  <2>6. NothingMissed'
    <3> SUFFICES ASSUME NEW p \in Pages, Live(p), NEW n \in Visible[p],
                        Changed(n)' > SinceOf(p)
                 PROVE  items[p][n] = At(Version, n)' \/ SeenBy(p) < Changed(n)'
      BY <1>1, VisibleAssumption DEF NothingMissed, SinceOf, SeenBy, Live
    <3>0. Moved(log, log', e, n)
      <4>1. log \in Seq(Entry) /\ log' = Append(log, e)
        BY <2>1, Types DEF ViewsInv
      <4>2. QED
        BY <4>1, ChangeMoves, Zenon
    <3>1. CASE e.name = n
      <4>1. Changed(n)' = Version + 1
        <5>1. LastIn(log', n) = Len(log) + 1
          BY <3>0, <3>1 DEF Moved
        <5>2. QED
          BY <5>1, Readings DEF Version
      <4>2. SeenBy(p) \in Int /\ SeenBy(p) <= Version
        <5>1. PICK g \in DOMAIN hubs : g = conns[stream[p]].hub
          BY LiveReader DEF ViewsInv
        <5>2. hubs[g] \in Hub
          BY Types DEF ViewsInv
        <5>3. hubs[g].watch \in Watches
          BY <5>2 DEF Hub
        <5>4. hubs[g].watch.rv \in Int
          BY <5>3, Constants DEF Watches, Unknown
        <5>5. QED
          BY <5>1, <5>4 DEF ViewsInv, WatchesInv, WatchTrue, SeenBy
      <4>3. QED
        BY <2>2, <4>1, <4>2
    <3>2. CASE e.name # n
      <4>1. Changed(n)' = Changed(n) /\ At(Version, n)' = At(Version, n)
        <5>1. /\ LastIn(log', n) = LastIn(log, n)
              /\ ValueIn(log', Len(log'), n) = ValueIn(log, Len(log), n)
          BY <3>0, <3>2 DEF Moved
        <5>2. QED
          BY <5>1, Readings
      <4>2. QED
        BY <4>1 DEF ViewsInv, NothingMissed, SinceOf, SeenBy
    <3>3. QED
      BY <3>1, <3>2
  <2>7. QED
    BY <2>3, <2>4, <2>5, <2>6 DEF ViewsInv
<1>4. QED
  BY <1>2, <1>3

(* A page that gives its connection up tells the server so, some time.      *)
LEMMA AbortFacts ==
  ASSUME TypeInv, NEW c \in 0..Len(conns), NEW all, all = Abort(c)
  PROVE  /\ all \in Seq(Conn) /\ Len(all) = Len(conns) /\ DOMAIN all = DOMAIN conns
         /\ \A i \in DOMAIN conns : /\ all[i].state = conns[i].state /\ all[i].hub = conns[i].hub
                                    /\ all[i].since = conns[i].since
<1>1. conns \in Seq(Conn)
  BY Types
<1>2. CASE all = conns
  BY <1>1, <1>2
<1>3. CASE c \in DOMAIN conns /\ all = [conns EXCEPT ![c].aborted = TRUE]
  <2>1. PICK k : k = [conns[c] EXCEPT !.aborted = TRUE]
    OBVIOUS
  <2>2. conns[c] \in Conn
    BY <1>1, <1>3
  <2>3. /\ k \in Conn /\ k.state = conns[c].state /\ k.hub = conns[c].hub
        /\ k.since = conns[c].since
    BY <2>1, <2>2 DEF Conn
  <2>4. all = [conns EXCEPT ![c] = k]
    BY <1>3, <2>1
  <2>5. /\ all \in Seq(Conn) /\ Len(all) = Len(conns) /\ DOMAIN all = DOMAIN conns
        /\ \A i \in DOMAIN conns : all[i] = IF i = c THEN k ELSE conns[i]
    BY <1>1, <1>3, <2>3, <2>4, Replaced
  <2>6. QED
    BY <2>3, <2>5
<1>4. QED
  BY <1>1, <1>2, <1>3 DEF Abort, None

(* Connections that are aborted or requested change nothing else.           *)
LEMMA ConnsKeep ==
  ASSUME ViewsInv, UNCHANGED <<serverVars, hubs, current>>,
         items' \in [Pages -> [Names -> 0..MaxVersion]],
         conns' \in Seq(Conn), Len(conns') <= MaxConns, DOMAIN conns \subseteq DOMAIN conns',
         stream' \in [Pages -> 0..Len(conns')],
         \A i \in DOMAIN conns :
           /\ conns'[i].state = conns[i].state /\ conns'[i].hub = conns[i].hub
           /\ conns'[i].since = conns[i].since,
         \A i \in DOMAIN conns' \ DOMAIN conns : conns'[i].state = "requested",
         \A p \in Pages : \/ stream'[p] = stream[p] /\ items'[p] = items[p]
                          \/ stream'[p] \notin DOMAIN conns
  PROVE  ViewsInv'
<1>1. UNCHANGED <<log, oldest>>
  BY DEF serverVars
<1>2. TypeInv'
  <2>1. stream' \in [Pages -> 0..MaxConns]
    BY Constants DEF ViewsInv, TypeInv
  <2>2. QED
    BY <1>1, <2>1 DEF ViewsInv, TypeInv, TypeOK, Version, Conn, States
<1>3. WatchesInv'
  BY <1>1 DEF ViewsInv, WatchesInv, WatchTrue, Version
<1>4. SubscribersInv'
  <2>1. \A h : Readers(h)' = Readers(h)
    BY DEF Readers
  <2>2. \A c \in DOMAIN conns' :
          /\ conns'[c].state \in {"subscribed", "cancelling"} => conns'[c].hub \in DOMAIN hubs
          /\ conns'[c].state = "listing" => conns'[c].since \in 0..Version
    BY DEF ViewsInv, SubscribersInv
  <2>3. QED
    BY <1>1, <2>1, <2>2 DEF ViewsInv, SubscribersInv, Running, Version
<1>5. NothingMissed'
  <2>1. ASSUME NEW p \in Pages, Live(p)'
        PROVE  /\ Live(p) /\ items'[p] = items[p]
               /\ SinceOf(p)' = SinceOf(p) /\ SeenBy(p)' = SeenBy(p)
    <3>1. stream'[p] \in DOMAIN conns'
      BY <2>1, Types DEF Live, None
    <3>2. stream'[p] \in DOMAIN conns /\ stream'[p] = stream[p] /\ items'[p] = items[p]
      BY <2>1, <3>1 DEF Live
    <3>3. QED
      BY <2>1, <3>2 DEF Live, SinceOf, SeenBy
  <2>2. QED
    BY <1>1, <2>1, Unmissed DEF ViewsInv
<1>6. QED
  BY <1>2, <1>3, <1>4, <1>5 DEF ViewsInv

LEMMA PageKeeps ==
  ASSUME ViewsInv, NEW p \in Pages, TakeList(p) \/ Leave(p)
  PROVE  ViewsInv'
<1>1. PICK all : all = Abort(stream[p])
  OBVIOUS
<1>2. stream \in [Pages -> 0..Len(conns)] /\ conns \in Seq(Conn) /\ Len(conns) \in Nat
  BY Types DEF ViewsInv, TypeInv
<1>3. /\ all \in Seq(Conn) /\ Len(all) = Len(conns) /\ DOMAIN all = DOMAIN conns
      /\ \A i \in DOMAIN conns : /\ all[i].state = conns[i].state /\ all[i].hub = conns[i].hub
                                 /\ all[i].since = conns[i].since
  BY <1>1, <1>2, AbortFacts DEF ViewsInv
<1>4. CASE TakeList(p)
  <2>1. NewConn \in Conn /\ NewConn.state = "requested"
    BY Constants DEF NewConn, Conn, States
  <2>2. PICK v \in 0..Version : items' = [items EXCEPT ![p] = Shown(p, v)]
    BY <1>4 DEF TakeList
  <2>3. Shown(p, v) \in [Names -> 0..MaxVersion]
    <3>1. \A n : At(v, n) \in 0..v
      <4>1. \A n : At(v, n) = ValueIn(log, v, n)
        BY DEF At, ValueIn, ChangesIn
      <4>2. v \in Nat
        BY <2>2, Types DEF ViewsInv
      <4>3. QED
        BY <4>1, <4>2, ValueRange
    <3>2. \A n : At(v, n) \in 0..MaxVersion
      BY <2>2, <3>1, Types, Constants DEF ViewsInv
    <3>3. QED
      BY <3>2, Constants DEF Shown, Absent
  <2>4. items' \in [Pages -> [Names -> 0..MaxVersion]]
    BY <2>2, <2>3 DEF ViewsInv, TypeInv, TypeOK
  <2>5. /\ conns' = Append(all, NewConn) /\ Len(conns) < MaxConns
        /\ stream' = [stream EXCEPT ![p] = Len(conns) + 1]
        /\ UNCHANGED <<serverVars, hubs, current>>
    BY <1>1, <1>4 DEF TakeList
  <2>6. /\ conns' \in Seq(Conn) /\ Len(conns') = Len(conns) + 1 /\ Len(conns') <= MaxConns
        /\ DOMAIN conns = 1..Len(conns) /\ DOMAIN conns' = 1..(Len(conns) + 1)
        /\ \A i \in DOMAIN conns : conns'[i] = all[i]
        /\ conns'[Len(conns) + 1] = NewConn
    BY <1>2, <1>3, <2>1, <2>5, Constants
  <2>7. /\ stream' \in [Pages -> 0..Len(conns')] /\ DOMAIN conns \subseteq DOMAIN conns'
        /\ \A q \in Pages : \/ stream'[q] = stream[q] /\ items'[q] = items[q]
                            \/ stream'[q] \notin DOMAIN conns
    BY <1>2, <2>2, <2>5, <2>6 DEF ViewsInv, TypeInv, TypeOK
  <2>8. /\ \A i \in DOMAIN conns :
             /\ conns'[i].state = conns[i].state /\ conns'[i].hub = conns[i].hub
             /\ conns'[i].since = conns[i].since
        /\ \A i \in DOMAIN conns' \ DOMAIN conns : conns'[i].state = "requested"
    BY <1>2, <1>3, <2>1, <2>6
  <2>9. QED
    BY <2>4, <2>5, <2>6, <2>7, <2>8, ConnsKeep
<1>5. CASE Leave(p)
  <2>1. /\ conns' = all /\ stream' = [stream EXCEPT ![p] = None]
        /\ UNCHANGED <<serverVars, items, hubs, current>>
    BY <1>1, <1>5 DEF Leave
  <2>2. /\ stream' \in [Pages -> 0..Len(conns')]
        /\ \A q \in Pages : stream'[q] = stream[q] \/ stream'[q] \notin DOMAIN conns
        /\ Len(conns') <= MaxConns /\ DOMAIN conns \subseteq DOMAIN conns'
    BY <1>2, <1>3, <2>1, Constants DEF ViewsInv, TypeInv
  <2>3. items' \in [Pages -> [Names -> 0..MaxVersion]]
    BY <2>1 DEF ViewsInv, TypeInv, TypeOK
  <2>4. QED
    BY <1>3, <2>1, <2>2, <2>3, ConnsKeep
<1>6. QED
  BY <1>4, <1>5
(* It is enough to look at the connection that moves, and at the hubs.      *)
HubsFollow(c, k) ==
  /\ conns' = [conns EXCEPT ![c] = k]
  /\ hubs' \in Seq(Hub) /\ Len(hubs') <= MaxHubs /\ DOMAIN hubs \subseteq DOMAIN hubs'
  /\ current' \in 0..Len(hubs') /\ (current' # None => Running(current)')
  /\ WatchesInv'
  /\ k.state \in {"subscribed", "cancelling"} => k.hub \in DOMAIN hubs'
  /\ k.state = "listing" => k.since \in 0..Version
  /\ k.state = "subscribed" => hubs'[k.hub].watch.rv = k.since
  /\ \A h \in DOMAIN hubs' :
       /\ hubs'[h].subscribers =
            (IF h \in DOMAIN hubs THEN hubs[h].subscribers \ {c} ELSE {})
            \cup (IF k.state = "subscribed" /\ k.hub = h THEN {c} ELSE {})
       /\ Running(h)' <=> hubs'[h].subscribers # {}
  /\ \A h \in DOMAIN hubs : hubs[h].subscribers \ {c} # {} =>
       hubs'[h].watch = hubs[h].watch /\ hubs'[h].gap = hubs[h].gap

LEMMA ConnMoves ==
  ASSUME ViewsInv, UNCHANGED <<serverVars, pageVars>>,
         NEW c \in DOMAIN conns, NEW k \in Conn, HubsFollow(c, k)
  PROVE  ViewsInv'
<1> USE DEF HubsFollow
<1>1. UNCHANGED <<log, oldest, items, stream>>
  BY DEF serverVars, pageVars
<1>2. /\ conns' \in Seq(Conn) /\ Len(conns') = Len(conns) /\ DOMAIN conns' = DOMAIN conns
      /\ \A i \in DOMAIN conns : conns'[i] = IF i = c THEN k ELSE conns[i]
  BY Types, Replaced DEF ViewsInv
<1>3. TypeInv'
  BY <1>1, <1>2 DEF ViewsInv, TypeInv, TypeOK, Version, Conn, Hub, States
<1>4. \A h : Readers(h)' = (Readers(h) \ {c})
                \cup (IF k.state = "subscribed" /\ k.hub = h THEN {c} ELSE {})
  BY <1>2 DEF Readers
<1>5. \A h \in DOMAIN hubs' \ DOMAIN hubs : Readers(h) = {}
  BY DEF Readers, ViewsInv, SubscribersInv
<1>6. SubscribersInv'
  <2>1. \A h \in DOMAIN hubs' : hubs'[h].subscribers = Readers(h)'
    BY <1>4, <1>5 DEF ViewsInv, SubscribersInv
  <2>2. \A i \in DOMAIN conns' :
          /\ conns'[i].state \in {"subscribed", "cancelling"} => conns'[i].hub \in DOMAIN hubs'
          /\ conns'[i].state = "listing" => conns'[i].since \in 0..Version
    BY <1>2 DEF ViewsInv, SubscribersInv
  <2>3. QED
    BY <1>1, <2>1, <2>2 DEF SubscribersInv, Version
<1>7. NothingMissed'
  <2>1. ASSUME NEW p \in Pages, Live(p)', stream[p] = c
        PROVE  SinceOf(p)' \in Int /\ SeenBy(p)' \in Int /\ SeenBy(p)' <= SinceOf(p)'
    <3>1. k.state = "subscribed"
      BY <1>1, <1>2, <2>1 DEF Live
    <3>2. SinceOf(p)' = k.since /\ SeenBy(p)' = k.since
      BY <1>1, <1>2, <2>1, <3>1 DEF SinceOf, SeenBy
    <3>3. k.since \in Int
      BY Constants DEF Conn, Unknown
    <3>4. QED
      BY <3>2, <3>3
  <2>2. ASSUME NEW p \in Pages, Live(p)', stream[p] # c
        PROVE  /\ Live(p) /\ items'[p] = items[p]
               /\ SinceOf(p)' = SinceOf(p) /\ SeenBy(p)' = SeenBy(p)
    <3>1. /\ stream[p] # None /\ conns'[stream[p]].state = "subscribed"
          /\ ~hubs'[conns'[stream[p]].hub].gap
      BY <1>1, <2>2 DEF Live
    <3>2. stream[p] \in DOMAIN conns
      BY <3>1, Types DEF ViewsInv, TypeInv, None
    <3>3. conns'[stream[p]] = conns[stream[p]]
      BY <1>2, <2>2, <3>2
    <3>4. PICK g \in DOMAIN hubs : g = conns[stream[p]].hub
      BY <3>1, <3>2, <3>3 DEF ViewsInv, SubscribersInv
    <3>5. stream[p] \in hubs[g].subscribers
      BY <3>1, <3>2, <3>3, <3>4 DEF ViewsInv, SubscribersInv, Readers
    <3>6. hubs'[g].watch = hubs[g].watch /\ hubs'[g].gap = hubs[g].gap
      BY <2>2, <3>5
    <3>7. QED
      BY <1>1, <3>1, <3>3, <3>4, <3>6 DEF Live, SinceOf, SeenBy
  <2>3. QED
    BY <1>1, <2>1, <2>2, Unmissed DEF ViewsInv
<1>8. QED
  BY <1>3, <1>6, <1>7 DEF ViewsInv

(* Its subscriber is taken from a hub, which is closed with the last one.   *)
LEMMA UnsubscribeKeeps ==
  ASSUME ViewsInv, UNCHANGED <<serverVars, pageVars>>,
         NEW c \in DOMAIN conns, conns[c].state \in {"subscribed", "cancelling"}, Unsubscribe(c),
         NEW k \in Conn, conns' = [conns EXCEPT ![c] = k],
         k.state \notin {"subscribed", "listing"},
         k.state = "cancelling" => k.hub \in DOMAIN hubs
  PROVE  ViewsInv'
<1>1. PICK h \in DOMAIN hubs : h = conns[c].hub
  BY DEF ViewsInv, SubscribersInv
<1>2. hubs \in Seq(Hub) /\ hubs[h] \in Hub
  BY Types DEF ViewsInv
<1>3. hubs' = Without(h, c) /\ current' = IF hubs[h].subscribers \subseteq {c} THEN None ELSE current
  BY <1>1 DEF Unsubscribe
<1>4. PICK hub \in Hub :
        /\ hubs' = [hubs EXCEPT ![h] = hub] /\ hub.subscribers = hubs[h].subscribers \ {c}
        /\ \/ hub = ClosedHub /\ hub.subscribers = {}
           \/ hub.watch = hubs[h].watch /\ hub.gap = hubs[h].gap /\ hub.subscribers # {}
  <2>1. CASE hubs[h].subscribers \subseteq {c}
    BY <1>3, <2>1, ClosedFacts DEF Without
  <2>2. CASE ~(hubs[h].subscribers \subseteq {c})
    <3>1. PICK hub : hub = [hubs[h] EXCEPT !.subscribers = @ \ {c}]
      OBVIOUS
    <3>2. /\ hub \in Hub /\ hub.subscribers = hubs[h].subscribers \ {c}
          /\ hub.watch = hubs[h].watch /\ hub.gap = hubs[h].gap
      BY <1>2, <3>1 DEF Hub
    <3>3. hubs' = [hubs EXCEPT ![h] = hub]
      BY <1>3, <2>2, <3>1 DEF Without
    <3>4. QED
      BY <2>2, <3>2, <3>3
  <2>3. QED
    BY <2>1, <2>2
<1>5. /\ hubs' \in Seq(Hub) /\ Len(hubs') = Len(hubs) /\ DOMAIN hubs' = DOMAIN hubs
      /\ \A g \in DOMAIN hubs : hubs'[g] = IF g = h THEN hub ELSE hubs[g]
  BY <1>2, <1>4, Replaced
<1>6. \A g \in DOMAIN hubs :
        /\ g # h => c \notin hubs[g].subscribers
        /\ Running(g) <=> hubs[g].subscribers # {}
  BY <1>1 DEF ViewsInv, SubscribersInv, Readers
<1>7. \A g \in DOMAIN hubs' :
        /\ hubs'[g].subscribers = hubs[g].subscribers \ {c}
        /\ Running(g)' <=> hubs'[g].subscribers # {}
        /\ hubs[g].subscribers \ {c} # {} =>
             hubs'[g].watch = hubs[g].watch /\ hubs'[g].gap = hubs[g].gap
  BY <1>4, <1>5, <1>6, ClosedFacts DEF Running
<1>8. current' \in 0..Len(hubs') /\ (current' # None => Running(current)')
  <2>1. current \in 0..Len(hubs) /\ DOMAIN hubs = 1..Len(hubs) /\ Len(hubs) \in Nat
        /\ (current # None => Running(current))
    BY <1>2 DEF ViewsInv, TypeInv, TypeOK, SubscribersInv
  <2>2. ASSUME current' # None PROVE current' = current /\ hubs[h].subscribers \ {c} # {}
    BY <1>3, <2>2
  <2>3. ASSUME current' # None PROVE Running(current)'
    <3>1. current \in DOMAIN hubs /\ hubs[current].subscribers # {}
      BY <1>6, <2>1, <2>2, <2>3 DEF None
    <3>2. hubs[current].subscribers \ {c} # {}
      BY <1>6, <2>2, <2>3, <3>1
    <3>3. QED
      BY <1>5, <1>7, <2>2, <2>3, <3>1, <3>2
  <2>4. QED
    BY <1>3, <1>5, <2>1, <2>3 DEF None
<1>9. WatchesInv'
  <2>1. UNCHANGED log
    BY DEF serverVars
  <2>2. WatchTrue(ClosedHub.watch, FALSE)
    BY ClosedFacts, Types DEF WatchTrue, Unknown, ViewsInv
  <2>3. ClosedHub.gap = FALSE
    BY DEF ClosedHub
  <2>4. \A g \in DOMAIN hubs : WatchTrue(hubs'[g].watch, hubs'[g].gap)
    BY <1>4, <1>5, <2>2, <2>3 DEF ViewsInv, WatchesInv
  <2>5. QED
    BY <1>5, <2>1, <2>4 DEF WatchesInv, WatchTrue, Version
<1>10. Len(hubs') <= MaxHubs
  BY <1>5 DEF ViewsInv, TypeInv
<1>11. \A g \in DOMAIN hubs' :
         /\ hubs'[g].subscribers =
              (IF g \in DOMAIN hubs THEN hubs[g].subscribers \ {c} ELSE {})
              \cup (IF k.state = "subscribed" /\ k.hub = g THEN {c} ELSE {})
         /\ Running(g)' <=> hubs'[g].subscribers # {}
  BY <1>5, <1>7
<1>12. \A g \in DOMAIN hubs : hubs[g].subscribers \ {c} # {} =>
         hubs'[g].watch = hubs[g].watch /\ hubs'[g].gap = hubs[g].gap
  BY <1>5, <1>7
<1>13. HubsFollow(c, k)
  BY <1>5, <1>8, <1>9, <1>10, <1>11, <1>12 DEF HubsFollow
<1>14. QED
  BY <1>13, ConnMoves

LEMMA DisconnectKeeps ==
  ASSUME ViewsInv, NEW c \in DOMAIN conns, Disconnect(c) \/ Cancel(c)
  PROVE  ViewsInv'
<1>1. UNCHANGED <<serverVars, pageVars>> /\ conns \in Seq(Conn) /\ conns[c] \in Conn
  BY Types DEF Disconnect, Cancel, ViewsInv
<1>2. CASE Cancel(c)
  <2>1. Over \in Conn /\ Over.state = "over"
    BY Constants DEF Over, NewConn, Conn, States
  <2>2. conns' = [conns EXCEPT ![c] = Over] /\ Unsubscribe(c) /\ conns[c].state = "cancelling"
    BY <1>2 DEF Cancel
  <2>3. QED
    BY <1>1, <2>1, <2>2, UnsubscribeKeeps
<1>3. CASE Disconnect(c) /\ conns[c].state = "subscribed"
  <2>1. PICK k : k = [conns[c] EXCEPT !.state = "cancelling", !.since = 0]
    OBVIOUS
  <2>2. k \in Conn /\ k.state = "cancelling" /\ k.hub = conns[c].hub
    BY <1>1, <2>1, Constants DEF Conn, States
  <2>3. conns' = [conns EXCEPT ![c] = k] /\ Unsubscribe(c)
    BY <1>1, <1>3, <2>1 DEF Disconnect
  <2>4. k.hub \in DOMAIN hubs
    BY <1>3, <2>2 DEF ViewsInv, SubscribersInv
  <2>5. QED
    BY <1>1, <1>3, <2>2, <2>3, <2>4, UnsubscribeKeeps
<1>4. CASE Disconnect(c) /\ conns[c].state # "subscribed"
  <2>1. PICK k : k = [conns[c] EXCEPT !.gone = TRUE]
    OBVIOUS
  <2>2. /\ k \in Conn /\ k.state = conns[c].state /\ k.hub = conns[c].hub
        /\ k.since = conns[c].since
    BY <1>1, <2>1 DEF Conn
  <2>3. conns' = [conns EXCEPT ![c] = k] /\ UNCHANGED <<hubs, current>>
    BY <1>1, <1>4, <2>1 DEF Disconnect
  <2>4. /\ conns' \in Seq(Conn) /\ Len(conns') = Len(conns) /\ DOMAIN conns' = DOMAIN conns
        /\ \A i \in DOMAIN conns : conns'[i] = IF i = c THEN k ELSE conns[i]
    BY <1>1, <2>2, <2>3, Replaced
  <2>5. /\ Len(conns') <= MaxConns /\ stream' \in [Pages -> 0..Len(conns')]
        /\ items' \in [Pages -> [Names -> 0..MaxVersion]]
        /\ UNCHANGED <<stream, items>>
    BY <1>1, <2>4 DEF pageVars, ViewsInv, TypeInv, TypeOK
  <2>6. \A i \in DOMAIN conns :
          /\ conns'[i].state = conns[i].state /\ conns'[i].hub = conns[i].hub
          /\ conns'[i].since = conns[i].since
    BY <2>2, <2>4
  <2>7. QED
    BY <1>1, <2>3, <2>4, <2>5, <2>6, ConnsKeep
<1>5. QED
  BY <1>2, <1>3, <1>4
LEMMA RequestKeeps ==
  ASSUME ViewsInv, NEW c \in DOMAIN conns, Request(c)
  PROVE  ViewsInv'
<1>1. /\ UNCHANGED <<serverVars, pageVars>> /\ conns \in Seq(Conn) /\ conns[c] \in Conn
      /\ hubs \in Seq(Hub) /\ conns[c].state = "requested" /\ UNCHANGED <<log, current>>
  BY Types DEF Request, serverVars, ViewsInv
<1>2. \A h \in DOMAIN hubs : c \notin hubs[h].subscribers
  BY <1>1 DEF ViewsInv, SubscribersInv, Readers
<1>3. /\ current \in 0..Len(hubs) /\ DOMAIN hubs = 1..Len(hubs) /\ Len(hubs) \in Nat
      /\ Len(hubs) <= MaxHubs
      /\ \A h \in DOMAIN hubs : Running(h) <=> hubs[h].subscribers # {}
      /\ (current # None => Running(current))
  BY <1>1 DEF ViewsInv, TypeInv, TypeOK, SubscribersInv
<1>4. ASSUME NEW k \in Conn, k.state \in {"over", "listing"},
             k.state = "listing" => k.since \in 0..Version,
             conns' = [conns EXCEPT ![c] = k], UNCHANGED hubs
      PROVE  ViewsInv'
  <2>1. \A h \in DOMAIN hubs' :
          /\ hubs'[h].subscribers =
               (IF h \in DOMAIN hubs THEN hubs[h].subscribers \ {c} ELSE {})
               \cup (IF k.state = "subscribed" /\ k.hub = h THEN {c} ELSE {})
          /\ Running(h)' <=> hubs'[h].subscribers # {}
    BY <1>2, <1>3, <1>4 DEF Running
  <2>2. \A h \in DOMAIN hubs : hubs[h].subscribers \ {c} # {} =>
          hubs'[h].watch = hubs[h].watch /\ hubs'[h].gap = hubs[h].gap
    BY <1>4
  <2>3. WatchesInv' /\ (current' # None => Running(current)')
    BY <1>1, <1>3, <1>4 DEF ViewsInv, WatchesInv, WatchTrue, Version, Running
  <2>4. /\ hubs' \in Seq(Hub) /\ Len(hubs') <= MaxHubs /\ DOMAIN hubs \subseteq DOMAIN hubs'
        /\ current' \in 0..Len(hubs')
    BY <1>1, <1>3, <1>4
  <2>5. k.state \notin {"subscribed", "cancelling"}
    BY <1>4
  <2>6. HubsFollow(c, k)
    BY <1>4, <2>1, <2>2, <2>3, <2>4, <2>5 DEF HubsFollow
  <2>7. QED
    BY <1>1, <1>4, <2>6, ConnMoves
<1>5. CASE conns[c].aborted
  <2>1. Over \in Conn /\ Over.state = "over"
    BY Constants DEF Over, NewConn, Conn, States
  <2>2. conns' = [conns EXCEPT ![c] = Over] /\ UNCHANGED hubs
    BY <1>5 DEF Request
  <2>3. QED
    BY <1>4, <2>1, <2>2
<1>6. CASE ~conns[c].aborted /\ current = None
  <2>1. PICK v : v = Version /\ v \in 0..MaxVersion /\ v \in 0..Version
    BY Types DEF ViewsInv
  <2>2. PICK k : k = [conns[c] EXCEPT !.state = "listing", !.since = v]
    OBVIOUS
  <2>3. k \in Conn /\ k.state = "listing" /\ k.since = v
    BY <1>1, <2>1, <2>2 DEF Conn, States
  <2>4. conns' = [conns EXCEPT ![c] = k] /\ UNCHANGED hubs
    BY <1>1, <1>6, <2>1, <2>2 DEF Request
  <2>5. QED
    BY <1>4, <2>1, <2>3, <2>4
<1>7. CASE ~conns[c].aborted /\ current # None
  <2>1. PICK h \in DOMAIN hubs : h = current
    BY <1>3, <1>7 DEF None
  <2>2. hubs[h] \in Hub /\ hubs[h].watch \in Watches /\ h \in 0..MaxHubs /\ c \in 1..MaxConns
    <3>1. hubs[h] \in Hub
      BY <1>1
    <3>2. QED
      BY <1>1, <1>3, <3>1, Constants DEF Hub, ViewsInv, TypeInv
  <2>3. PICK v : v = hubs[h].watch.rv /\ v \in {Unknown} \cup 0..MaxVersion
    BY <2>2 DEF Watches
  <2>4. PICK k : k = Subscribed(conns[c], h, v)
    OBVIOUS
  <2>5. k \in Conn /\ k.state = "subscribed" /\ k.hub = h /\ k.since = v
    BY <1>1, <2>2, <2>3, <2>4 DEF Subscribed, Conn, States
  <2>6. conns' = [conns EXCEPT ![c] = k]
    BY <1>1, <1>7, <2>1, <2>3, <2>4 DEF Request
  <2>7. PICK hub : hub = WithSubscriber(hubs[h], c)
    OBVIOUS
  <2>8. /\ hub \in Hub /\ hub.subscribers = hubs[h].subscribers \cup {c}
        /\ hub.watch = hubs[h].watch /\ hub.gap = hubs[h].gap
    BY <2>2, <2>7 DEF WithSubscriber, Hub
  <2>9. hubs' = [hubs EXCEPT ![h] = hub]
    BY <1>1, <1>7, <2>1, <2>7 DEF Request
  <2>10. /\ hubs' \in Seq(Hub) /\ Len(hubs') = Len(hubs) /\ DOMAIN hubs' = DOMAIN hubs
         /\ \A g \in DOMAIN hubs : hubs'[g] = IF g = h THEN hub ELSE hubs[g]
    BY <1>1, <2>8, <2>9, Replaced
  <2>11. \A g \in DOMAIN hubs' :
           /\ hubs'[g].subscribers =
                (IF g \in DOMAIN hubs THEN hubs[g].subscribers \ {c} ELSE {})
                \cup (IF k.state = "subscribed" /\ k.hub = g THEN {c} ELSE {})
           /\ Running(g)' <=> hubs'[g].subscribers # {}
    <3>1. Running(h) /\ Running(h)'
      BY <1>3, <1>7, <2>1, <2>8, <2>10 DEF Running
    <3>2. hubs'[h].subscribers = (hubs[h].subscribers \ {c}) \cup {c}
      BY <1>2, <2>8, <2>10
    <3>3. \A g \in DOMAIN hubs \ {h} : hubs'[g].subscribers = hubs[g].subscribers \ {c}
                                        /\ (Running(g)' <=> Running(g))
      BY <1>2, <2>10 DEF Running
    <3>4. QED
      BY <1>3, <2>5, <2>10, <3>1, <3>2, <3>3
  <2>12. \A g \in DOMAIN hubs : hubs[g].subscribers \ {c} # {} =>
           hubs'[g].watch = hubs[g].watch /\ hubs'[g].gap = hubs[g].gap
    BY <2>8, <2>10
  <2>13. WatchesInv'
    BY <1>1, <2>8, <2>10 DEF ViewsInv, WatchesInv, WatchTrue, Version
  <2>14. /\ Len(hubs') <= MaxHubs /\ current' \in 0..Len(hubs')
         /\ (current' # None => Running(current)')
    BY <1>1, <1>3, <2>1, <2>10, <2>11, <2>8 DEF Running
  <2>15. hubs'[k.hub].watch.rv = k.since
    BY <2>3, <2>5, <2>8, <2>10
  <2>16. k.hub \in DOMAIN hubs' /\ DOMAIN hubs \subseteq DOMAIN hubs' /\ k.state # "listing"
    BY <2>5, <2>10
  <2>17. /\ k.state \in {"subscribed", "cancelling"} => k.hub \in DOMAIN hubs'
         /\ k.state = "listing" => k.since \in 0..Version
         /\ k.state = "subscribed" => hubs'[k.hub].watch.rv = k.since
    BY <2>15, <2>16
  <2>18. k \in Conn /\ hubs' \in Seq(Hub) /\ DOMAIN hubs \subseteq DOMAIN hubs'
    BY <2>5, <2>10
  <2>19. HubsFollow(c, k)
    BY <2>6, <2>11, <2>12, <2>13, <2>14, <2>17, <2>18 DEF HubsFollow
  <2>20. QED
    BY <1>1, <2>18, <2>19, ConnMoves
<1>8. QED
  BY <1>5, <1>6, <1>7

LEMMA CreateKeeps ==
  ASSUME ViewsInv, NEW c \in DOMAIN conns, Create(c)
  PROVE  ViewsInv'
<1>1. /\ UNCHANGED <<serverVars, pageVars>> /\ conns \in Seq(Conn) /\ conns[c] \in Conn
      /\ hubs \in Seq(Hub) /\ conns[c].state = "listing" /\ UNCHANGED log
      /\ Len(hubs) < MaxHubs
  BY Types DEF Create, serverVars, ViewsInv
<1>2. \A h \in DOMAIN hubs : /\ c \notin hubs[h].subscribers
                             /\ Running(h) <=> hubs[h].subscribers # {}
  BY <1>1 DEF ViewsInv, SubscribersInv, Readers
<1>3. PICK h : /\ h = Len(hubs) + 1 /\ h \in 1..MaxHubs /\ DOMAIN hubs = 1..(h - 1)
               /\ c \in 1..MaxConns
  BY <1>1, Constants DEF ViewsInv, TypeInv
<1>4. PICK v : v = conns[c].since /\ v \in 0..Version /\ v \in 0..MaxVersion
  <2>1. conns[c].since \in 0..Version
    BY <1>1 DEF ViewsInv, SubscribersInv
  <2>2. Version \in 0..MaxVersion /\ MaxVersion \in Nat
    BY Types, Constants DEF ViewsInv
  <2>3. conns[c].since \in 0..MaxVersion
    BY <2>1, <2>2
  <2>4. QED
    BY <2>1, <2>3
<1>5. ASSUME NEW hub \in Hub, hubs' = Append(hubs, hub), WatchTrue(hub.watch, hub.gap),
             NEW k \in Conn, conns' = [conns EXCEPT ![c] = k],
             \/ k.state = "over" /\ hub.subscribers = {} /\ hub.watch.stopped /\ current' = None
             \/ /\ k.state = "subscribed" /\ k.hub = h /\ k.since = hub.watch.rv
                /\ hub.subscribers = {c} /\ ~hub.watch.stopped /\ current' = h
      PROVE  ViewsInv'
  <2>1. /\ hubs' \in Seq(Hub) /\ Len(hubs') = h /\ DOMAIN hubs' = 1..h
        /\ \A g \in DOMAIN hubs : hubs'[g] = hubs[g]
        /\ hubs'[h] = hub /\ h \notin DOMAIN hubs /\ DOMAIN hubs' = DOMAIN hubs \cup {h}
    BY <1>1, <1>3, <1>5
  <2>2. \A g \in DOMAIN hubs' :
          /\ hubs'[g].subscribers =
               (IF g \in DOMAIN hubs THEN hubs[g].subscribers \ {c} ELSE {})
               \cup (IF k.state = "subscribed" /\ k.hub = g THEN {c} ELSE {})
          /\ Running(g)' <=> hubs'[g].subscribers # {}
    <3>1. /\ hubs'[h].subscribers = {} \cup (IF k.state = "subscribed" /\ k.hub = h THEN {c} ELSE {})
          /\ Running(h)' <=> hubs'[h].subscribers # {}
      BY <1>5, <2>1 DEF Running
    <3>2. \A g \in DOMAIN hubs :
            /\ hubs'[g].subscribers = (hubs[g].subscribers \ {c})
                 \cup (IF k.state = "subscribed" /\ k.hub = g THEN {c} ELSE {})
            /\ Running(g)' <=> hubs'[g].subscribers # {}
      BY <1>2, <1>5, <2>1 DEF Running
    <3>3. QED
      BY <2>1, <3>1, <3>2
  <2>3. \A g \in DOMAIN hubs : hubs[g].subscribers \ {c} # {} =>
          hubs'[g].watch = hubs[g].watch /\ hubs'[g].gap = hubs[g].gap
    BY <2>1
  <2>4. WatchesInv'
    BY <1>1, <1>5, <2>1 DEF ViewsInv, WatchesInv, WatchTrue, Version
  <2>5. /\ Len(hubs') <= MaxHubs /\ current' \in 0..Len(hubs')
        /\ (current' # None => Running(current)')
    BY <1>3, <1>5, <2>1 DEF None, Running
  <2>6. /\ k.state \in {"subscribed", "cancelling"} => k.hub \in DOMAIN hubs'
        /\ k.state = "subscribed" => hubs'[k.hub].watch.rv = k.since
        /\ k.state # "listing"
    BY <1>3, <1>5, <2>1
  <2>7. HubsFollow(c, k)
    BY <1>5, <2>1, <2>2, <2>3, <2>4, <2>5, <2>6 DEF HubsFollow
  <2>8. QED
    BY <1>1, <1>5, <2>7, ConnMoves
<1>6. CASE conns[c].gone
  <2>1. Over \in Conn /\ Over.state = "over"
    BY Constants DEF Over, NewConn, Conn, States
  <2>2. WatchTrue(ClosedHub.watch, ClosedHub.gap)
    BY ClosedFacts, Types DEF WatchTrue, Unknown, ViewsInv
  <2>3. conns' = [conns EXCEPT ![c] = Over] /\ hubs' = Append(hubs, ClosedHub) /\ current' = None
    BY <1>6 DEF Create
  <2>4. QED
    BY <1>5, <2>1, <2>2, <2>3, ClosedFacts
<1>7. CASE ~conns[c].gone
  <2>1. PICK hub, w : hub = NewHub(v, c) /\ w = NewWatch(v)
    OBVIOUS
  <2>2. /\ w \in Watches /\ w.rv = v /\ w.sent = 0 /\ w.listing = {} /\ ~w.open /\ ~w.stopped
    BY <1>4, <2>1, Constants DEF NewWatch, Watches
  <2>3. hub \in Hub /\ hub.subscribers = {c} /\ hub.watch = w /\ ~hub.gap
    BY <1>3, <2>1, <2>2 DEF NewHub, Hub
  <2>4. WatchTrue(w, hub.gap)
    BY <1>4, <2>2, Types DEF WatchTrue, Unknown, ViewsInv
  <2>5. PICK k : k = Subscribed(conns[c], h, v)
    OBVIOUS
  <2>6. k \in Conn /\ k.state = "subscribed" /\ k.hub = h /\ k.since = v
    <3>1. h \in 0..MaxHubs /\ v \in {Unknown} \cup 0..MaxVersion
      BY <1>3, <1>4
    <3>2. QED
      BY <1>1, <2>5, <3>1 DEF Subscribed, Conn, States
  <2>7. conns' = [conns EXCEPT ![c] = k] /\ hubs' = Append(hubs, hub) /\ current' = h
    BY <1>1, <1>3, <1>4, <1>7, <2>1, <2>5 DEF Create
  <2>8. QED
    BY <1>5, <2>2, <2>3, <2>4, <2>6, <2>7
<1>8. QED
  BY <1>6, <1>7

----------------------------------------------------------------------------
LEMMA ViewsInvInit == Init => ViewsInv
<1> SUFFICES ASSUME Init PROVE ViewsInv
  OBVIOUS
<1>1. /\ log \in Seq(Entry) /\ Len(log) = Initially /\ Version \in 0..MaxVersion
      /\ oldest = 0
  <2>1. log = [i \in 1..Initially |-> [name |-> i, deleted |-> FALSE]] /\ Initially \in Nat
    BY ObjectsAssumption DEF Init, ServerInit
  <2>2. \A i \in 1..Initially : [name |-> i, deleted |-> FALSE] \in Entry
    BY ObjectsAssumption DEF Entry, Names
  <2>3. log \in [1..Initially -> Entry]
    BY <2>1, <2>2
  <2>4. log \in Seq(Entry) /\ Len(log) = Initially
    BY <2>1, <2>3, SeqDef, LenProperties
  <2>5. QED
    BY <2>4, ObjectsAssumption DEF Version, Init, ServerInit
<1>2. Snapshot(0) \in [Names -> 0..MaxVersion]
  <2>1. \A n : At(0, n) = ValueIn(log, 0, n)
    BY DEF At, ValueIn, ChangesIn
  <2>2. \A n : At(0, n) \in 0..MaxVersion
    BY <2>1, ValueRange, Constants
  <2>3. QED
    BY <2>2 DEF Snapshot
<1>3. conns = <<>> /\ hubs = <<>> /\ current = 0 /\ stream = [p \in Pages |-> 0]
  BY DEF Init, None
<1>4. TypeInv
  <2>1. items \in [Pages -> [Names -> 0..MaxVersion]]
    BY <1>2 DEF Init
  <2>2. /\ stream \in [Pages -> 0..MaxConns] /\ stream \in [Pages -> 0..Len(conns)]
        /\ Len(conns) = 0 /\ Len(hubs) = 0 /\ current \in 0..Len(hubs)
    BY <1>3, Constants
  <2>3. conns \in Seq(Conn) /\ hubs \in Seq(Hub)
    BY <1>3
  <2>4. QED
    BY <1>1, <2>1, <2>2, <2>3, Constants DEF TypeInv, TypeOK, Conn, Hub, States
<1>5. WatchesInv /\ SubscribersInv
  BY <1>3 DEF WatchesInv, SubscribersInv, None
<1>6. NothingMissed
  BY <1>3 DEF NothingMissed, Live, None
<1>7. QED
  BY <1>4, <1>5, <1>6 DEF ViewsInv

LEMMA ViewsInvStep == ViewsInv /\ [Next]_vars => ViewsInv'
<1> SUFFICES ASSUME ViewsInv, [Next]_vars PROVE ViewsInv'
  OBVIOUS
<1>1. CASE (Change \/ Compact) /\ UNCHANGED <<pageVars, hubVars>>
  BY <1>1, ServerKeeps
<1>2. ASSUME NEW p \in Pages, TakeList(p) \/ Leave(p) PROVE ViewsInv'
  BY <1>2, PageKeeps
<1>3. ASSUME NEW c \in DOMAIN conns, Serve(c) PROVE ViewsInv'
  BY <1>3, RequestKeeps, CreateKeeps, DisconnectKeeps DEF Serve
<1>4. ASSUME NEW h \in DOMAIN hubs, Reconnect(h) \/ Relay(h) \/ Accident(h) PROVE ViewsInv'
  BY <1>4, HubKeeps DEF Reconnect, Relay, Accident
<1>5. CASE UNCHANGED vars
  <2>1. /\ UNCHANGED <<items, stream, conns, hubs, current, log, oldest>>
    BY <1>5 DEF vars, serverVars, pageVars, hubVars
  <2>2. TypeInv' /\ WatchesInv' /\ SubscribersInv'
    BY <2>1 DEF ViewsInv, TypeInv, TypeOK, WatchesInv, WatchTrue, SubscribersInv, Readers,
                Running, Version
  <2>3. NothingMissed'
    BY <2>1, Unmissed DEF ViewsInv, Live, SinceOf, SeenBy
  <2>4. QED
    BY <2>2, <2>3 DEF ViewsInv
<1>6. QED
  BY <1>1, <1>2, <1>3, <1>4, <1>5 DEF Next

(* Connections, hubs, their watches and what pages show belong together, in *)
(* whatever order lists, events, disconnects and reconnects arrive.         *)
THEOREM ViewsInvariant == Spec => []ViewsInv
BY ViewsInvInit, ViewsInvStep, PTL DEF Spec

(* Every variable keeps its type; a hub found under the key exists.         *)
THEOREM TypeCorrect == Spec => []TypeOK
<1>1. ViewsInv => TypeOK
  BY DEF ViewsInv, TypeInv
<1>2. QED
  BY <1>1, ViewsInvariant, PTL

(* A watch of the cluster runs exactly as long as somebody reads from it,   *)
(* and none is joined that was stopped, though every page that leaves is    *)
(* unsubscribed twice, and hubs are made over each other.                   *)
THEOREM WatchesStop == Spec => []WatchWhileRead
<1>1. ViewsInv => WatchWhileRead
  BY DEF ViewsInv, SubscribersInv, WatchWhileRead, Readers
<1>2. QED
  BY <1>1, ViewsInvariant, PTL

(* What changed after a page was subscribed is shown by it, or its hub has  *)
(* yet to see it: no reconnect, replaced hub or other page makes it miss an *)
(* event, short of a 410.                                                   *)
THEOREM EventsArrive == Spec => []NothingMissed
<1>1. ViewsInv => NothingMissed
  BY DEF ViewsInv
<1>2. QED
  BY <1>1, ViewsInvariant, PTL
=============================================================================
