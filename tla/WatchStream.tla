---------------------------- MODULE WatchStream ----------------------------
(***************************************************************************)
(* packages/k8s-client/src/watch.ts: a watch of one kind of object that    *)
(* reconnects for as long as it is not stopped, and the API server it      *)
(* reads from.                                                             *)
(*                                                                         *)
(* The server's history is a sequence of changes, and a resource version   *)
(* is a position in it; a list is a position, too.  What a watch does next *)
(* is a set of steps, each a new watch and the event it hands on, so that  *)
(* its two users, the operator's work queue and the API's hub, take them   *)
(* in actions of their own.                                                *)
(***************************************************************************)
EXTENDS Integers, Sequences, FiniteSets, FiniteSetsExt

CONSTANTS
  Objects,          \* the number of names objects may have
  Initially,        \* the number of them that exist at first
  MaxVersion        \* how many changes there are

ASSUME ObjectsAssumption ==
  Objects \in Nat /\ Initially \in 0..Objects /\ MaxVersion \in Nat /\ Initially <= MaxVersion

VARIABLES
  log,              \* the changes so far: the name, and whether it was deleted
  oldest            \* the server no longer knows the versions before this one

serverVars == <<log, oldest>>

Absent == 0         \* the version of an object that is not there
Unknown == -1       \* resourceVersion: undefined
Nameless == -1      \* the name of bookmarks and errors

(* Names are numbers, in the order of a list. *)
Names == 1..Objects

Version == Len(log)

(* The version of an object at some time. *)
At(v, n) ==
  LET changes == {i \in 1..v : log[i].name = n}
  IN IF changes = {} \/ log[Max(changes)].deleted THEN Absent ELSE Max(changes)

Snapshot(v) == [n \in Names |-> At(v, n)]

Existing(v) == {n \in Names : At(v, n) # Absent}

ServerInit ==
  log = [i \in 1..Initially |-> [name |-> i, deleted |-> FALSE]] /\ oldest = 0

(* Somebody creates, changes or deletes an object. *)
Change ==
  /\ Version < MaxVersion
  /\ \E n \in Names, deleted \in BOOLEAN :
       /\ deleted => At(Version, n) # Absent
       /\ log' = Append(log, [name |-> n, deleted |-> deleted])
  /\ UNCHANGED oldest

(* etcd compacts its history; once is enough for what follows. *)
Compact ==
  /\ oldest = 0
  /\ oldest' = Version
  /\ UNCHANGED log

----------------------------------------------------------------------------
(* A watch: its resourceVersion; whether a connection is open, the position *)
(* up to which the server has sent, and the objects that the server still   *)
(* lists first, if it was asked without a version.                          *)
NewWatch(v) == [rv |-> v, open |-> FALSE, sent |-> 0, listing |-> {}, stopped |-> FALSE]

NoWatch == [NewWatch(0) EXCEPT !.stopped = TRUE]

Stopped(w) == [w EXCEPT !.stopped = TRUE, !.open = FALSE, !.listing = {}]

NoEvent == [type |-> "none"]
Expired == [type |-> "expired"]     \* a call of onExpired

Event(type, n, v) == [type |-> type, name |-> n, rv |-> v]

ChangeEvent(v) ==
  Event(IF log[v].deleted THEN "DELETED" ELSE "MODIFIED", log[v].name, v)

Step(w, e) == [watch |-> w, event |-> e]

Closed(w) == [w EXCEPT !.open = FALSE, !.sent = 0, !.listing = {}]

ConnectLatest(w) ==                 \* mutant: asks for what comes after the present
  IF w.stopped \/ w.open THEN {}
  ELSE {Step([w EXCEPT !.open = TRUE, !.sent = Version], NoEvent)}

(* The next cycle asks for what came after the last version it has seen. *)
Connect(w) ==
  IF w.stopped \/ w.open THEN {}
  ELSE IF w.rv = Unknown
  THEN {Step([w EXCEPT !.open = TRUE, !.sent = Version, !.listing = Existing(Version)], NoEvent)}
  ELSE IF w.rv >= oldest THEN {Step([w EXCEPT !.open = TRUE, !.sent = w.rv], NoEvent)}
  ELSE {}

(* A version that is no longer known is refused with the status 410, or     *)
(* with an ERROR event in a stream that then ends.                          *)
ConnectExpired(w) ==
  IF w.stopped \/ w.open \/ w.rv = Unknown \/ w.rv >= oldest THEN {}
  ELSE {Step([w EXCEPT !.rv = Unknown], Expired), Step(w, Event("ERROR", Nameless, Unknown))}

(* Each event moves resourceVersion to the object's own. *)
Deliver(w) ==
  IF ~w.open \/ w.listing # {} \/ w.sent = Version THEN {}
  ELSE {Step([w EXCEPT !.sent = @ + 1, !.rv = w.sent + 1], ChangeEvent(w.sent + 1))}

(* The objects a watch without a version starts with, as of when it opened. *)
DeliverListed(w) ==
  IF ~w.open \/ w.listing = {} THEN {}
  ELSE LET n == Min(w.listing) IN
       {Step([w EXCEPT !.listing = @ \ {n}, !.rv = At(w.sent, n)],
             Event("ADDED", n, At(w.sent, n)))}

Bookmark(w) ==
  IF ~w.open \/ w.listing # {} THEN {}
  ELSE {Step([w EXCEPT !.rv = w.sent], Event("BOOKMARK", Nameless, w.sent))}

(* After 30 seconds, or when the connection breaks. *)
End(w) == IF w.open THEN {Step(Closed(w), NoEvent)} ELSE {}

(* What a connection does by itself, and what may happen to it. *)
Connecting(w) == Connect(w) \cup ConnectExpired(w)
Delivering(w) == Deliver(w) \cup DeliverListed(w)
Accidents(w) == Bookmark(w) \cup End(w)

Watches ==
  [rv : {Unknown} \cup 0..MaxVersion, open : BOOLEAN, sent : 0..MaxVersion,
   listing : SUBSET Names, stopped : BOOLEAN]
============================================================================
