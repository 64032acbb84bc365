----------------------------- MODULE LiveViews -----------------------------
(***************************************************************************)
(* How a list in the browser is kept up to date: the store of one kind in  *)
(* each page (packages/ui/src/stores/createResourceStore.ts), the stream   *)
(* of server-sent events it reads (ui/src/api/watch.ts, api/src/lib/sse.ts *)
(* and the watch route of resource-routes.ts), and the hub that feeds all  *)
(* streams of a kind from one watch of the cluster                         *)
(* (api/src/lib/watch-hub.ts).  One key of the hub is modelled: its kind   *)
(* and namespace; keys do not interact.                                    *)
(***************************************************************************)
EXTENDS WatchStream

CONSTANTS
  Pages,            \* open browser pages, each with its store
  Visible,          \* the names each page's user may see
  MaxConns, MaxHubs

ASSUME VisibleAssumption ==
  Visible \in [Pages -> SUBSET Names] /\ MaxConns \in Nat /\ MaxHubs \in Nat

VARIABLES
  items,            \* what each page shows: versions
  stream,           \* stopWatch: the connection each page reads, or None
  conns,            \* all connections so far
  hubs,             \* all hub entries so far
  current           \* the hub entry that is found under the key, or None

pageVars == <<items, stream>>
hubVars == <<conns, hubs, current>>
vars == <<serverVars, pageVars, hubVars>>

None == 0

Init ==
  /\ ServerInit
  /\ items = [p \in Pages |-> Snapshot(0)]
  /\ stream = [p \in Pages |-> None]
  /\ conns = <<>> /\ hubs = <<>> /\ current = None

----------------------------------------------------------------------------
(* The store of a page. *)

Shown(p, v) == [n \in Names |-> IF n \in Visible[p] THEN At(v, n) ELSE Absent]

NewConn == [state |-> "requested", since |-> 0, hub |-> None,
            aborted |-> FALSE, gone |-> FALSE]

Over == [NewConn EXCEPT !.state = "over"]

Abort(c) ==
  IF c = None \/ conns[c].state = "over" THEN conns ELSE [conns EXCEPT ![c].aborted = TRUE]

(* A list is answered, by the objects as they were when it was carried out, *)
(* and in any order with others: they replace what was shown, and a new     *)
(* stream the old one.                                                      *)
TakeList(p) ==
  /\ Len(conns) < MaxConns
  /\ \E v \in 0..Version : items' = [items EXCEPT ![p] = Shown(p, v)]
  /\ conns' = Append(Abort(stream[p]), NewConn)
  /\ stream' = [stream EXCEPT ![p] = Len(conns) + 1]
  /\ UNCHANGED <<serverVars, hubs, current>>

(* stop, when the page is left; an answer that is still to come starts a    *)
(* stream all the same.                                                     *)
Leave(p) ==
  /\ stream[p] # None
  /\ conns' = Abort(stream[p]) /\ stream' = [stream EXCEPT ![p] = None]
  /\ UNCHANGED <<serverVars, items, hubs, current>>

----------------------------------------------------------------------------
(* The route and the hub: a connection is requested, lists if it finds no   *)
(* hub, is subscribed to one, and is over.                                  *)

Running(h) == ~hubs[h].watch.stopped

WithSubscriber(hub, c) == [hub EXCEPT !.subscribers = @ \cup {c}]

ClosedHub == [subscribers |-> {}, watch |-> NoWatch, gap |-> FALSE]

Without(h, c) ==
  IF hubs[h].subscribers \subseteq {c} THEN [hubs EXCEPT ![h] = ClosedHub]
  ELSE [hubs EXCEPT ![h].subscribers = @ \ {c}]

(* The hub that is captured loses its subscriber; when it has none left     *)
(* whatever is found under the key is forgotten.                            *)
UnsubscribeFound(c) ==              \* mutant: of the hub found under the key
  /\ hubs' = IF current = None THEN hubs ELSE Without(current, c)
  /\ current' = IF current # None /\ hubs[current].subscribers \subseteq {c} THEN None
                ELSE current

Unsubscribe(c) ==
  LET h == conns[c].hub IN
  /\ hubs' = Without(h, c)
  /\ current' = IF hubs[h].subscribers \subseteq {c} THEN None ELSE current

Subscribed(conn, h, since) == [conn EXCEPT !.state = "subscribed", !.hub = h, !.since = since]

(* A page that has left meanwhile is not served. *)
Request(c) ==
  /\ conns[c].state = "requested"
  /\ IF conns[c].aborted
     THEN conns' = [conns EXCEPT ![c] = Over] /\ UNCHANGED <<hubs, current>>
     ELSE IF current = None
     THEN /\ conns' = [conns EXCEPT ![c].state = "listing", ![c].since = Version]
          /\ UNCHANGED <<hubs, current>>
     ELSE /\ conns' = [conns EXCEPT ![c] = Subscribed(@, current, hubs[current].watch.rv)]
          /\ hubs' = [hubs EXCEPT ![current] = WithSubscriber(@, c)]
          /\ UNCHANGED current
  /\ UNCHANGED <<serverVars, pageVars>>

NewHub(v, c) == [subscribers |-> {c}, watch |-> NewWatch(v), gap |-> FALSE]

(* The list is answered: a hub is made, whether or not another subscriber   *)
(* made one meanwhile. A page that disconnected is unsubscribed at once.    *)
Create(c) ==
  /\ conns[c].state = "listing" /\ Len(hubs) < MaxHubs
  /\ LET h == Len(hubs) + 1
         hub == NewHub(conns[c].since, c)
     IN IF conns[c].gone
        THEN /\ hubs' = Append(hubs, ClosedHub)
             /\ current' = None
             /\ conns' = [conns EXCEPT ![c] = Over]
        ELSE /\ hubs' = Append(hubs, hub) /\ current' = h
             /\ conns' = [conns EXCEPT ![c] = Subscribed(@, h, @.since)]
  /\ UNCHANGED <<serverVars, pageVars>>

(* The server learns that a page disconnected: signal's listener, ... *)
Disconnect(c) ==
  /\ conns[c].aborted /\ ~conns[c].gone /\ conns[c].state \in {"listing", "subscribed"}
  /\ IF conns[c].state = "subscribed"
     THEN /\ Unsubscribe(c)
          /\ conns' = [conns EXCEPT ![c].state = "cancelling", ![c].since = 0]
     ELSE conns' = [conns EXCEPT ![c].gone = TRUE] /\ UNCHANGED <<hubs, current>>
  /\ UNCHANGED <<serverVars, pageVars>>

(* ... and cancel of the stream, which unsubscribes once more. *)
Cancel(c) ==
  /\ conns[c].state = "cancelling" /\ Unsubscribe(c)
  /\ conns' = [conns EXCEPT ![c] = Over]
  /\ UNCHANGED <<serverVars, pageVars>>

(* An event reaches the pages that still read, if their users may see it;   *)
(* bookmarks and errors are passed over there.                              *)
Reads(p, h) == stream[p] # None /\ stream[p] \in hubs[h].subscribers

Relayed(h, e) ==
  IF e.type \notin {"ADDED", "MODIFIED", "DELETED"} THEN items
  ELSE [p \in Pages |->
          IF Reads(p, h) /\ e.name \in Visible[p]
          THEN [items[p] EXCEPT ![e.name] = IF e.type = "DELETED" THEN Absent ELSE e.rv]
          ELSE items[p]]

HubSteps(h, steps) ==
  /\ \E s \in steps :
       /\ items' = Relayed(h, s.event)
       /\ hubs' = [hubs EXCEPT ![h].watch = s.watch, ![h].gap = @ \/ s.event = Expired]
  /\ UNCHANGED <<serverVars, stream, conns, current>>

Reconnect(h) == HubSteps(h, Connecting(hubs[h].watch))
Relay(h) == HubSteps(h, Delivering(hubs[h].watch))
Accident(h) == HubSteps(h, Accidents(hubs[h].watch))

----------------------------------------------------------------------------
Serve(c) == Request(c) \/ Create(c) \/ Disconnect(c) \/ Cancel(c)

Next ==
  \/ (Change \/ Compact) /\ UNCHANGED <<pageVars, hubVars>>
  \/ \E p \in Pages : TakeList(p) \/ Leave(p)
  \/ \E c \in DOMAIN conns : Serve(c)
  \/ \E h \in DOMAIN hubs : Reconnect(h) \/ Relay(h) \/ Accident(h)

Spec == Init /\ [][Next]_vars

----------------------------------------------------------------------------
(* Properties *)

TypeOK ==
  /\ items \in [Pages -> [Names -> 0..MaxVersion]]
  /\ stream \in [Pages -> 0..MaxConns]
  /\ conns \in Seq([state : {"requested", "listing", "subscribed", "cancelling", "over"},
                    since : {Unknown} \cup 0..MaxVersion, hub : 0..MaxHubs,
                    aborted : BOOLEAN, gone : BOOLEAN])
  /\ hubs \in Seq([subscribers : SUBSET (1..MaxConns), watch : Watches, gap : BOOLEAN])
  /\ current \in 0..Len(hubs)

(* A watch of the cluster runs exactly as long as somebody reads from it,   *)
(* and no subscriber is added to a hub whose watch was stopped, in whatever *)
(* order pages come and go and unsubscribe twice.                           *)
WatchWhileRead ==
  /\ \A h \in DOMAIN hubs :
       Running(h) <=> \E c \in DOMAIN conns : conns[c].state = "subscribed" /\ conns[c].hub = h
  /\ current # None => Running(current)

Live(p) ==
  /\ stream[p] # None /\ conns[stream[p]].state = "subscribed"
  /\ ~hubs[conns[stream[p]].hub].gap

(* The last change of an object. *)
Changed(n) == Max({0} \cup {v \in 1..Version : log[v].name = n})

(* No event is missed: whatever changed after a page was subscribed is      *)
(* shown by it, or its hub has yet to see it, across the watch's            *)
(* reconnects, other pages that come and go, and hubs that are replaced.    *)
(* (After a 410 there is "a gap, acceptable for a first cut".)              *)
NothingMissed ==
  \A p \in Pages : Live(p) =>
    \A n \in Visible[p] :
      LET c == conns[stream[p]] IN
      Changed(n) > c.since =>
        items[p][n] = At(Version, n) \/ hubs[c.hub].watch.rv < Changed(n)
============================================================================
