----------------------------- MODULE Resolvers -----------------------------
(***************************************************************************)
(* What is computed from the objects there are, and is computed in two     *)
(* places or has to fit together: chains of jump hosts, the shards of an   *)
(* inventory, and lists that are filtered by permissions.                  *)
(***************************************************************************)
EXTENDS ReferenceControllers, HostSharding, PermissionEngine

CONSTANTS
  Chains,      \* sets of hosts that refer to each other
  Amounts,     \* numbers of hosts in a shard
  Users,       \* sets of grants, each of a user
  Lists,       \* what is listed: a kind, its scope, and a namespace or none
  Asked        \* the selectors it is asked for with

(* Kubernetes names an object by its kind, namespace and name; and what is  *)
(* cluster-scoped has no namespace.                                         *)
Objects(hs) ==
  /\ IsFiniteSet(hs)
  /\ \A h, i \in hs : refKey(h) = refKey(i) => h = i
  /\ \A h \in hs : (h.namespace = Nowhere) <=> (Scope(h.kind) = "Cluster")

(* A host as shardHosts sees it. *)
ShardHost(h) == [key |-> refKey(h), name |-> h.name, inv |-> h.ansibleHost]

(* A selector with several values is read back wrongly, and none is asked   *)
(* for.  No grant names the namespace that stands for none.                 *)
ReadBack(string) == \A r \in string : ~ (r.operator \in {"In", "NotIn"} /\ Cardinality(r.values) > 1)
InNamespaces(perms) == \A p \in perms : Nowhere \notin p.namespaces

ASSUME ResolversAssumption ==
  /\ \A hs \in Chains : Objects(hs)
  /\ \A hs \in HostSets["Inventory"] : Objects(hs)
  /\ Named({ShardHost(h) : h \in UNION HostSets["Inventory"]})
  /\ Amounts \subseteq Nat \ {0}
  /\ \A perms \in Users : InNamespaces(perms)
  /\ \A list \in Lists : list[2] = Scope(list[1]) /\ (list[2] = "Cluster" => list[3] = Nowhere)
  /\ \A string \in Asked : ReadBack(string)

(* What follows depends on the hosts and the spec only, and each of them is *)
(* met in a first state.                                                    *)
First == obj = NewObject(obj.spec) /\ edits = 0 /\ armed /\ ~unseen

----------------------------------------------------------------------------
(* resolveJumpChain: "h1 is reached first, the final hop in the list has    *)
(* direct network access to the target host": the hops are those of the way *)
(* from the host along its references to one that needs no other, and       *)
(* there is an error if that way is circular or leads nowhere.              *)
Direct(h) == h.jumpHost = {} \/ The(h.jumpHost).address # {}

Gateway(h) == IF h.jumpHost = {} THEN <<>> ELSE <<The(The(h.jumpHost).address)>>

Through(hs, h) == resolveRef(hs, The(h.jumpHost).hostRef, h.namespace)

Ways(hs, h) ==
  {way \in UNION {[1..n -> hs] : n \in 1..Cardinality(hs)} :
     /\ way[1] = h
     /\ \A i \in 2..Len(way) : ~Direct(way[i - 1]) /\ way[i] \in Through(hs, way[i - 1])
     /\ Direct(way[Len(way)])}

JumpChainConnects ==
  kind = "Host" /\ First => \A hs \in Chains : \A h \in hs :
    resolveJumpChain(hs, h) =
      IF Ways(hs, h) = {} THEN Failed
      ELSE LET way == The(Ways(hs, h))
           IN Hops(Gateway(way[Len(way)])
                     \o Reverse([i \in 1..(Len(way) - 1) |-> way[i + 1].ansibleHost]))

----------------------------------------------------------------------------
(* shardHosts leaves no host of the inventory out, puts none in two shards, *)
(* and makes none empty or too large; and a shard that is started from      *)
(* whatever the inventory has become takes its own hosts that are left, and *)
(* so none of another shard's.                                              *)
ShardGroups(hs) ==
  LET groups == resolveInventoryGroups(hs, obj.spec.groups, Owner)
  IN [i \in DOMAIN groups |-> [j \in DOMAIN groups[i] |-> ShardHost(groups[i][j])]]

ShardsStayApart ==
  kind = "Inventory" /\ First => \A amount \in Amounts :
    LET groups == ShardGroups(hosts)
        shards == ShardHosts(groups, amount)
    IN /\ FlattenSeq([k \in DOMAIN shards |-> shards[k].hostNames])
            = LET d == DistinctHosts(Flatten(groups)) IN [i \in DOMAIN d |-> d[i].name]
       /\ \A k \in DOMAIN shards : Len(shards[k].hostNames) \in 1..amount
       /\ \A later \in HostSets[kind], k \in DOMAIN shards :
            LimitForHostNames(ShardGroups(later), shards[k].hostNames) =
              shards[k].limit \cap {h.inv : h \in ToSet(Flatten(ShardGroups(later)))}

----------------------------------------------------------------------------
(* The list of a user has exactly the objects whose changes a watch by the  *)
(* same grants would relay: those a grant is for, and no other, although    *)
(* one list takes one selector and grants overlap.                          *)
ToWatch(perms) ==
  {[type |-> p.type, namespaces |-> p.namespaces, labelSelector |-> p.labelSelector,
    actions |-> {"watch"}] : p \in {q \in perms : matchesAction(q, "list")}}

ListShowsAllowed ==
  kind = "Inventory" /\ First => \A perms \in Users, list \in Lists, asked \in Asked :
    executeListPlan(hosts, list[1], planList(perms, list[1], list[2], "list", list[3]), asked)
      = {h \in hosts : /\ h.kind = list[1] /\ list[3] \in {Nowhere, h.namespace}
                       /\ WatchFilter(ToWatch(perms), asked, h)}
=============================================================================
