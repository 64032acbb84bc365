----------------------------- MODULE References -----------------------------
(***************************************************************************)
(* How objects refer to others: the namespace rule                         *)
(* (packages/k8s-client/src/ref-namespace.ts), typed references            *)
(* (operator/src/resolvers/object-ref.ts), chains of jump hosts, and the   *)
(* hosts of an inventory (k8s-client/src/inventory-resolve.ts).            *)
(*                                                                         *)
(* A host is a record with kind, namespace, name, ansibleHost (also for    *)
(* its address), labels, enabled and jumpHost; what is optional is a set   *)
(* of at most one.                                                         *)
(***************************************************************************)
EXTENDS LabelSelector, SequencesExt

Nowhere == ""               \* the namespace of cluster-scoped objects
Refused == "refused"        \* a namespace no object is in: the reference is an error

Scope(kind) == IF kind = "ClusterAnsibleHost" THEN "Cluster" ELSE "Namespaced"

(* Only cluster-scoped objects may refer to another namespace. *)
resolveRefNamespace(targetScope, refNamespace, ownerNamespace) ==
  IF targetScope # "Namespaced" THEN Nowhere
  ELSE IF ownerNamespace # Nowhere /\ refNamespace \notin {Nowhere, ownerNamespace} THEN Refused
  ELSE IF refNamespace # Nowhere THEN refNamespace ELSE ownerNamespace

(* The object a reference is for, if there is one. *)
resolveRef(hosts, ref, referencingNamespace) ==
  {h \in hosts : /\ h.kind = ref.kind /\ h.name = ref.name
                 /\ h.namespace = resolveRefNamespace(Scope(ref.kind), ref.namespace,
                                                      referencingNamespace)}

refKey(h) == <<h.kind, h.namespace, h.name>>

----------------------------------------------------------------------------
Failed == [ok |-> FALSE, hops |-> <<>>]
Hops(hops) == [ok |-> TRUE, hops |-> hops]

The(S) == CHOOSE x \in S : TRUE

PrependHop(upstream, hop) == <<hop>> \o upstream     \* mutant: the nearest hop first

AppendHop(upstream, hop) == Append(upstream, hop)

(* The hosts to go through, the outermost first. A chain that comes back to *)
(* a host, or leads to none, is an error.                                   *)
resolveJumpChain(hosts, host) ==
  LET all == hosts \cup {host}
      chain[at \in all \X SUBSET {refKey(x) : x \in all}] ==
        LET h == at[1]
            visited == at[2]
        IN IF h.jumpHost = {} THEN Hops(<<>>)
           ELSE IF refKey(h) \in visited THEN Failed
           ELSE LET jumpHost == The(h.jumpHost) IN
                IF jumpHost.address # {} THEN Hops(<<The(jumpHost.address)>>)
                ELSE LET found == resolveRef(hosts, jumpHost.hostRef, h.namespace) IN
                     IF found = {} THEN Failed
                     ELSE LET upstream == chain[<<The(found), visited \cup {refKey(h)}>>] IN
                          IF upstream.ok THEN Hops(AppendHop(upstream.hops, The(found).ansibleHost))
                          ELSE Failed
  IN chain[<<host, {}>>]

----------------------------------------------------------------------------
(* The hosts of one source, in the order of the list. A source without a    *)
(* namespace is for the inventory's own.                                    *)
ListSource(hosts, source, inventoryNamespace) ==
  LET namespace == IF source.kind # "AnsibleHost" THEN Nowhere
                   ELSE IF source.namespace # Nowhere THEN source.namespace
                   ELSE inventoryNamespace
  IN SetToSeq({h \in hosts : /\ h.kind = source.kind /\ h.namespace = namespace
                             /\ ServerMatches(labelSelectorToString(source.labelSelector), h.labels)})

(* A group: what its sources listed, each host once and without those that  *)
(* are disabled.                                                            *)
Distinct(all) ==
  LET first(i) == \A j \in 1..(i - 1) : refKey(all[j]) # refKey(all[i])
  IN FlattenSeq([i \in DOMAIN all |-> IF all[i].enabled /\ first(i) THEN <<all[i]>> ELSE <<>>])

GroupHosts(lists) == The({Distinct(all) : all \in {FlattenSeq(lists)}})

resolveInventoryGroups(hosts, groups, inventoryNamespace) ==
  [i \in DOMAIN groups |->
     GroupHosts([j \in DOMAIN groups[i].hostSources |->
                   ListSource(hosts, groups[i].hostSources[j], inventoryNamespace)])]
=============================================================================
