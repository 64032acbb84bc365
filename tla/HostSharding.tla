---------------------------- MODULE HostSharding ----------------------------
(***************************************************************************)
(* packages/operator/src/resolvers/host-sharding.ts: how the hosts of a    *)
(* resolved inventory are split over the Jobs of a parallel run, and how   *)
(* the --limit of a shard is rebuilt from a later resolution.              *)
(*                                                                         *)
(* An inventory is a sequence of groups, a group a sequence of hosts, and  *)
(* a host a record: key (its kind, namespace and name), name, and inv, the *)
(* name Ansible knows it by.  A --limit joins inventory names into a union *)
(* pattern, so it is a set here, and the empty string the empty set.       *)
(***************************************************************************)
EXTENDS SequencesExt

InventoryHostname(host) == host.inv

Flatten(groups) == FlattenSeq(groups)

(* The hosts once each, by first occurrence. *)
DistinctHosts(hosts) ==
  LET first(i) == \A j \in 1..(i - 1) : hosts[j].key # hosts[i].key
  IN FlattenSeq([i \in DOMAIN hosts |-> IF first(i) THEN <<hosts[i]>> ELSE <<>>])

NumShards(n, maxAmountOfHosts) == (n + maxAmountOfHosts - 1) \div maxAmountOfHosts

(* hosts.slice(start, start + maxAmountOfHosts), for the k-th start *)
ChunkOverlapping(hosts, maxAmountOfHosts, k) ==   \* mutant: both ends inclusive
  SubSeq(hosts, (k - 1) * maxAmountOfHosts + 1,
         IF k * maxAmountOfHosts < Len(hosts) THEN k * maxAmountOfHosts + 1 ELSE Len(hosts))

Chunk(hosts, maxAmountOfHosts, k) ==
  SubSeq(hosts, (k - 1) * maxAmountOfHosts + 1,
         IF k * maxAmountOfHosts < Len(hosts) THEN k * maxAmountOfHosts ELSE Len(hosts))

(* shardHosts; a shard's index is its position, from 1. *)
ShardHosts(groups, maxAmountOfHosts) ==
  LET hosts == DistinctHosts(Flatten(groups))
      shard(chunk) == [hostNames |-> [i \in DOMAIN chunk |-> chunk[i].name],
                       limit |-> {InventoryHostname(chunk[i]) : i \in DOMAIN chunk}]
  IN [k \in 1..NumShards(Len(hosts), maxAmountOfHosts) |->
        shard(Chunk(hosts, maxAmountOfHosts, k))]

LimitOfHostNames(groups, hostNames) ==     \* mutant: object names, not inventory names
  {h.name : h \in {g \in ToSet(Flatten(groups)) : g.name \in ToSet(hostNames)}}

(* limitForHostNames: hosts are found again by name, and a name counts once. *)
LimitForHostNames(groups, hostNames) ==
  LET hosts == Flatten(groups)
  IN {InventoryHostname(hosts[i]) : i \in {j \in DOMAIN hosts :
        /\ hosts[j].name \in ToSet(hostNames)
        /\ \A l \in 1..(j - 1) : hosts[l].name # hosts[j].name}}

(* ansible-playbook: no --limit is passed for an empty one (ansibleExtraArgs), *)
(* and a run without a limit acts on the whole inventory.                      *)
AnsibleTargets(groups, limit) ==
  LET all == {InventoryHostname(h) : h \in ToSet(Flatten(groups))}
  IN IF limit = {} THEN all ELSE limit \cap all

(* Names are as unique as keys: a host is known by its key, its name and the *)
(* name Ansible knows it by alike.                                           *)
Named(T) ==
  \A g, h \in T : g.key = h.key \/ g.name = h.name \/ g.inv = h.inv => g = h
=============================================================================
