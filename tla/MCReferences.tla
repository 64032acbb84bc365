---------------------------- MODULE MCReferences ----------------------------
(* An object of each kind in the namespace "ns", with hosts there, in       *)
(* another namespace and in none, and what is computed from the hosts there *)
(* are: the jump chains, the shards of the inventory, and the lists of      *)
(* users with up to two grants.                                             *)
EXTENDS Resolvers

Role(role) == [k \in {"role"} |-> role]
Select(operator, values) == {{Requirement("role", operator, values)}}

HostRef(hostKind, namespace, name) ==
  [kind |-> hostKind, namespace |-> namespace, name |-> name]

AHost(hostKind, namespace, name, role, enabled, jumpHost) ==
  [kind |-> hostKind, namespace |-> namespace, name |-> name, ansibleHost |-> name \o ".example",
   labels |-> Role(role), enabled |-> enabled, jumpHost |-> jumpHost]

Via(ref) == {[address |-> {}, hostRef |-> ref]}
Bastion == {[address |-> {"gateway"}, hostRef |-> <<>>]}

A(role, enabled, jump) == {AHost("AnsibleHost", "ns", "a", role, enabled, jump)}
B(jump) == {AHost("AnsibleHost", "ns", "b", "web", TRUE, jump)}
C(jump) == {AHost("ClusterAnsibleHost", Nowhere, "c", "web", TRUE, jump)}
D == {AHost("AnsibleHost", "other", "d", "db", TRUE, {})}

RefA == HostRef("AnsibleHost", "ns", "a")
RefB == HostRef("AnsibleHost", Nowhere, "b")
RefC == HostRef("ClusterAnsibleHost", Nowhere, "c")
RefD == HostRef("AnsibleHost", "other", "d")

(* Hosts come, go, change their labels, are disabled; and lead to others.   *)
Labelled ==
  {a \cup B({}) \cup c \cup D :
     a \in {A("web", FALSE, {}), A("db", TRUE, {})}, c \in {{}, C({})}}

Chained ==
  {a \cup b \cup c \cup D :
     a \in {{}} \cup {A("web", TRUE, j) : j \in {Via(RefB), Via(RefC), Via(RefD)}},
     b \in {B(j) : j \in {Bastion, Via(RefA)}},
     c \in {C(j) : j \in {{}, Via(RefA)}}}

MCHostSets == [Host |-> {A("web", TRUE, {}), {}}, Playbook |-> {{}}, SSHKey |-> {{}}, Inventory |-> Labelled]

MCFileSets ==
  [Host |-> {<<>>}, Inventory |-> {<<>>},
   Playbook |-> [{"content", "auth"} -> {"absent", "present"}],
   SSHKey |-> [key : {"absent", "keyless", "open1", "locked"},
               passphrase : {"absent", "passphrase"}]]

Ref(namespace, name) == [namespace |-> namespace, name |-> name]
Source(hostKind, selector) == [kind |-> hostKind, namespace |-> Nowhere, labelSelector |-> selector]
Group(name, sources) == [name |-> name, hostSources |-> sources]

Web == Select("=", {"web"})
NotDb == Select("NotIn", {"db"})

MCSpecs ==
  [Host |-> {[hostRef |-> <<>>], [hostRef |-> <<RefA>>], [hostRef |-> <<RefD>>]},
   Playbook |-> {[refs |-> <<>>], [refs |-> <<Ref("ns", "content"), Ref(Nowhere, "auth")>>],
                 [refs |-> <<Ref("other", "content")>>]},
   SSHKey |-> {[refs |-> <<Ref(Nowhere, "key")>>],
               [refs |-> <<Ref(Nowhere, "key"), Ref("ns", "passphrase")>>]},
   Inventory |-> {[groups |-> <<Group("g", <<Source("AnsibleHost", Web),
                                             Source("AnsibleHost", {})>>)>>],
                  [groups |-> <<Group("g", <<Source("AnsibleHost", NotDb)>>),
                                Group("h", <<Source("ClusterAnsibleHost", Web)>>)>>]}]

MCMaxFaults == [Host |-> 1, Playbook |-> 1, SSHKey |-> 0, Inventory |-> 0]

MCAmounts == 1..3

Grants ==
  [type : {"AnsibleHost", "*"}, namespaces : {{}, {"ns"}, {"other"}},
   labelSelector : {{}, {{}}, Web, NotDb},
   actions : {{"list"}, {"watch"}}]

MCUsers == {{p, q} : p, q \in Grants}

MCLists == {<<"AnsibleHost", "Namespaced", "ns">>, <<"AnsibleHost", "Namespaced", "other">>,
            <<"AnsibleHost", "Namespaced", Nowhere>>, <<"ClusterAnsibleHost", "Cluster", Nowhere>>}

MCAsked == {{}, labelSelectorToString(Web), labelSelectorToString(Select("In", {"db"}))}
=============================================================================
