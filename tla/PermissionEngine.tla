-------------------------- MODULE PermissionEngine --------------------------
(***************************************************************************)
(* packages/api/src/auth/permission-engine.ts: what the grants of a user   *)
(* allow, for one object and for a list, and the checks that the routes of *)
(* packages/api/src/modules/resource-routes.ts make with them.             *)
(*                                                                         *)
(* A grant is [type, namespaces, labelSelector, actions]; an object a      *)
(* record with kind, namespace, name and labels.  A cluster-scoped object  *)
(* has no namespace.                                                       *)
(***************************************************************************)
EXTENDS LabelSelector, Functions

NoNamespace == ""

Full == [type |-> "*", namespaces |-> {}, labelSelector |-> {}, actions |-> {"*"}]

matchesType(p, type) == p.type \in {"*", type}
matchesAction(p, action) == p.actions \cap {"*", action} # {}
namespaceMatches(p, namespace) ==
  p.namespaces = {} \/ namespace = NoNamespace \/ namespace \in p.namespaces

(* A user's own grants, those of the groups the session names, and all of   *)
(* them for an administrator.                                               *)
resolveEffectivePermissions(direct, groupNames, groups, role) ==
  direct \cup UNION {g.permissions : g \in {h \in groups : h.name \in groupNames}}
    \cup (IF role = "admin" THEN {Full} ELSE {})

hasAction(perms, type, action) == \E p \in perms : matchesType(p, type) /\ matchesAction(p, action)

canAct(perms, type, namespace, labels, action) ==
  \E p \in perms :
    /\ matchesType(p, type) /\ matchesAction(p, action)
    /\ namespaceMatches(p, namespace) /\ labelSelectorMatches(p.labelSelector, labels)

----------------------------------------------------------------------------
(* Lists. A plan is a set of calls, none of them if the list is denied; a   *)
(* call without a namespace is for all of them.                             *)
Entry(namespace, string) == [namespace |-> namespace, labelSelector |-> string]

(* One grant without a selector takes in all the others. *)
Collapsed(grants, namespace) ==
  IF \E p \in grants : p.labelSelector = {} THEN {Entry(namespace, {})}
  ELSE {Entry(namespace, labelSelectorToString(p.labelSelector)) : p \in grants}

Everywhere(grants) ==
  IF \E p \in grants : p.namespaces = {} /\ p.labelSelector = {} THEN {Entry(NoNamespace, {})}
  ELSE UNION {{Entry(ns, labelSelectorToString(p.labelSelector)) :
                 ns \in IF p.namespaces = {} THEN {NoNamespace} ELSE p.namespaces} : p \in grants}

InScopeAny(applicable, namespace) == applicable      \* mutant: whatever namespaces they are for

InScope(applicable, namespace) ==
  {p \in applicable : p.namespaces = {} \/ namespace \in p.namespaces}

planList(perms, kind, scope, action, requested) ==
  LET applicable == {p \in perms : matchesType(p, kind) /\ matchesAction(p, action)}
  IN IF scope = "Cluster" THEN Collapsed(applicable, NoNamespace)
     ELSE IF requested # NoNamespace THEN Collapsed(InScope(applicable, requested), requested)
     ELSE Everywhere(applicable)

andSelectors(a, b) == a \cup b

ListOne(objects, kind, entry, extra) ==
  {o \in objects :
     /\ o.kind = kind /\ entry.namespace \in {NoNamespace, o.namespace}
     /\ ServerMatches(andSelectors(entry.labelSelector, extra), o.labels)}

(* Several lists are merged by namespace and name. *)
executeListPlan(objects, kind, plan, extra) ==
  UNION {ListOne(objects, kind, entry, extra) : entry \in plan}

(* The events a watch relays, of all that the hub has under its key. *)
WatchFilter(perms, selector, o) ==
  /\ labelSelectorMatches(parseLabelSelectorString(selector), o.labels)
  /\ canAct(perms, o.kind, o.namespace, o.labels, "watch")

----------------------------------------------------------------------------
(* Single objects. *)

(* A patch may say nothing of labels (the empty set), or for some keys a    *)
(* value or null.                                                           *)
Null == "null"

mergedLabelsAfterPatch(current, patch) ==
  IF patch = {} THEN current
  ELSE LET labels == CHOOSE p \in patch : TRUE
           kept == {k \in DOMAIN current \cup DOMAIN labels :
                      k \in DOMAIN labels => labels[k] # Null}
       IN [k \in kept |-> IF k \in DOMAIN labels THEN labels[k] ELSE current[k]]

MayGet(perms, o) == canAct(perms, o.kind, o.namespace, o.labels, "get")
MayCreate(perms, o) == canAct(perms, o.kind, o.namespace, o.labels, "create")
MayDelete(perms, o) == canAct(perms, o.kind, o.namespace, o.labels, "delete")

(* The object must be one that may be changed, before and after. *)
MayReplace(perms, o, desired) ==
  /\ canAct(perms, o.kind, o.namespace, o.labels, "update")
  /\ canAct(perms, o.kind, o.namespace, desired, "update")

MayPatch(perms, o, patch) == MayReplace(perms, o, mergedLabelsAfterPatch(o.labels, patch))
=============================================================================
