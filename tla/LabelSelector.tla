--------------------------- MODULE LabelSelector ---------------------------
(***************************************************************************)
(* packages/k8s-client/src/label-selector.ts: selectors, evaluated in      *)
(* memory, sent to the API server as a string, and read back from one.     *)
(*                                                                         *)
(* Labels are a function of the keys an object has.  A selector is a set   *)
(* of requirements, [key, operator, values], of which "=" stands for an    *)
(* entry of matchLabels; a selector that may be undefined is a set of at   *)
(* most one.  A string is the requirements it lists: in it an undefined    *)
(* selector and one that requires nothing are the same.                    *)
(***************************************************************************)
EXTENDS Integers, FiniteSets

Requirement(key, operator, values) == [key |-> key, operator |-> operator, values |-> values]

Meets(r, labels) ==
  LET has == r.key \in DOMAIN labels
  IN CASE r.operator \in {"=", "In"} -> has /\ labels[r.key] \in r.values
       [] r.operator = "NotIn" -> (has => labels[r.key] \notin r.values)
       [] r.operator = "Exists" -> has
       [] r.operator = "DoesNotExist" -> ~has

labelSelectorMatches(selector, labels) == \A s \in selector : \A r \in s : Meets(r, labels)

labelSelectorToString(selector) == UNION selector

(* What the API server takes such a string for. *)
ServerMatches(string, labels) == \A r \in string : Meets(r, labels)

(* The commas between the values of one requirement separate, too: each of  *)
(* the pieces "key in (a" and "b)" is taken for a key that must exist.      *)
Torn == "key in (a"

Pieces(r) ==
  IF r.operator \in {"In", "NotIn"} /\ Cardinality(r.values) > 1
  THEN Requirement(Torn, "Exists", {}) ELSE r

parseLabelSelectorString(string) ==
  IF string = {} THEN {} ELSE {{Pieces(r) : r \in string}}
=============================================================================
