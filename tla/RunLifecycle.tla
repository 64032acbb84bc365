---------------------------- MODULE RunLifecycle ----------------------------
(***************************************************************************)
(* What a user of an AnsibleRun is promised (docs/guide/crds.md, Status    *)
(* conventions; schemas/src/runs.ts, RUN_PHASES): the phase moves through  *)
(* Resolving and Running to one terminal phase and stays there, the        *)
(* terminal phase tells what happened to the playbook, and only a request  *)
(* cancels.  RunController is the detailed specification.                  *)
(***************************************************************************)

VARIABLES
  phase,      \* status.phase, "None" before the first one, "Deleted" at the end
  requested,  \* spec.cancel
  results     \* the ways a playbook of this run has ended

vars == <<phase, requested, results>>

Init == phase = "None" /\ requested = FALSE /\ results = {}

Request ==
  /\ phase # "Deleted" /\ ~requested
  /\ requested' = TRUE /\ UNCHANGED <<phase, results>>

Resolve ==
  /\ phase = "None" /\ phase' = "Resolving"
  /\ UNCHANGED <<requested, results>>

Start ==
  /\ phase = "Resolving" /\ phase' = "Running"
  /\ UNCHANGED <<requested, results>>

PlaybookEnds ==
  /\ \E r \in {"succeeded", "failed"} : results' = results \cup {r}
  /\ UNCHANGED <<phase, requested>>

Report ==
  /\ phase = "Running"
  /\ \/ "succeeded" \in results /\ phase' = "Succeeded"
     \/ "failed" \in results /\ phase' = "Failed"
  /\ UNCHANGED <<requested, results>>

GiveUp ==
  /\ phase \in {"None", "Resolving", "Running"} /\ phase' = "Error"
  /\ UNCHANGED <<requested, results>>

Cancel ==
  /\ phase \in {"Resolving", "Running"} /\ requested /\ phase' = "Cancelled"
  /\ UNCHANGED <<requested, results>>

Delete ==
  /\ phase # "Deleted" /\ phase' = "Deleted" /\ requested' = FALSE
  /\ UNCHANGED results

Next ==
  \/ Request \/ Resolve \/ Start \/ PlaybookEnds \/ Report
  \/ GiveUp \/ Cancel \/ Delete

Spec == Init /\ [][Next]_vars
=============================================================================
