--------------------------- MODULE ChangeRequest ---------------------------
(***************************************************************************)
(* packages/api/src/modules/change-requests.ts: proposed changes that are  *)
(* approved and applied, declined or withdrawn.  A handler runs until it   *)
(* awaits a call of the cluster; nothing locks a request meanwhile.        *)
(*                                                                         *)
(* A change is a record: action and name of the object it acts on, and an  *)
(* id, for a change is what a user once did in the UI.  Bodies are left    *)
(* out, and a call fails on an object that is missing or already there.    *)
(***************************************************************************)
EXTENDS SequencesExt, FiniteSetsExt, Naturals

CONSTANTS
  Changes,          \* what may be proposed
  Users,
  Grants,           \* the names each user may approve changes of
  Deleters,         \* who may delete any ChangeRequest
  Handlers,
  MaxRequests,
  MaxRaces,         \* how often a review may start beside another of its request
  MaxSlips          \* how many calls fail and pages and processes end early

ASSUME GrantsAssumption ==
  /\ Grants \in [Users -> SUBSET {c.name : c \in Changes}]
  /\ Deleters \subseteq Users

ASSUME ChangesAssumption ==
  /\ \A c \in Changes : c.action \in {"create", "update", "delete"}
  /\ MaxRequests \in Nat /\ MaxRaces \in Nat /\ MaxSlips \in Nat
  /\ IsFiniteSet(Handlers)

VARIABLES
  objects,          \* names of the objects in the cluster
  requests,         \* the ChangeRequests created so far
  step,             \* the call a handler awaits
  op,               \* what a handler is asked to do, and the results it has
  effects,          \* how often each change took effect through each request
  races,            \* how often a request was reviewed by two at the same time
  slips

handlerVars == <<step, op>>
apiVars == <<objects, requests, handlerVars, effects, races, slips>>

Phases == {"Pending", "Declined", "Applied", "Failed"}
Statuses == {"Applied", "Failed", "Skipped"}
Kinds == {"approve", "decline", "withdraw"}
NoReview == [kind |-> "none"]
Outright == 0                       \* no request: the change is made at once

InitialObjects == {c.name : c \in {d \in Changes : d.action # "create"}}

Init ==
  /\ objects = InitialObjects /\ requests = <<>>
  /\ step = [h \in Handlers |-> "idle"] /\ op = [h \in Handlers |-> NoReview]
  /\ effects = [r \in 0..MaxRequests |-> [c \in Changes |-> 0]]
  /\ races = [r \in 1..MaxRequests |-> 0] /\ slips = 0

----------------------------------------------------------------------------
(* A call fails: it is refused, or it took effect and its answer was lost. *)
Slip == slips < MaxSlips /\ slips' = slips + 1

Idle(h) == step' = [step EXCEPT ![h] = "idle"] /\ op' = [op EXCEPT ![h] = NoReview]

Goto(h, here) == step' = [step EXCEPT ![h] = here] /\ UNCHANGED op

(* client.create, patch and delete; bodies and conflicts are not modelled. *)
Possible(c) == IF c.action = "create" THEN c.name \notin objects ELSE c.name \in objects

TakeEffect(r, c) ==
  /\ objects' = CASE c.action = "create" -> objects \cup {c.name}
                  [] c.action = "delete" -> objects \ {c.name}
                  [] c.action = "update" -> objects
  /\ effects' = [effects EXCEPT ![r][c] = @ + 1]

(* POST /changerequests stamps the requester; status is left undefined. *)
NewRequest(by, changes) ==
  [by |-> by, changes |-> changes, stored |-> TRUE, phase |-> "Pending", results |-> <<>>]

Create(by, changes) ==
  /\ Len(requests) < MaxRequests
  /\ requests' = Append(requests, NewRequest(by, changes))

----------------------------------------------------------------------------
UnderReview(r) == {h \in Handlers : step[h] # "idle" /\ op[h].r = r}

OpenAny(r) == requests[r].stored       \* mutant: whatever its phase

Open(r) == requests[r].stored /\ requests[r].phase = "Pending"

(* client.get, and the check of the phase; a request that is not open is    *)
(* answered 404 or 409.                                                     *)
Review(h, kind, by, r) ==
  /\ step[h] = "idle" /\ kind \in {"approve", "decline"} /\ Open(r)
  /\ step' = [step EXCEPT ![h] = "permit"]
  /\ op' = [op EXCEPT ![h] = [kind |-> kind, by |-> by, r |-> r, results |-> <<>>]]
  /\ IF UnderReview(r) = {} THEN UNCHANGED races
     ELSE races[r] < MaxRaces /\ races' = [races EXCEPT ![r] = @ + 1]
  /\ UNCHANGED <<objects, requests, effects, slips>>

ChangesOf(h) == requests[op[h].r].changes

MayApprove(by, changes) == \A i \in DOMAIN changes : changes[i].name \in Grants[by]

(* resolveEffectivePermissions, and canAct for every change. *)
Permit(h) ==
  /\ step[h] = "permit"
  /\ IF ~MayApprove(op[h].by, ChangesOf(h)) THEN Idle(h)
     ELSE Goto(h, IF op[h].kind = "approve" THEN "apply" ELSE "record")
  /\ UNCHANGED <<objects, requests, effects, races, slips>>

(* After a change that failed the rest are skipped. *)
Skipping(results, n) == results \o [i \in 1..(n - Len(results)) |-> "Skipped"]

Apply(h) ==
  /\ step[h] = "apply"
  /\ LET n == Len(ChangesOf(h))
         results == op[h].results
         c == ChangesOf(h)[Len(results) + 1]
     IN \/ /\ Possible(c) /\ TakeEffect(op[h].r, c) /\ UNCHANGED slips
           /\ op' = [op EXCEPT ![h].results = Append(results, "Applied")]
           /\ step' = [step EXCEPT ![h] = IF Len(results) + 1 = n THEN "record" ELSE "apply"]
        \/ /\ \/ ~Possible(c) /\ UNCHANGED <<objects, effects, slips>>
              \/ Slip /\ UNCHANGED <<objects, effects>>
              \/ Possible(c) /\ TakeEffect(op[h].r, c) /\ Slip
           /\ op' = [op EXCEPT ![h].results = Skipping(Append(results, "Failed"), n)]
           /\ step' = [step EXCEPT ![h] = "record"]
  /\ UNCHANGED <<requests, races>>

OutcomeOfLast(results) ==           \* mutant: the last result decides
  IF results[Len(results)] = "Failed" THEN "Failed" ELSE "Applied"

Outcome(results) ==
  IF \A i \in DOMAIN results : results[i] = "Applied" THEN "Applied" ELSE "Failed"

(* patchStatus is a merge patch: a decline leaves results alone. *)
Decided(h) ==
  LET o == op[h] IN
  [requests EXCEPT ![o.r].phase = IF o.kind = "approve" THEN Outcome(o.results) ELSE "Declined",
                   ![o.r].results = IF o.kind = "approve" THEN o.results ELSE @]

(* The request is read once: it is patched whatever its phase is by now,    *)
(* and not at all if it was withdrawn.                                      *)
Record(h) ==
  /\ step[h] = "record" /\ Idle(h)
  /\ \/ requests[op[h].r].stored /\ requests' = Decided(h) /\ UNCHANGED slips
     \/ requests[op[h].r].stored /\ requests' = Decided(h) /\ Slip
     \/ ~requests[op[h].r].stored /\ UNCHANGED <<requests, slips>>
     \/ Slip /\ UNCHANGED requests
  /\ UNCHANGED <<objects, effects, races>>

(* Its requester withdraws a request that is not applied; others delete it. *)
MayDelete(by, r) ==
  \/ requests[r].by = by /\ requests[r].phase # "Applied"
  \/ by \in Deleters

Withdraw(h, by, r) ==
  /\ step[h] = "idle" /\ requests[r].stored /\ MayDelete(by, r)
  /\ step' = [step EXCEPT ![h] = "delete"]
  /\ op' = [op EXCEPT ![h] = [kind |-> "withdraw", by |-> by, r |-> r, results |-> <<>>]]
  /\ UNCHANGED <<objects, requests, effects, races, slips>>

Delete(h) ==
  /\ step[h] = "delete" /\ Idle(h)
  /\ \/ requests' = [requests EXCEPT ![op[h].r].stored = FALSE] /\ UNCHANGED slips
     \/ Slip /\ UNCHANGED requests
  /\ UNCHANGED <<objects, effects, races>>

(* The API process is restarted: its handlers are gone. *)
Crash ==
  /\ Slip /\ \E h \in Handlers : step[h] # "idle"
  /\ step' = [h \in Handlers |-> "idle"] /\ op' = [h \in Handlers |-> NoReview]
  /\ UNCHANGED <<objects, requests, effects, races>>

Handle(h) == Permit(h) \/ Apply(h) \/ Record(h) \/ Delete(h)

ReviewNext ==
  \/ Crash
  \/ \E h \in Handlers :
       \/ Handle(h)
       \/ \E by \in Users, r \in DOMAIN requests :
            Withdraw(h, by, r) \/ \E kind \in Kinds : Review(h, kind, by, r)

----------------------------------------------------------------------------
(* Properties *)

ReviewTypeOK ==
  /\ objects \subseteq {c.name : c \in Changes}
  /\ requests \in Seq([by : Users, changes : Seq(Changes), stored : BOOLEAN,
                       phase : Phases, results : Seq(Statuses)])
  /\ Len(requests) <= MaxRequests
  /\ step \in [Handlers -> {"idle", "permit", "apply", "record", "delete"}]
  /\ \A h \in Handlers : step[h] # "idle" =>
       /\ op[h].kind \in Kinds /\ op[h].by \in Users /\ op[h].r \in DOMAIN requests
       /\ op[h].results \in Seq(Statuses)
  /\ effects \in [0..MaxRequests -> [Changes -> Nat]]
  /\ races \in [1..MaxRequests -> 0..MaxRaces] /\ slips \in 0..MaxSlips

(* What is recorded is what happened: a request is Applied only if all its  *)
(* changes took effect through it, no change recorded as Applied did not,   *)
(* and what is Skipped follows one that failed.                             *)
RecordIsTrue ==
  \A r \in DOMAIN requests :
    LET q == requests[r] IN
    /\ q.phase = "Applied" => \A i \in DOMAIN q.changes : effects[r][q.changes[i]] > 0
    /\ \A i \in DOMAIN q.results :
         /\ q.results[i] = "Applied" => effects[r][q.changes[i]] > 0
         /\ q.results[i] = "Skipped" => \E j \in 1..(i - 1) : q.results[j] = "Failed"

(* A decision stands: a request once declined, applied or failed is never   *)
(* decided again, unless two reviews of it were under way at the same time. *)
DecisionStands ==
  [][\A r \in DOMAIN requests :
       races[r] = 0 /\ requests[r].phase # "Pending" => requests'[r].phase = requests[r].phase]_apiVars
============================================================================
