------------------------ MODULE ReferenceControllers ------------------------
(***************************************************************************)
(* packages/operator/src/controllers: the controllers of hosts, playbooks, *)
(* SSH keys and inventories, which look up what an object refers to and    *)
(* say in its Ready condition whether it is there.  One object is modelled *)
(* with its place in the work queue (Workqueue has that in detail), other  *)
(* people's edits of it and of what it refers to, and several reconciles   *)
(* of it at a time: none waits for another.                                *)
(***************************************************************************)
EXTENDS References, Functions

CONSTANTS
  Kinds,            \* the kinds of object that are looked at
  Owner,            \* the object's namespace, or Nowhere
  Specs,            \* for each kind: what its spec may be
  HostSets,         \* for each kind: the hosts there may be
  FileSets,         \* for each kind: what ConfigMaps and Secrets may hold
  Workers,
  MaxEdits,
  MaxFaults         \* for each kind: calls that fail

(* What a spec lists is a sequence. *)
IsSequence(s) == s \in Seq(ToSet(s))

IsSpec(k, spec) ==
  CASE k = "Host" -> IsSequence(spec.hostRef)
    [] k \in {"Playbook", "SSHKey"} -> IsSequence(spec.refs)
    [] k = "Inventory" -> /\ IsSequence(spec.groups)
                          /\ \A i \in DOMAIN spec.groups : IsSequence(spec.groups[i].hostSources)

ASSUME ControllersAssumption ==
  /\ Kinds \subseteq {"Host", "Playbook", "SSHKey", "Inventory"} /\ MaxEdits \in Nat
  /\ \A k \in Kinds : \A spec \in Specs[k] : IsSpec(k, spec)

VARIABLES
  kind,
  hosts, files,     \* what is referred to
  obj,              \* the object, as the API server has it
  copy,             \* the object, as it is in the controller's cache
  unseen,           \* it has changed since
  armed,            \* its key is scheduled
  pc,
  snap,             \* the copy each reconcile was called with
  found,            \* what it has looked up so far
  edits, faults

worldVars == <<kind, hosts, files, edits>>
queueVars == <<copy, unseen, armed>>
localVars == <<pc, snap, found>>
vars == <<worldVars, obj, queueVars, localVars, faults>>

Reason(reason, about) == [reason |-> reason, about |-> about]

(* A reason stands for the message, too; result is the part of a status     *)
(* that is no condition. lastTransitionTime is left out, but it makes two   *)
(* objects different.                                                       *)
NewStatus == [ready |-> "none", reason |-> Reason("none", {}), generation |-> 0,
              result |-> <<>>]

NewObject(spec) == [spec |-> spec, generation |-> 1, status |-> NewStatus]

Init ==
  /\ kind \in Kinds /\ hosts \in HostSets[kind] /\ files \in FileSets[kind]
  /\ \E spec \in Specs[kind] : obj = NewObject(spec)
  /\ copy = obj /\ unseen = FALSE /\ armed = TRUE
  /\ pc = [w \in Workers |-> "idle"]
  /\ snap = [w \in Workers |-> obj] /\ found = [w \in Workers |-> <<>>]
  /\ edits = 0 /\ faults = 0

----------------------------------------------------------------------------
(* What a reconcile looks up, one after the other. *)
Lookups(spec) ==
  CASE kind = "Host" -> spec.hostRef
    [] kind \in {"Playbook", "SSHKey"} -> spec.refs
    [] kind = "Inventory" -> FlattenSeq([i \in DOMAIN spec.groups |-> spec.groups[i].hostSources])

Answer(ok, value) == [ok |-> ok, value |-> value]

LookUp(ref) ==
  CASE kind = "Host" -> Answer(resolveRef(hosts, ref, Owner) # {}, {})
    [] kind \in {"Playbook", "SSHKey"} ->
         LET namespace == resolveRefNamespace("Namespaced", ref.namespace, Owner)
         IN IF namespace = Nowhere /\ ref.name = "passphrase" THEN Answer(TRUE, "unread")
            ELSE Answer(namespace \notin {Refused, Nowhere} /\ files[ref.name] # "absent",
                        files[ref.name])
    [] kind = "Inventory" -> Answer(TRUE, ListSource(hosts, ref, Owner))

(* The first that fails is the last; and a key is looked at before its      *)
(* passphrase is.                                                           *)
Enough(spec, answers) ==
  \/ Len(answers) = Len(Lookups(spec))
  \/ answers # <<>> /\ ~Last(answers).ok
  \/ kind = "SSHKey" /\ answers # <<>> /\ answers[1].value = "keyless"

(* sshpk reads a key if it is one, and is not locked by another passphrase. *)
Parses(answers) ==
  \/ answers[1].value \in {"open1", "open2"}
  \/ answers[1].value = "locked" /\ Len(answers) = 2 /\ answers[2].value = "passphrase"

(* The answers for each group's sources. *)
GroupsOf(spec, answers) ==
  LET before(i) == FoldLeft(LAMBDA n, g : n + Len(g.hostSources), 0, SubSeq(spec.groups, 1, i - 1))
  IN [i \in DOMAIN spec.groups |->
        GroupHosts([j \in DOMAIN spec.groups[i].hostSources |-> answers[before(i) + j].value])]

Counts(spec, groups) ==
  [total |-> Cardinality({refKey(h) : h \in ToSet(FlattenSeq(groups))}),
   counts |-> [g \in {spec.groups[i].name : i \in DOMAIN groups} |->
                 Len(groups[CHOOSE i \in DOMAIN groups : spec.groups[i].name = g])]]

Empty(spec, groups) == {spec.groups[i].name : i \in {j \in DOMAIN groups : groups[j] = <<>>}}

Verdict(ready, reason, result) == [ready |-> ready, reason |-> reason, result |-> result]

Resolved(spec, groups) ==
  Verdict("True", IF Empty(spec, groups) = {} THEN Reason("Ready", {})
                  ELSE Reason("SelectorMatchedZero", Empty(spec, groups)),
          <<Counts(spec, groups)>>)

FailureOf(answers) ==
  CASE kind = "Host" -> "JumpHostNotFound"
    [] kind = "Inventory" -> "HostSourceNamespaceInvalid"
    [] kind = "SSHKey" -> IF Len(answers) = 1 THEN "SecretNotFound" ELSE "PassphraseNotFound"
    [] kind = "Playbook" -> "SourceNotFound"

Judge(spec, answers) ==
  IF answers # <<>> /\ ~Last(answers).ok
  THEN Verdict("False", Reason(FailureOf(answers), {Len(answers)}), <<>>)
  ELSE IF kind = "SSHKey" /\ answers[1].value = "keyless"
  THEN Verdict("False", Reason("NoSuchKey", {}), <<>>)
  ELSE IF kind = "SSHKey" /\ ~Parses(answers)
  THEN Verdict("False", Reason("InvalidKeyFormat", {}), <<>>)
  ELSE IF kind = "SSHKey" THEN Verdict("True", Reason("Ready", {}), <<answers[1].value>>)
  ELSE IF kind = "Inventory"
  THEN The({Resolved(spec, groups) : groups \in {GroupsOf(spec, answers)}})
  ELSE Verdict("True", Reason("Ready", {}), <<>>)

----------------------------------------------------------------------------
Return(w) ==
  /\ pc' = [pc EXCEPT ![w] = "idle"] /\ snap' = [snap EXCEPT ![w] = copy]
  /\ found' = [found EXCEPT ![w] = <<>>]

(* The operator or somebody else writes; a write that changes nothing is    *)
(* no event.                                                                *)
Write(new, differs) == obj' = new /\ unseen' \in {unseen \/ new # obj \/ d : d \in differs}

(* A patch. If the call fails, whether or not it was carried out, the       *)
(* reconcile throws and is repeated after a while.                          *)
Patch(w, new, differs, goOn) ==
  \/ Write(new, differs) /\ goOn /\ UNCHANGED <<worldVars, copy, armed, faults>>
  \/ /\ faults < MaxFaults[kind] /\ faults' = faults + 1
     /\ Write(new, differs) \/ Write(obj, {FALSE})
     /\ Return(w) /\ armed' = TRUE /\ UNCHANGED <<worldVars, copy>>

FireTimer(w) ==
  /\ armed /\ pc[w] = "idle"
  /\ armed' = FALSE
  /\ pc' = [pc EXCEPT ![w] = "look"] /\ snap' = [snap EXCEPT ![w] = copy]
  /\ UNCHANGED <<worldVars, obj, copy, unseen, found, faults>>

(* A lookup that fails for whatever reason counts as not found. *)
Look(w) ==
  /\ pc[w] = "look" /\ ~Enough(snap[w].spec, found[w])
  /\ LET ref == Lookups(snap[w].spec)[Len(found[w]) + 1]
     IN \/ found' = [found EXCEPT ![w] = Append(@, LookUp(ref))] /\ UNCHANGED faults
        \/ /\ faults < MaxFaults[kind] /\ faults' = faults + 1
           /\ found' = [found EXCEPT ![w] = Append(@, Answer(FALSE, LookUp(ref).value))]
  /\ UNCHANGED <<worldVars, obj, queueVars, pc, snap>>

(* A public key or the counts of an inventory are patched first; a merge    *)
(* patch leaves the counts of groups that are gone.                         *)
Merged(old, new) ==
  IF kind = "Inventory" /\ old # <<>>
  THEN <<[new[1] EXCEPT !.counts = @ @@ old[1].counts]>> ELSE new

PatchResult(w) ==
  /\ pc[w] = "look" /\ Enough(snap[w].spec, found[w])
  /\ \E result \in {Judge(snap[w].spec, found[w]).result} :
        /\ result # <<>>
        /\ Patch(w, [obj EXCEPT !.status.result = Merged(@, result)], {FALSE},
                 pc' = [pc EXCEPT ![w] = "ready"] /\ UNCHANGED <<snap, found>>)

ExistingNone(w, verdict) == NewStatus      \* mutant: the conditions are always lost

(* The conditions there were: of a status that was just computed, none. *)
Existing(w, verdict) == IF verdict.result # <<>> THEN NewStatus ELSE snap[w].status

SameStatus(status, verdict, generation) ==      \* mutant: compares less
  status.ready = verdict.ready

Same(status, verdict, generation) ==
  status.ready = verdict.ready /\ status.reason = verdict.reason /\ status.generation = generation

Condition(status, verdict, generation) ==
  [status EXCEPT !.ready = verdict.ready, !.reason = verdict.reason, !.generation = generation]

(* The time is now, or that of the existing condition if it was like this.  *)
NewTime(existing, verdict) == IF existing.ready = verdict.ready THEN BOOLEAN ELSE {TRUE}

(* patchReadyCondition, for the reconcile's copy of the object. *)
PatchReady(w) ==
  /\ pc[w] \in {"look", "ready"} /\ Enough(snap[w].spec, found[w])
  /\ \E verdict \in {Judge(snap[w].spec, found[w])}, generation \in {snap[w].generation} :
     LET existing == Existing(w, verdict)
     IN /\ pc[w] = "ready" \/ verdict.result = <<>>
        /\ \/ /\ Same(existing, verdict, generation)
              /\ Return(w) /\ UNCHANGED <<worldVars, obj, queueVars, faults>>
           \/ /\ ~Same(existing, verdict, generation)
              /\ Patch(w, [obj EXCEPT !.status = Condition(@, verdict, generation)],
                       NewTime(existing, verdict), Return(w))

----------------------------------------------------------------------------
(* The watch, or a list every ten minutes, brings the object as it is. *)
Deliver ==
  /\ unseen
  /\ copy' = obj /\ unseen' = FALSE /\ armed' = TRUE
  /\ UNCHANGED <<worldVars, obj, localVars, faults>>

Resync ==
  /\ copy' = obj /\ unseen' = FALSE /\ armed' = TRUE
  /\ UNCHANGED <<worldVars, obj, localVars, faults>>

EditSpec ==
  /\ edits < MaxEdits /\ edits' = edits + 1
  /\ \E spec \in Specs[kind] \ {obj.spec} :
       Write([obj EXCEPT !.spec = spec, !.generation = @ + 1], {FALSE})
  /\ UNCHANGED <<kind, hosts, files, copy, armed, localVars, faults>>

EditWorld ==
  /\ edits < MaxEdits /\ edits' = edits + 1
  /\ hosts' \in HostSets[kind] /\ files' \in FileSets[kind] /\ <<hosts, files>>' # <<hosts, files>>
  /\ UNCHANGED <<kind, obj, queueVars, localVars, faults>>

Reconcile(w) == Look(w) \/ PatchResult(w) \/ PatchReady(w)

Next ==
  \/ Deliver \/ Resync \/ EditSpec \/ EditWorld
  \/ \E w \in Workers : FireTimer(w) \/ Reconcile(w)

Spec == Init /\ [][Next]_vars

(* Timers fire and calls are answered. *)
FairSpec ==
  /\ Spec /\ WF_vars(Resync) /\ WF_vars(\E w \in Workers : FireTimer(w))
  /\ \A w \in Workers : WF_vars(Reconcile(w))

----------------------------------------------------------------------------
(* Properties *)

TypeOK ==
  /\ kind \in Kinds /\ hosts \in HostSets[kind] /\ files \in FileSets[kind]
  /\ \A o \in {obj, copy} \cup Range(snap) :
       o.spec \in Specs[kind] /\ o.generation \in 1..(MaxEdits + 1)
       /\ o.status.generation \in 0..o.generation
  /\ <<unseen, armed>> \in BOOLEAN \X BOOLEAN
  /\ pc \in [Workers -> {"idle", "look", "ready"}]
  /\ \A w \in Workers : Len(found[w]) <= Len(Lookups(snap[w].spec))

Truth ==
  LET refs == Lookups(obj.spec)
      answers == [i \in DOMAIN refs |-> LookUp(refs[i])]
      first == {i \in DOMAIN refs : Enough(obj.spec, SubSeq(answers, 1, i))}
  IN Judge(obj.spec, IF first = {} THEN answers ELSE SubSeq(answers, 1, Min(first)))

(* Ready says, in the end, whether the object's references resolve as they  *)
(* are and for the spec as it is, however edits, lookups that fail, stale   *)
(* copies and overlapping reconciles that patch in any order fell together; *)
(* and what is published with it is what was derived.                       *)
ReadySettles ==
  <>[](\E truth \in {Truth} :
         /\ obj.status.ready = truth.ready /\ obj.status.reason = truth.reason
         /\ obj.status.generation = obj.generation
         /\ kind = "SSHKey" /\ truth.ready = "True" => obj.status.result = truth.result
         /\ kind = "Inventory" => obj.status.result[1].total = truth.result[1].total)

(* "nothing changed - skip the PATCH": when nobody edits anything any more, *)
(* the operator stops writing.                                              *)
GoesQuiet == <>[]~unseen

(* It does for the kinds that publish nothing but the condition. *)
ChecksGoQuiet == <>[](unseen => kind \notin {"Host", "Playbook"})
=============================================================================
