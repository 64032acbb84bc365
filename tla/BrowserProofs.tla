-------------------------- MODULE BrowserProofs --------------------------
(***************************************************************************)
(* Two flows a browser and the API share: changes that are drafted,        *)
(* requested and decided, and signing in.  For any number of users,        *)
(* handlers, requests, tabs, browsers and providers, and whatever fails,   *)
(* restarts or is opened again meanwhile.                                  *)
(***************************************************************************)
EXTENDS ChangeDraft, LoginFlow, SequenceTheorems, FiniteSetTheorems, TLAPS

(***************************************************************************)
(* ChangeDraft: what is recorded of a change request is what happened, its *)
(* decision stands, and the draft a reload restores is the one that was    *)
(* shown (api/src/modules/change-requests.ts, ui/src/stores/               *)
(* changeRequestDraft.ts).                                                 *)
(***************************************************************************)

Request == [by : Users, changes : Seq(Changes), stored : BOOLEAN,
            phase : Phases, results : Seq(Statuses)]
Op == [kind : Kinds, by : Users, r : Nat, results : Seq(Statuses)]

(* Results, for the changes they are of, tell what took effect.             *)
TrueResults(r, results, changes) ==
  /\ Len(results) <= Len(changes)
  /\ \A i \in DOMAIN results :
       /\ results[i] = "Applied" => effects[r][changes[i]] > 0
       /\ results[i] = "Skipped" => \E j \in 1..(i - 1) : results[j] = "Failed"

RequestTrue(r, q) ==
  /\ q.changes # <<>> /\ TrueResults(r, q.results, q.changes)
  /\ q.phase = "Applied" => \A i \in DOMAIN q.changes : effects[r][q.changes[i]] > 0

(* What a handler has done when it is at a step.                            *)
HandlerTrue(here, o, changes) ==
  CASE here = "permit" -> o.kind \in {"approve", "decline"} /\ o.results = <<>>
    [] here = "apply" -> /\ o.kind = "approve" /\ TrueResults(o.r, o.results, changes)
                         /\ Len(o.results) < Len(changes)
                         /\ \A i \in DOMAIN o.results : o.results[i] = "Applied"
    [] here = "record" -> /\ o.kind \in {"approve", "decline"}
                          /\ o.kind = "approve" => /\ TrueResults(o.r, o.results, changes)
                                                   /\ Len(o.results) = Len(changes)
    [] here = "delete" -> o.kind = "withdraw"
    [] OTHER -> TRUE

Steps == {"idle", "permit", "apply", "record", "delete"}

HandlersInv ==
  /\ step \in [Handlers -> Steps] /\ op = [h \in Handlers |-> op[h]]
  /\ \A h \in Handlers : step[h] # "idle" =>
       /\ op[h] \in Op /\ op[h].r \in DOMAIN requests
       /\ HandlerTrue(step[h], op[h], requests[op[h].r].changes)

ApiType ==
  /\ objects \subseteq {c.name : c \in Changes} /\ effects \in [0..MaxRequests -> [Changes -> Nat]]
  /\ requests \in Seq(Request) /\ Len(requests) <= MaxRequests
  /\ races \in [1..MaxRequests -> 0..MaxRaces] /\ slips \in 0..MaxSlips

PageType ==
  /\ started \in BOOLEAN /\ items \in Seq(Changes)
  /\ envelope = None \/ envelope \in Seq(Changes)
  /\ sending = None \/ (sending \in Seq(Changes) /\ sending # <<>>)
  /\ todo \subseteq Changes
  /\ enabled \in BOOLEAN /\ shown \in BOOLEAN
  /\ toggles \in 0..MaxToggles

RequestsTrue == \A r \in DOMAIN requests : RequestTrue(r, requests[r])

Reviewing(h, r) == step[h] \in {"permit", "apply", "record"} /\ op[h].r = r

(* Unless two reviews of a request met, who reviews it is alone, and it is  *)
(* still to be decided.                                                     *)
Undisputed ==
  \A r \in DOMAIN requests : races[r] = 0 =>
    \A h \in Handlers : Reviewing(h, r) =>
      /\ requests[r].phase = "Pending"
      /\ \A g \in Handlers : Reviewing(g, r) => g = h

ApiInv == ApiType /\ HandlersInv /\ RequestsTrue /\ Undisputed
PageInv == PageType /\ DraftSurvives

----------------------------------------------------------------------------
(* Results *)

(* Nothing takes effects back.                                              *)
Grown ==
  /\ effects' \in [0..MaxRequests -> [Changes -> Nat]]
  /\ \A r \in 0..MaxRequests, c \in Changes : effects[r][c] > 0 => effects'[r][c] > 0

LEMMA ResultsStayTrue ==
  ASSUME NEW r \in 0..MaxRequests, NEW changes \in Seq(Changes), NEW results \in Seq(Statuses),
         TrueResults(r, results, changes), Grown
  PROVE  TrueResults(r, results, changes)'
<1>1. \A i \in DOMAIN results : i \in DOMAIN changes /\ changes[i] \in Changes
  BY DEF TrueResults
<1>2. QED
  BY <1>1 DEF TrueResults, Grown

LEMMA HandlersStayTrue ==
  ASSUME NEW changes \in Seq(Changes), NEW here, NEW o \in Op, o.r \in 0..MaxRequests,
         HandlerTrue(here, o, changes), Grown
  PROVE  HandlerTrue(here, o, changes)'
<1>1. o.results \in Seq(Statuses)
  BY DEF Op
<1>2. TrueResults(o.r, o.results, changes) => TrueResults(o.r, o.results, changes)'
  <2>1. PICK r \in 0..MaxRequests : r = o.r
    OBVIOUS
  <2>2. TrueResults(r, o.results, changes) => TrueResults(r, o.results, changes)'
    BY <1>1, ResultsStayTrue
  <2>3. QED
    BY <2>1, <2>2
<1>3. QED
  BY <1>2 DEF HandlerTrue

LEMMA RequestsStayTrue ==
  ASSUME NEW r \in 0..MaxRequests, NEW q \in Request, RequestTrue(r, q), Grown
  PROVE  RequestTrue(r, q)'
<1>1. q.changes \in Seq(Changes) /\ q.results \in Seq(Statuses)
  BY DEF Request
<1>2. TrueResults(r, q.results, q.changes)'
  BY <1>1, ResultsStayTrue DEF RequestTrue
<1>3. QED
  BY <1>1, <1>2 DEF RequestTrue, Grown

(* What is skipped comes after the change that failed.                      *)
LEMMA SkippingFacts ==
  ASSUME NEW some \in Seq(Statuses), NEW n \in Nat, Len(some) <= n
  PROVE  /\ Skipping(some, n) \in Seq(Statuses)
         /\ Len(Skipping(some, n)) = n
         /\ \A i \in 1..Len(some) : Skipping(some, n)[i] = some[i]
         /\ \A i \in (Len(some) + 1)..n : Skipping(some, n)[i] = "Skipped"
<1> DEFINE rest == [i \in 1..(n - Len(some)) |-> "Skipped"]
<1>1. rest \in Seq(Statuses) /\ Len(rest) = n - Len(some)
  <2>1. rest \in [1..(n - Len(some)) -> Statuses] /\ n - Len(some) \in Nat
    BY DEF Statuses
  <2>2. rest \in Seq(Statuses)
    BY <2>1, SeqDef
  <2>3. QED
    BY <2>1, <2>2, LenProperties
<1>2. QED
  BY <1>1, ConcatProperties DEF Skipping

(* A change that took effect, and one that failed, with what follows it.    *)
LEMMA OneMoreApplied ==
  ASSUME NEW r \in 0..MaxRequests, NEW changes \in Seq(Changes), NEW results \in Seq(Statuses),
         TrueResults(r, results, changes), Len(results) < Len(changes),
         Grown, effects'[r][changes[Len(results) + 1]] > 0
  PROVE  TrueResults(r, Append(results, "Applied"), changes)'
<1>1. TrueResults(r, results, changes)'
  BY ResultsStayTrue
<1>2. /\ Len(Append(results, "Applied")) = Len(results) + 1
      /\ \A i \in 1..Len(results) : Append(results, "Applied")[i] = results[i]
      /\ Append(results, "Applied")[Len(results) + 1] = "Applied"
      /\ DOMAIN Append(results, "Applied") = 1..(Len(results) + 1)
      /\ DOMAIN results = 1..Len(results) /\ Len(results) \in Nat
  OBVIOUS
<1>3. ASSUME NEW i \in 1..(Len(results) + 1)
      PROVE  /\ Append(results, "Applied")[i] = "Applied" => effects'[r][changes[i]] > 0
             /\ Append(results, "Applied")[i] = "Skipped" =>
                  \E j \in 1..(i - 1) : Append(results, "Applied")[j] = "Failed"
  <2>1. CASE i = Len(results) + 1
    BY <1>2, <2>1
  <2>2. CASE i \in 1..Len(results)
    BY <1>1, <1>2, <2>2 DEF TrueResults
  <2>3. QED
    BY <2>1, <2>2
<1>4. QED
  BY <1>2, <1>3 DEF TrueResults

LEMMA FailedAndSkipped ==
  ASSUME NEW r \in 0..MaxRequests, NEW changes \in Seq(Changes), NEW results \in Seq(Statuses),
         TrueResults(r, results, changes), Len(results) < Len(changes), Grown,
         NEW failed \in Seq(Statuses), Len(failed) = Len(results) + 1,
         \A i \in 1..Len(results) : failed[i] = results[i], failed[Len(failed)] = "Failed",
         NEW all, all = Skipping(failed, Len(changes))
  PROVE  all \in Seq(Statuses) /\ TrueResults(r, all, changes)' /\ Len(all) = Len(changes)
<1>1. TrueResults(r, results, changes)'
  BY ResultsStayTrue
<1>2. DOMAIN results = 1..Len(results) /\ Len(results) \in Nat /\ Len(changes) \in Nat
  OBVIOUS
<1>3. /\ all \in Seq(Statuses) /\ Len(all) = Len(changes)
      /\ \A i \in 1..Len(failed) : all[i] = failed[i]
      /\ \A i \in (Len(failed) + 1)..Len(changes) : all[i] = "Skipped"
  BY <1>2, SkippingFacts
<1>4. ASSUME NEW i \in 1..Len(changes)
      PROVE  /\ all[i] = "Applied" => effects'[r][changes[i]] > 0
             /\ all[i] = "Skipped" => \E j \in 1..(i - 1) : all[j] = "Failed"
  <2>1. CASE i \in 1..Len(results)
    <3>1. \A j \in 1..i : all[j] = results[j]
      BY <1>2, <1>3, <2>1
    <3>2. /\ results[i] = "Applied" => effects'[r][changes[i]] > 0
          /\ results[i] = "Skipped" => \E j \in 1..(i - 1) : results[j] = "Failed"
      BY <1>1, <1>2, <2>1 DEF TrueResults
    <3>3. QED
      BY <3>1, <3>2
  <2>2. CASE i = Len(results) + 1
    BY <1>2, <1>3, <2>2
  <2>3. CASE i > Len(results) + 1
    <3>1. Len(results) + 1 \in 1..(i - 1) /\ all[Len(results) + 1] = "Failed"
      BY <1>2, <1>3, <2>3
    <3>2. QED
      BY <3>1, <1>2, <1>3, <2>3
  <2>4. QED
    BY <1>2, <2>1, <2>2, <2>3
<1>5. QED
  BY <1>3, <1>4 DEF TrueResults
----------------------------------------------------------------------------
(* Steps of one handler *)

(* A request is never taken away, nor is what it proposes changed.          *)
Lasting ==
  /\ requests' \in Seq(Request) /\ DOMAIN requests \subseteq DOMAIN requests'
  /\ \A r \in DOMAIN requests : requests'[r].changes = requests[r].changes
  /\ Grown

LEMMA RequestTypes ==
  ASSUME ApiInv, NEW r \in DOMAIN requests
  PROVE  /\ requests[r] \in Request /\ requests[r].changes \in Seq(Changes)
         /\ r \in 1..MaxRequests /\ r \in 0..MaxRequests /\ races[r] \in 0..MaxRaces
<1>1. requests[r] \in Request /\ r \in 1..MaxRequests /\ r \in 0..MaxRequests
  BY ChangesAssumption DEF ApiInv, ApiType
<1>2. QED
  BY <1>1 DEF ApiInv, ApiType, Request

(* It is enough to look at the handler that moves.                          *)
LEMMA HandlerStep ==
  ASSUME ApiInv, NEW h \in Handlers, NEW here \in Steps, NEW o, NEW changes,
         step' = [step EXCEPT ![h] = here], op' = [op EXCEPT ![h] = o],
         here # "idle" => /\ o \in Op /\ o.r \in DOMAIN requests
                          /\ changes = requests[o.r].changes
                          /\ HandlerTrue(here, o, changes)',
         Lasting
  PROVE  HandlersInv'
<1>1. /\ step' \in [Handlers -> Steps] /\ op' = [g \in Handlers |-> op'[g]]
      /\ step'[h] = here /\ op'[h] = o
      /\ \A g \in Handlers \ {h} : step'[g] = step[g] /\ op'[g] = op[g]
  BY DEF ApiInv, HandlersInv
<1>2. ASSUME NEW g \in Handlers, step'[g] # "idle"
      PROVE  /\ op'[g] \in Op /\ op'[g].r \in DOMAIN requests'
             /\ HandlerTrue(step[g], op[g], requests[op[g].r].changes)'
  <2>1. CASE g = h
    <3>1. changes = requests'[o.r].changes
      BY <1>1, <1>2, <2>1 DEF Lasting
    <3>2. QED
      BY <1>1, <1>2, <2>1, <3>1 DEF Lasting
  <2>2. CASE g # h
    <3>1. PICK c, there, q : c = requests[op[g].r].changes /\ there = step[g] /\ q = op[g]
      OBVIOUS
    <3>2. q \in Op /\ q.r \in DOMAIN requests /\ HandlerTrue(there, q, c)
      BY <1>1, <1>2, <2>2, <3>1 DEF ApiInv, HandlersInv
    <3>3. c \in Seq(Changes) /\ q.r \in 0..MaxRequests
      BY <3>1, <3>2, RequestTypes
    <3>4. HandlerTrue(there, q, c)'
      BY <3>2, <3>3, HandlersStayTrue DEF Lasting
    <3>5. c = requests'[op'[g].r].changes /\ there = step'[g] /\ q = op'[g]
      BY <1>1, <2>2, <3>1, <3>2 DEF Lasting
    <3>6. QED
      BY <3>2, <3>4, <3>5 DEF Lasting
  <2>3. QED
    BY <2>1, <2>2
<1>3. QED
  BY <1>1, <1>2 DEF HandlersInv

(* A dispute needs another reviewer, or a decision while one reviews.       *)
LEMMA StillUndisputed ==
  ASSUME Undisputed, UNCHANGED races, DOMAIN requests' = DOMAIN requests,
         \A r \in DOMAIN requests, g \in Handlers :
           Reviewing(g, r)' => Reviewing(g, r) /\ (races[r] = 0 =>
             requests'[r].phase = requests[r].phase)
  PROVE  Undisputed'
BY DEF Undisputed

LEMMA ApiKept ==
  ASSUME ApiInv, UNCHANGED <<objects, effects, requests>>
  PROVE  Lasting /\ RequestsTrue'
BY DEF ApiInv, ApiType, Lasting, Grown, RequestsTrue, RequestTrue, TrueResults

LEMMA ReviewKeeps ==
  ASSUME ApiInv, NEW h \in Handlers, NEW kind \in Kinds, NEW by \in Users,
         NEW r \in DOMAIN requests, Review(h, kind, by, r)
  PROVE  ApiInv'
<1>1. /\ UNCHANGED <<objects, requests, effects, slips>>
      /\ step[h] = "idle" /\ kind \in {"approve", "decline"} /\ requests[r].phase = "Pending"
  BY DEF Review, Open
<1>2. PICK o : o = [kind |-> kind, by |-> by, r |-> r, results |-> <<>>]
  OBVIOUS
<1>3. step' = [step EXCEPT ![h] = "permit"] /\ op' = [op EXCEPT ![h] = o]
  BY <1>2 DEF Review
<1>4. o \in Op /\ o.r = r /\ HandlerTrue("permit", o, requests[r].changes)
  BY <1>1, <1>2 DEF ApiInv, ApiType, Op, HandlerTrue
<1>5. Lasting /\ RequestsTrue'
  BY <1>1, ApiKept
<1>6. HandlersInv'
  <2>1. HandlerTrue("permit", o, requests[r].changes)'
    BY <1>1, <1>4 DEF HandlerTrue
  <2>2. QED
    BY <1>1, <1>3, <1>4, <1>5, <2>1, HandlerStep DEF Steps
<1>7. /\ races' \in [1..MaxRequests -> 0..MaxRaces]
      /\ \A q \in 1..MaxRequests \ {r} : races'[q] = races[q]
      /\ races'[r] = 0 => UnderReview(r) = {}
  <2>1. /\ r \in 1..MaxRequests /\ races[r] \in 0..MaxRaces /\ MaxRaces \in Nat
        /\ races \in [1..MaxRequests -> 0..MaxRaces]
    BY RequestTypes, ChangesAssumption DEF ApiInv, ApiType
  <2>2. CASE UnderReview(r) = {}
    BY <2>1, <2>2 DEF Review
  <2>3. CASE races[r] < MaxRaces /\ races' = [races EXCEPT ![r] = races[r] + 1]
    BY <2>1, <2>3
  <2>4. QED
    BY <2>2, <2>3 DEF Review
<1>8. ApiType'
  BY <1>1, <1>7 DEF ApiInv, ApiType
<1>9. Undisputed'
  <2>1. \A g \in Handlers : step'[g] = (IF g = h THEN "permit" ELSE step[g]) /\
                            op'[g] = (IF g = h THEN o ELSE op[g])
    BY <1>3 DEF ApiInv, HandlersInv
  <2>2. ASSUME NEW q \in DOMAIN requests, races'[q] = 0, NEW g \in Handlers, Reviewing(g, q)'
        PROVE  /\ requests'[q].phase = "Pending"
               /\ \A f \in Handlers : Reviewing(f, q)' => f = g
    <3>1. CASE q # r
      <4>1. races[q] = 0
        BY <1>7, <2>2, <3>1, RequestTypes
      <4>3. \A f \in Handlers : Reviewing(f, q)' => Reviewing(f, q)
        BY <1>4, <2>1, <3>1 DEF Reviewing
      <4>2. QED
        BY <1>1, <2>2, <4>1, <4>3 DEF ApiInv, Undisputed
    <3>2. CASE q = r
      <4>1. UnderReview(r) = {}
        BY <1>7, <2>2, <3>2
      <4>2. \A f \in Handlers : Reviewing(f, r)' => f = h
        BY <2>1, <4>1 DEF UnderReview, Reviewing
      <4>3. QED
        BY <1>1, <2>2, <3>2, <4>2
    <3>3. QED
      BY <3>1, <3>2
  <2>3. QED
    BY <1>1, <2>2 DEF Undisputed
<1>10. QED
  BY <1>5, <1>6, <1>8, <1>9 DEF ApiInv
(* The state of a handler that is busy, in constants.                       *)
LEMMA BusyHandler ==
  ASSUME ApiInv, NEW h \in Handlers, step[h] # "idle"
  PROVE  \E o \in Op, changes \in Seq(Changes) :
           /\ o = op[h] /\ o.r \in DOMAIN requests /\ o.r \in 0..MaxRequests
           /\ changes = requests[o.r].changes /\ changes # <<>> /\ changes = ChangesOf(h)
           /\ HandlerTrue(step[h], o, changes)
<1>1. op[h] \in Op /\ op[h].r \in DOMAIN requests
      /\ HandlerTrue(step[h], op[h], requests[op[h].r].changes)
  BY DEF ApiInv, HandlersInv
<1>2. /\ requests[op[h].r].changes \in Seq(Changes) /\ requests[op[h].r].changes # <<>>
      /\ op[h].r \in 0..MaxRequests
  BY <1>1, RequestTypes DEF ApiInv, RequestsTrue, RequestTrue
<1>3. QED
  BY <1>1, <1>2 DEF ChangesOf

(* A handler that goes on with its review, or ends, while requests stay.    *)
LEMMA SameRequests ==
  ASSUME ApiInv, NEW h \in Handlers, NEW here \in Steps, NEW o,
         step' = [step EXCEPT ![h] = here], op' = [op EXCEPT ![h] = o],
         here \in {"permit", "apply", "record"} => Reviewing(h, o.r),
         UNCHANGED <<requests, races>>
  PROVE  Undisputed'
<1>1. \A g \in Handlers : step'[g] = (IF g = h THEN here ELSE step[g]) /\
                          op'[g] = (IF g = h THEN o ELSE op[g])
  BY DEF ApiInv, HandlersInv
<1>2. \A r \in DOMAIN requests, g \in Handlers : Reviewing(g, r)' => Reviewing(g, r)
  BY <1>1 DEF Reviewing
<1>3. QED
  BY <1>2, StillUndisputed DEF ApiInv

LEMMA PermitKeeps ==
  ASSUME ApiInv, NEW h \in Handlers, Permit(h)
  PROVE  ApiInv'
<1>1. UNCHANGED <<objects, requests, effects, races, slips>> /\ step[h] = "permit"
  BY DEF Permit
<1>2. PICK o \in Op, changes \in Seq(Changes) :
        /\ o = op[h] /\ o.r \in DOMAIN requests
        /\ changes = requests[o.r].changes /\ changes # <<>>
        /\ HandlerTrue("permit", o, changes)
  BY <1>1, BusyHandler
<1>3. Lasting /\ RequestsTrue' /\ ApiType'
  BY <1>1, ApiKept DEF ApiInv, ApiType
<1>4. CASE Idle(h)
  BY <1>1, <1>3, <1>4, HandlerStep, SameRequests DEF Idle, Steps, ApiInv
<1>5. CASE Goto(h, IF op[h].kind = "approve" THEN "apply" ELSE "record")
  <2>1. PICK here : here = IF o.kind = "approve" THEN "apply" ELSE "record"
    OBVIOUS
  <2>2. step' = [step EXCEPT ![h] = here] /\ op' = [op EXCEPT ![h] = o]
    BY <1>2, <1>5, <2>1 DEF Goto, ApiInv, HandlersInv
  <2>3. o.results = <<>> /\ o.kind \in {"approve", "decline"}
    BY <1>2 DEF HandlerTrue
  <2>4. HandlerTrue(here, o, changes)'
    BY <1>2, <2>1, <2>3 DEF HandlerTrue, TrueResults
  <2>5. here \in Steps
    BY <2>1 DEF Steps
  <2>6. HandlersInv'
    BY <1>2, <1>3, <2>2, <2>4, <2>5, HandlerStep
  <2>7. Undisputed'
    BY <1>1, <1>2, <2>2, <2>5, SameRequests DEF Reviewing
  <2>8. QED
    BY <1>3, <2>6, <2>7 DEF ApiInv
<1>6. QED
  BY <1>4, <1>5 DEF Permit

(* A change that takes effect counts, and objects keep their type.          *)
LEMMA EffectFacts ==
  ASSUME ApiInv, NEW r \in 0..MaxRequests, NEW c \in Changes, TakeEffect(r, c)
  PROVE  /\ objects' \subseteq {d.name : d \in Changes} /\ effects' \in [0..MaxRequests -> [Changes -> Nat]]
         /\ Grown /\ effects'[r][c] > 0
<1>1. /\ effects \in [0..MaxRequests -> [Changes -> Nat]] /\ objects \subseteq {d.name : d \in Changes}
      /\ effects' = [effects EXCEPT ![r][c] = @ + 1]
      /\ c.action \in {"create", "update", "delete"}
  BY ChangesAssumption DEF ApiInv, ApiType, TakeEffect
<1>2. objects' \subseteq {d.name : d \in Changes}
  BY <1>1 DEF TakeEffect
<1>3. QED
  BY <1>1, <1>2 DEF Grown

LEMMA ApplyKeeps ==
  ASSUME ApiInv, NEW h \in Handlers, Apply(h)
  PROVE  ApiInv'
<1>1. UNCHANGED <<requests, races>> /\ step[h] = "apply"
  BY DEF Apply
<1>2. PICK o \in Op, changes \in Seq(Changes) :
        /\ o = op[h] /\ o.r \in DOMAIN requests /\ o.r \in 0..MaxRequests
        /\ changes = requests[o.r].changes /\ changes = ChangesOf(h)
        /\ HandlerTrue("apply", o, changes)
  BY <1>1, BusyHandler
<1>3. /\ o.kind = "approve" /\ TrueResults(o.r, o.results, changes)
      /\ Len(o.results) < Len(changes) /\ o.results \in Seq(Statuses)
      /\ \A i \in DOMAIN o.results : o.results[i] = "Applied"
  BY <1>2 DEF HandlerTrue, Op
<1>4. PICK c \in Changes : c = changes[Len(o.results) + 1]
  BY <1>3
<1>5. /\ objects' \subseteq {d.name : d \in Changes} /\ effects' \in [0..MaxRequests -> [Changes -> Nat]]
      /\ Grown /\ slips' \in 0..MaxSlips
  <2>1. TakeEffect(o.r, c) \/ UNCHANGED <<objects, effects>>
    BY <1>2, <1>4 DEF Apply
  <2>2. slips' \in 0..MaxSlips
    BY ChangesAssumption DEF Apply, Slip, ApiInv, ApiType
  <2>3. CASE UNCHANGED <<objects, effects>>
    BY <2>2, <2>3 DEF Grown, ApiInv, ApiType
  <2>4. QED
    BY <1>2, <2>1, <2>2, <2>3, EffectFacts
<1>6. Lasting /\ ApiType' /\ RequestsTrue'
  <2>1. Lasting /\ ApiType'
    BY <1>1, <1>5 DEF Lasting, ApiInv, ApiType
  <2>2. ASSUME NEW r \in DOMAIN requests PROVE RequestTrue(r, requests[r])'
    <3>1. PICK q \in Request : r \in 0..MaxRequests /\ q = requests[r] /\ RequestTrue(r, q)
      BY RequestTypes DEF ApiInv, RequestsTrue
    <3>2. QED
      BY <1>1, <1>5, <3>1, RequestsStayTrue
  <2>3. QED
    BY <1>1, <2>1, <2>2 DEF RequestsTrue
<1>7. \E results \in Seq(Statuses), here \in {"apply", "record"} :
        /\ TrueResults(o.r, results, changes)'
        /\ here = "apply" => /\ Len(results) < Len(changes)
                             /\ \A i \in DOMAIN results : results[i] = "Applied"
        /\ here = "record" => Len(results) = Len(changes)
        /\ step' = [step EXCEPT ![h] = here]
        /\ op' = [op EXCEPT ![h].results = results]
  <2>1. CASE /\ TakeEffect(o.r, c)
             /\ op' = [op EXCEPT ![h].results = Append(o.results, "Applied")]
             /\ step' = [step EXCEPT ![h] = IF Len(o.results) + 1 = Len(changes)
                                            THEN "record" ELSE "apply"]
    <3>1. effects'[o.r][changes[Len(o.results) + 1]] > 0
      BY <1>2, <2>1, <1>4, EffectFacts
    <3>2. TrueResults(o.r, Append(o.results, "Applied"), changes)'
      BY <1>2, <1>3, <1>5, <3>1, OneMoreApplied
    <3>3. /\ Append(o.results, "Applied") \in Seq(Statuses)
          /\ Len(Append(o.results, "Applied")) = Len(o.results) + 1
          /\ \A i \in DOMAIN Append(o.results, "Applied") :
               Append(o.results, "Applied")[i] = "Applied"
      BY <1>3 DEF Statuses
    <3>4. Len(o.results) \in Nat /\ Len(changes) \in Nat
      BY <1>3
    <3>5. PICK here \in {"apply", "record"} :
            here = IF Len(o.results) + 1 = Len(changes) THEN "record" ELSE "apply"
      OBVIOUS
    <3>6. /\ here = "apply" => Len(o.results) + 1 < Len(changes)
          /\ here = "record" => Len(o.results) + 1 = Len(changes)
      BY <1>3, <3>4, <3>5
    <3>7. QED
      BY <2>1, <3>2, <3>3, <3>5, <3>6
  <2>2. CASE /\ op' = [op EXCEPT ![h].results =
                         Skipping(Append(o.results, "Failed"), Len(changes))]
             /\ step' = [step EXCEPT ![h] = "record"]
    <3>1. PICK failed : failed = Append(o.results, "Failed")
      OBVIOUS
    <3>2. /\ failed \in Seq(Statuses) /\ Len(failed) = Len(o.results) + 1
          /\ \A i \in 1..Len(o.results) : failed[i] = o.results[i]
          /\ failed[Len(failed)] = "Failed"
      BY <1>3, <3>1 DEF Statuses
    <3>3. PICK all : all = Skipping(failed, Len(changes))
      OBVIOUS
    <3>4. all \in Seq(Statuses) /\ TrueResults(o.r, all, changes)' /\ Len(all) = Len(changes)
      <4>1. PICK r \in 0..MaxRequests, some \in Seq(Statuses) : r = o.r /\ some = o.results
        BY <1>2, <1>3
      <4>2. /\ TrueResults(r, some, changes) /\ Len(some) < Len(changes)
            /\ Len(failed) = Len(some) + 1
            /\ \A i \in 1..Len(some) : failed[i] = some[i]
        BY <1>3, <3>2, <4>1
      <4>3. all \in Seq(Statuses) /\ TrueResults(r, all, changes)' /\ Len(all) = Len(changes)
        BY <1>5, <3>2, <3>3, <4>2, FailedAndSkipped
      <4>4. QED
        BY <4>1, <4>3
    <3>5. op' = [op EXCEPT ![h].results = all]
      BY <2>2, <3>1, <3>3
    <3>6. QED
      BY <2>2, <3>4, <3>5
  <2>3. QED
    BY <1>2, <1>4, <2>1, <2>2 DEF Apply
<1>8. PICK results \in Seq(Statuses), here \in {"apply", "record"} :
        /\ TrueResults(o.r, results, changes)'
        /\ here = "apply" => /\ Len(results) < Len(changes)
                             /\ \A i \in DOMAIN results : results[i] = "Applied"
        /\ here = "record" => Len(results) = Len(changes)
        /\ step' = [step EXCEPT ![h] = here]
        /\ op' = [op EXCEPT ![h].results = results]
  BY <1>7
<1>9. PICK p : p = [o EXCEPT !.results = results]
  OBVIOUS
<1>10. /\ p \in Op /\ p.r = o.r /\ p.kind = "approve" /\ p.results = results
       /\ op' = [op EXCEPT ![h] = p]
  BY <1>2, <1>3, <1>8, <1>9 DEF Op
<1>11. HandlerTrue(here, p, changes)'
  BY <1>8, <1>10 DEF HandlerTrue
<1>12. HandlersInv'
  <2>1. here \in Steps /\ step' = [step EXCEPT ![h] = here]
    BY <1>8 DEF Steps
  <2>2. p.r \in DOMAIN requests /\ changes = requests[p.r].changes
    BY <1>2, <1>10
  <2>3. QED
    BY <1>6, <1>10, <1>11, <2>1, <2>2, HandlerStep
<1>13. Undisputed'
  BY <1>1, <1>2, <1>8, <1>10, SameRequests DEF Reviewing, Steps
<1>14. QED
  BY <1>6, <1>12, <1>13 DEF ApiInv
(* A decision is recorded with the results of the review that made it; who  *)
(* else reviewed the request meanwhile was counted as a race.               *)
LEMMA RecordKeeps ==
  ASSUME ApiInv, NEW h \in Handlers, Record(h)
  PROVE  ApiInv'
<1>1. UNCHANGED <<objects, effects, races>> /\ step[h] = "record" /\ Idle(h)
  BY DEF Record
<1>2. PICK o \in Op, changes \in Seq(Changes) :
        /\ o = op[h] /\ o.r \in DOMAIN requests
        /\ changes = requests[o.r].changes /\ HandlerTrue("record", o, changes)
  BY <1>1, BusyHandler
<1>3. PICK q \in Request : q = requests[o.r] /\ RequestTrue(o.r, q)
  BY <1>2, RequestTypes DEF ApiInv, RequestsTrue
<1>4. slips' \in 0..MaxSlips
  BY ChangesAssumption DEF Record, Slip, ApiInv, ApiType
<1>5. Grown
  BY <1>1 DEF Grown, ApiInv, ApiType
<1>6. PICK d : d = [q EXCEPT !.phase = IF o.kind = "approve" THEN Outcome(o.results)
                                       ELSE "Declined",
                             !.results = IF o.kind = "approve" THEN o.results ELSE @]
  OBVIOUS
<1>7. d \in Request /\ d.changes = q.changes
  <2>1. Outcome(o.results) \in Phases /\ "Declined" \in Phases /\ o.results \in Seq(Statuses)
    BY DEF Outcome, Phases, Op
  <2>2. QED
    BY <1>6, <2>1 DEF Request
<1>8. RequestTrue(o.r, d)
  <2>1. CASE o.kind = "approve"
    <3>1. d.changes = changes /\ d.results = o.results /\ d.phase = Outcome(o.results)
      BY <1>2, <1>3, <1>6, <1>7, <2>1 DEF Request
    <3>2. TrueResults(o.r, o.results, changes) /\ Len(o.results) = Len(changes)
          /\ changes # <<>> /\ o.results \in Seq(Statuses)
      BY <1>2, <1>3, <2>1 DEF HandlerTrue, RequestTrue, Op
    <3>3. DOMAIN o.results = DOMAIN changes
      BY <3>2
    <3>4. Outcome(o.results) = "Applied" => \A i \in DOMAIN changes : effects[o.r][changes[i]] > 0
      BY <3>2, <3>3 DEF Outcome, TrueResults
    <3>5. QED
      BY <3>1, <3>2, <3>4 DEF RequestTrue
  <2>2. CASE o.kind # "approve"
    <3>1. d.results = q.results /\ d.phase = "Declined"
      BY <1>6, <2>2 DEF Request
    <3>2. QED
      BY <1>3, <1>7, <3>1 DEF RequestTrue
  <2>3. QED
    BY <2>1, <2>2
<1>9. requests' = requests \/ requests' = [requests EXCEPT ![o.r] = d]
  <2>1. Decided(h) = [requests EXCEPT ![o.r] = d]
    BY <1>2, <1>3, <1>6 DEF Decided
  <2>2. QED
    BY <2>1 DEF Record
<1>10. /\ requests' \in Seq(Request) /\ Len(requests') = Len(requests)
       /\ DOMAIN requests' = DOMAIN requests
       /\ \A r \in DOMAIN requests : r # o.r => requests'[r] = requests[r]
       /\ requests'[o.r] = q \/ requests'[o.r] = d
  <2>1. requests \in Seq(Request) /\ o.r \in DOMAIN requests
    BY <1>2 DEF ApiInv, ApiType
  <2>2. CASE requests' = requests
    BY <1>3, <2>1, <2>2
  <2>3. CASE requests' = [requests EXCEPT ![o.r] = d]
    BY <1>7, <2>1, <2>3
  <2>4. QED
    BY <1>9, <2>2, <2>3
<1>11. Lasting /\ ApiType' /\ RequestsTrue'
  <2>1. Lasting
    BY <1>2, <1>3, <1>5, <1>7, <1>10 DEF Lasting
  <2>2. ApiType'
    BY <1>1, <1>4, <1>10 DEF ApiInv, ApiType
  <2>3. ASSUME NEW r \in DOMAIN requests PROVE RequestTrue(r, requests[r])'
    <3>1. PICK p \in Request : r \in 0..MaxRequests /\ p = requests'[r] /\ RequestTrue(r, p)
      BY <1>2, <1>3, <1>7, <1>8, <1>10, RequestTypes DEF ApiInv, RequestsTrue
    <3>2. QED
      BY <1>5, <3>1, RequestsStayTrue
  <2>4. QED
    BY <1>10, <2>1, <2>2, <2>3 DEF RequestsTrue
<1>12. HandlersInv'
  BY <1>1, <1>11, HandlerStep DEF Idle, Steps
<1>13. Undisputed'
  <2>1. /\ \A g \in Handlers \ {h} : step'[g] = step[g] /\ op'[g] = op[g]
        /\ step'[h] = "idle"
    BY <1>1 DEF Idle, ApiInv, HandlersInv
  <2>2. ASSUME NEW r \in DOMAIN requests, NEW g \in Handlers, Reviewing(g, r)'
        PROVE  Reviewing(g, r) /\ (races[r] = 0 => requests'[r].phase = requests[r].phase)
    <3>1. g # h /\ Reviewing(g, r)
      BY <2>1, <2>2 DEF Reviewing
    <3>2. CASE r = o.r
      <4>1. Reviewing(h, r)
        BY <1>1, <1>2, <3>2 DEF Reviewing
      <4>2. races[r] # 0
        BY <3>1, <4>1 DEF ApiInv, Undisputed
      <4>3. QED
        BY <3>1, <4>2
    <3>3. CASE r # o.r
      BY <1>10, <3>1, <3>3
    <3>4. QED
      BY <3>2, <3>3
  <2>3. QED
    BY <1>1, <1>10, <2>2, StillUndisputed DEF ApiInv
<1>14. QED
  BY <1>11, <1>12, <1>13 DEF ApiInv

LEMMA WithdrawKeeps ==
  ASSUME ApiInv, NEW h \in Handlers, NEW by \in Users, NEW r \in DOMAIN requests,
         Withdraw(h, by, r)
  PROVE  ApiInv'
<1>1. UNCHANGED <<objects, requests, effects, races, slips>>
  BY DEF Withdraw
<1>2. PICK o : o = [kind |-> "withdraw", by |-> by, r |-> r, results |-> <<>>]
  OBVIOUS
<1>3. step' = [step EXCEPT ![h] = "delete"] /\ op' = [op EXCEPT ![h] = o]
  BY <1>2 DEF Withdraw
<1>4. o \in Op /\ o.r = r /\ o.kind = "withdraw"
  BY <1>2 DEF ApiInv, ApiType, Op, Kinds
<1>5. Lasting /\ RequestsTrue' /\ ApiType'
  BY <1>1, ApiKept DEF ApiInv, ApiType
<1>6. HandlersInv'
  <2>1. PICK changes : changes = requests[r].changes
    OBVIOUS
  <2>2. HandlerTrue("delete", o, changes)' /\ "delete" \in Steps
    BY <1>4 DEF HandlerTrue, Steps
  <2>3. QED
    BY <1>3, <1>4, <1>5, <2>1, <2>2, HandlerStep
<1>7. Undisputed'
  BY <1>1, <1>3, SameRequests DEF Steps
<1>8. QED
  BY <1>5, <1>6, <1>7 DEF ApiInv

LEMMA DeleteKeeps ==
  ASSUME ApiInv, NEW h \in Handlers, Delete(h)
  PROVE  ApiInv'
<1>1. UNCHANGED <<objects, effects, races>> /\ step[h] = "delete" /\ Idle(h)
  BY DEF Delete
<1>2. PICK o \in Op : o = op[h] /\ o.r \in DOMAIN requests
  BY <1>1, BusyHandler
<1>3. PICK q \in Request : q = requests[o.r] /\ RequestTrue(o.r, q)
  BY <1>2, RequestTypes DEF ApiInv, RequestsTrue
<1>4. slips' \in 0..MaxSlips
  BY ChangesAssumption DEF Delete, Slip, ApiInv, ApiType
<1>5. Grown
  BY <1>1 DEF Grown, ApiInv, ApiType
<1>6. PICK d : d = [q EXCEPT !.stored = FALSE]
  OBVIOUS
<1>7. /\ d \in Request /\ RequestTrue(o.r, d) /\ d.changes = q.changes /\ d.phase = q.phase
  BY <1>3, <1>6 DEF Request, RequestTrue
<1>8. requests' = requests \/ requests' = [requests EXCEPT ![o.r] = d]
  BY <1>2, <1>3, <1>6 DEF Delete
<1>9. /\ requests' \in Seq(Request) /\ Len(requests') = Len(requests)
      /\ DOMAIN requests' = DOMAIN requests
      /\ \A r \in DOMAIN requests : r # o.r => requests'[r] = requests[r]
      /\ requests'[o.r] = q \/ requests'[o.r] = d
  BY <1>2, <1>3, <1>7, <1>8 DEF ApiInv, ApiType
<1>10. Lasting /\ ApiType' /\ RequestsTrue'
  <2>1. Lasting
    BY <1>2, <1>3, <1>5, <1>7, <1>9 DEF Lasting
  <2>2. ApiType'
    BY <1>1, <1>4, <1>9 DEF ApiInv, ApiType
  <2>3. ASSUME NEW r \in DOMAIN requests PROVE RequestTrue(r, requests[r])'
    <3>1. PICK p \in Request : r \in 0..MaxRequests /\ p = requests'[r] /\ RequestTrue(r, p)
      BY <1>2, <1>3, <1>7, <1>9, RequestTypes DEF ApiInv, RequestsTrue
    <3>2. QED
      BY <1>5, <3>1, RequestsStayTrue
  <2>4. QED
    BY <1>9, <2>1, <2>2, <2>3 DEF RequestsTrue
<1>11. HandlersInv'
  BY <1>1, <1>10, HandlerStep DEF Idle, Steps
<1>12. Undisputed'
  <2>1. \A r \in DOMAIN requests, g \in Handlers : Reviewing(g, r)' => Reviewing(g, r)
    BY <1>1 DEF Idle, Reviewing, ApiInv, HandlersInv
  <2>2. \A r \in DOMAIN requests : requests'[r].phase = requests[r].phase
    BY <1>2, <1>3, <1>7, <1>9
  <2>3. QED
    BY <1>1, <1>9, <2>1, <2>2, StillUndisputed DEF ApiInv
<1>13. QED
  BY <1>10, <1>11, <1>12 DEF ApiInv

LEMMA CrashKeeps ==
  ASSUME ApiInv, Crash
  PROVE  ApiInv'
<1>1. /\ UNCHANGED <<objects, requests, effects, races>>
      /\ step' = [h \in Handlers |-> "idle"] /\ op' = [h \in Handlers |-> NoReview]
  BY DEF Crash
<1>2. slips' \in 0..MaxSlips
  BY ChangesAssumption DEF Crash, Slip, ApiInv, ApiType
<1>3. HandlersInv' /\ Undisputed'
  BY <1>1 DEF HandlersInv, Undisputed, Reviewing, Steps
<1>4. QED
  BY <1>1, <1>2, <1>3, ApiKept DEF ApiInv, ApiType
----------------------------------------------------------------------------
(* Steps of the page *)

LEMMA HandlersStay ==
  ASSUME ApiInv, Lasting, UNCHANGED handlerVars
  PROVE  HandlersInv'
<1>1. UNCHANGED <<step, op>>
  BY DEF handlerVars
<1>2. ASSUME NEW g \in Handlers, step[g] # "idle"
      PROVE  /\ op[g].r \in DOMAIN requests'
             /\ HandlerTrue(step[g], op[g], requests[op[g].r].changes)'
  <2>1. PICK c, there, q : c = requests[op[g].r].changes /\ there = step[g] /\ q = op[g]
    OBVIOUS
  <2>2. q \in Op /\ q.r \in DOMAIN requests /\ HandlerTrue(there, q, c)
    BY <1>2, <2>1 DEF ApiInv, HandlersInv
  <2>3. c \in Seq(Changes) /\ q.r \in 0..MaxRequests
    BY <2>1, <2>2, RequestTypes
  <2>4. HandlerTrue(there, q, c)'
    BY <2>2, <2>3, HandlersStayTrue DEF Lasting
  <2>5. c = requests'[op'[g].r].changes /\ there = step'[g] /\ q = op'[g]
    BY <1>1, <2>1, <2>2 DEF Lasting
  <2>6. QED
    BY <2>1, <2>2, <2>4, <2>5 DEF Lasting
<1>3. QED
  BY <1>1, <1>2 DEF ApiInv, HandlersInv

(* A request begins with nothing done, and without a reviewer.              *)
LEMMA CreateKeeps ==
  ASSUME ApiInv, NEW changes \in Seq(Changes), changes # <<>>, Create(Author, changes),
         UNCHANGED <<objects, handlerVars, effects, races>>, slips' \in 0..MaxSlips
  PROVE  ApiInv'
<1>1. PICK q : q = NewRequest(Author, changes)
  OBVIOUS
<1>2. q \in Request /\ q.changes = changes /\ q.results = <<>> /\ q.phase = "Pending"
  BY <1>1, DraftAssumption DEF NewRequest, Request, Phases
<1>3. /\ requests' \in Seq(Request) /\ Len(requests') = Len(requests) + 1
      /\ Len(requests') <= MaxRequests
      /\ \A r \in 1..Len(requests) : requests'[r] = requests[r]
      /\ requests'[Len(requests) + 1] = q
      /\ DOMAIN requests' = 1..(Len(requests) + 1) /\ DOMAIN requests = 1..Len(requests)
      /\ Len(requests) \in Nat
  BY <1>1, <1>2, ChangesAssumption DEF Create, ApiInv, ApiType
<1>4. Grown
  BY DEF Grown, ApiInv, ApiType
<1>5. Lasting /\ ApiType'
  BY <1>3, <1>4 DEF Lasting, ApiInv, ApiType
<1>6. RequestsTrue'
  <2>1. RequestTrue(Len(requests) + 1, q)
    BY <1>2 DEF RequestTrue, TrueResults
  <2>2. ASSUME NEW r \in DOMAIN requests' PROVE RequestTrue(r, requests[r])'
    <3>1. PICK p \in Request : r \in 0..MaxRequests /\ p = requests'[r] /\ RequestTrue(r, p)
      BY <1>2, <1>3, <2>1, RequestTypes DEF ApiInv, RequestsTrue
    <3>2. QED
      BY <1>4, <3>1, RequestsStayTrue
  <2>3. QED
    BY <2>2 DEF RequestsTrue
<1>7. HandlersInv'
  BY <1>5, HandlersStay
<1>8. Undisputed'
  <2>1. \A g \in Handlers : \A r : Reviewing(g, r)' => Reviewing(g, r) /\ r \in DOMAIN requests
    BY DEF Reviewing, handlerVars, ApiInv, HandlersInv
  <2>2. QED
    BY <1>3, <2>1 DEF ApiInv, Undisputed
<1>9. QED
  BY <1>5, <1>6, <1>7, <1>8 DEF ApiInv

LEMMA EffectKeeps ==
  ASSUME ApiInv, NEW c \in Changes, TakeEffect(Outright, c) \/ UNCHANGED <<objects, effects>>,
         UNCHANGED <<requests, handlerVars, races, slips>>
  PROVE  ApiInv'
<1>1. /\ objects' \subseteq {d.name : d \in Changes}
      /\ effects' \in [0..MaxRequests -> [Changes -> Nat]] /\ Grown
  <2>1. CASE UNCHANGED <<objects, effects>>
    BY <2>1 DEF ApiInv, ApiType, Grown
  <2>2. QED
    BY <2>1, EffectFacts, ChangesAssumption DEF Outright
<1>2. Lasting /\ ApiType'
  BY <1>1 DEF Lasting, ApiInv, ApiType
<1>3. ASSUME NEW r \in DOMAIN requests PROVE RequestTrue(r, requests[r])'
  <2>1. PICK q \in Request : r \in 0..MaxRequests /\ q = requests[r] /\ RequestTrue(r, q)
    BY RequestTypes DEF ApiInv, RequestsTrue
  <2>2. QED
    BY <1>1, <2>1, RequestsStayTrue
<1>4. Undisputed'
  BY DEF ApiInv, Undisputed, Reviewing, handlerVars
<1>5. QED
  BY <1>2, <1>3, <1>4, HandlersStay DEF ApiInv, RequestsTrue

LEMMA ApiUnchanged ==
  ASSUME ApiInv, UNCHANGED apiVars
  PROVE  ApiInv'
BY DEF apiVars, handlerVars, ApiInv, ApiType, HandlersInv, HandlerTrue, RequestsTrue, RequestTrue,
       TrueResults, Undisputed, Reviewing

LEMMA EmptyDraft == <<>> \in Seq(Changes) /\ None # <<>>
<1>1. <<>> \in Seq(Changes)
  BY EmptySeq
<1>2. QED
  BY <1>1, DraftAssumption, Zenon

(* Only the failed calls are counted.                                       *)
LEMMA SlipsKeep ==
  ASSUME ApiInv, UNCHANGED <<objects, requests, handlerVars, effects, races>>,
         slips' \in 0..MaxSlips
  PROVE  ApiInv'
<1>1. Lasting /\ RequestsTrue' /\ ApiType'
  BY ApiKept DEF ApiInv, ApiType
<1>2. HandlersInv'
  BY <1>1, HandlersStay
<1>3. Undisputed'
  BY DEF ApiInv, Undisputed, Reviewing, handlerVars
<1>4. QED
  BY <1>1, <1>2, <1>3 DEF ApiInv

(* What is sent is what the draft held, and something.                      *)
LEMMA CreateSent ==
  ASSUME ApiInv, PageType, sending # None, Create(Author, sending),
         UNCHANGED <<objects, handlerVars, effects, races>>, slips' \in 0..MaxSlips
  PROVE  ApiInv'
<1>1. PICK changes : changes = sending
  OBVIOUS
<1>2. changes \in Seq(Changes) /\ changes # <<>>
  BY <1>1 DEF PageType
<1>3. Create(Author, changes)
  BY <1>1
<1>4. QED
  BY <1>2, <1>3, CreateKeeps

(* The page keeps the saved draft in step with the one it shows; all it     *)
(* asks of the API is to make a change, or a request of some changes.       *)
LEMMA PageKeeps ==
  ASSUME ApiInv, PageInv, Page
  PROVE  ApiInv' /\ PageInv'
<1> USE DEF PageInv, PageType, DraftSurvives
<1>1. CASE Start
  BY <1>1, ApiUnchanged DEF Start, settingVars
<1>2. CASE Discard
  <2>1. ApiInv'
    BY <1>2, ApiUnchanged DEF Discard
  <2>2. PageInv'
    BY EmptyDraft, <1>2 DEF Discard, Clear, settingVars
  <2>3. QED
    BY <2>1, <2>2
<1>3. CASE Submit
  BY <1>3, ApiUnchanged, DraftAssumption DEF Submit, draftVars, settingVars
<1>4. CASE Submitted
  <2>1. PageInv'
    <3>1. CASE Clear
      BY EmptyDraft, <1>4, <3>1 DEF Submitted, Clear, settingVars
    <3>2. CASE UNCHANGED draftVars
      BY <1>4, <3>2 DEF Submitted, draftVars, settingVars
    <3>3. Clear \/ UNCHANGED draftVars
      BY <1>4, Zenon DEF Submitted, Done
    <3>4. QED
      BY <3>1, <3>2, <3>3
  <2>2. slips' \in 0..MaxSlips
    <3>1. slips' = slips \/ Slip
      BY <1>4 DEF Submitted
    <3>2. QED
      BY <3>1, ChangesAssumption DEF Slip, ApiInv, ApiType
  <2>3. ASSUME Create(Author, sending) PROVE ApiInv'
    BY <1>4, <2>2, <2>3, CreateSent DEF Submitted
  <2>4. ASSUME UNCHANGED requests PROVE ApiInv'
    BY <1>4, <2>2, <2>4, SlipsKeep DEF Submitted
  <2>5. QED
    BY <1>4, <2>1, <2>3, <2>4 DEF Submitted
<1>5. CASE Reload
  <2>1. PageInv'
    BY EmptyDraft, <1>5 DEF Reload
  <2>2. slips' \in 0..MaxSlips
    BY <1>5, ChangesAssumption DEF Reload, Slip, ApiInv, ApiType
  <2>3. ASSUME sending # None, Create(Author, sending) PROVE ApiInv'
    BY <1>5, <2>2, <2>3, CreateSent DEF Reload
  <2>4. ASSUME UNCHANGED requests PROVE ApiInv'
    BY <1>5, <2>2, <2>4, SlipsKeep DEF Reload
  <2>5. QED
    BY <1>5, <2>1, <2>3, <2>4 DEF Reload
<1>6. CASE LoadSettings
  BY <1>6, ApiUnchanged DEF LoadSettings, draftVars
<1>7. CASE Toggle
  BY <1>7, ApiUnchanged, DraftAssumption DEF Toggle, draftVars
<1>8. ASSUME NEW c \in Changes, Mutate(c) PROVE ApiInv' /\ PageInv'
  <2>1. PageInv'
    <3>1. CASE AddItem(c)
      BY <1>8, <3>1 DEF Mutate, AddItem, settingVars
    <3>2. CASE UNCHANGED draftVars
      BY <1>8, <3>2 DEF Mutate, draftVars, settingVars
    <3>3. QED
      BY <1>8, <3>1, <3>2 DEF Mutate
  <2>2. ApiInv'
    BY <1>8, EffectKeeps DEF Mutate
  <2>3. QED
    BY <2>1, <2>2
<1>9. ASSUME NEW i \in DOMAIN items, RemoveItem(i) PROVE ApiInv' /\ PageInv'
  <2>1. RemoveAt(items, i) \in Seq(Changes)
    BY DEF RemoveAt
  <2>2. QED
    BY <1>9, <2>1, ApiUnchanged DEF RemoveItem, settingVars
<1>10. QED
  BY <1>1, <1>2, <1>3, <1>4, <1>5, <1>6, <1>7, <1>8, <1>9 DEF Page

----------------------------------------------------------------------------
DraftInv == ApiInv /\ PageInv

LEMMA DraftInvInit == DraftInit => DraftInv
<1> SUFFICES ASSUME DraftInit PROVE DraftInv
  OBVIOUS
<1>1. ApiType
  <2>1. objects \subseteq {c.name : c \in Changes}
    BY DEF DraftInit, Init, InitialObjects
  <2>2. QED
    BY <2>1, ChangesAssumption DEF DraftInit, Init, ApiType
<1>2. HandlersInv /\ RequestsTrue /\ Undisputed
  BY DEF DraftInit, Init, HandlersInv, RequestsTrue, Undisputed, Steps
<1>3. PageInv
  <2>1. 0 \in 0..MaxToggles
    BY DraftAssumption
  <2>2. QED
    BY EmptyDraft, <2>1 DEF DraftInit, PageInv, PageType, DraftSurvives
<1>4. QED
  BY <1>1, <1>2, <1>3 DEF DraftInv, ApiInv

LEMMA DraftInvStep == DraftInv /\ [Next]_vars => DraftInv'
<1> SUFFICES ASSUME DraftInv, [Next]_vars PROVE DraftInv'
  OBVIOUS
<1> USE DEF DraftInv
<1>1. CASE Page
  BY <1>1, PageKeeps
<1>2. CASE ReviewNext /\ UNCHANGED pageVars
  <2>1. PageInv'
    BY <1>2 DEF pageVars, draftVars, settingVars, PageInv, PageType, DraftSurvives
  <2>2. ASSUME NEW h \in Handlers, Handle(h) PROVE ApiInv'
    BY <2>2, PermitKeeps, ApplyKeeps, RecordKeeps, DeleteKeeps DEF Handle
  <2>3. ASSUME NEW h \in Handlers, NEW by \in Users, NEW r \in DOMAIN requests,
               Withdraw(h, by, r) \/ \E kind \in Kinds : Review(h, kind, by, r)
        PROVE  ApiInv'
    BY <2>3, WithdrawKeeps, ReviewKeeps
  <2>4. QED
    BY <1>2, <2>1, <2>2, <2>3, CrashKeeps DEF ReviewNext
<1>3. CASE UNCHANGED vars
  BY <1>3, ApiUnchanged
     DEF vars, pageVars, draftVars, settingVars, PageInv, PageType, DraftSurvives
<1>4. QED
  BY <1>1, <1>2, <1>3 DEF Next

(* What handlers have done when they are at a step, what requests record,   *)
(* who reviews them, and the draft and its copy, belong together, however   *)
(* reviews, failures, restarts and the pages of the author interleave.      *)
THEOREM DraftInvariant == Spec => []DraftInv
BY DraftInvInit, DraftInvStep, PTL DEF Spec

(* Every variable keeps its type.                                           *)
THEOREM TypeCorrect == Spec => []DraftTypeOK
<1>1. DraftInv => DraftTypeOK
  BY DEF DraftInv, ApiInv, PageInv, ApiType, PageType, HandlersInv, DraftTypeOK, ReviewTypeOK,
         Request, Op, Steps
<1>2. QED
  BY <1>1, DraftInvariant, PTL

(* What is recorded of a request is what happened: changes recorded as      *)
(* Applied took effect, all of them if the request is Applied, and what was *)
(* Skipped follows one that failed.                                         *)
THEOREM RecordsTrue == Spec => []RecordIsTrue
<1>1. DraftInv => RecordIsTrue
  <2> SUFFICES ASSUME DraftInv, NEW r \in DOMAIN requests
               PROVE  LET q == requests[r] IN
                      /\ q.phase = "Applied" => \A i \in DOMAIN q.changes : effects[r][q.changes[i]] > 0
                      /\ \A i \in DOMAIN q.results :
                           /\ q.results[i] = "Applied" => effects[r][q.changes[i]] > 0
                           /\ q.results[i] = "Skipped" =>
                                \E j \in 1..(i - 1) : q.results[j] = "Failed"
    BY DEF RecordIsTrue
  <2>1. RequestTrue(r, requests[r])
    BY DEF DraftInv, ApiInv, RequestsTrue
  <2>2. QED
    BY <2>1 DEF RequestTrue, TrueResults
<1>2. QED
  BY <1>1, DraftInvariant, PTL

(* "This draft survives a page reload": its saved copy is what is shown.    *)
THEOREM DraftKept == Spec => []DraftSurvives
<1>1. DraftInv => DraftSurvives
  BY DEF DraftInv, PageInv
<1>2. QED
  BY <1>1, DraftInvariant, PTL

(* A request that was declined, applied or failed is never decided again    *)
(* unless two reviews of it met, though no lock and no version guards it.   *)
THEOREM DecisionsStand == Spec => DecisionStands
<1>1. DraftInv /\ [Next]_vars =>
        [\A r \in DOMAIN requests :
           races[r] = 0 /\ requests[r].phase # "Pending" =>
             requests'[r].phase = requests[r].phase]_apiVars
  <2> SUFFICES ASSUME DraftInv, [Next]_vars, NEW r \in DOMAIN requests,
                      races[r] = 0, requests[r].phase # "Pending"
               PROVE  requests'[r].phase = requests[r].phase
    OBVIOUS
  <2>1. requests \in Seq(Request)
    BY DEF DraftInv, ApiInv, ApiType
  <2>2. CASE UNCHANGED requests
    BY <2>2
  <2>3. CASE \E changes : Create(Author, changes)
    BY <2>1, <2>3 DEF Create
  <2>4. ASSUME NEW h \in Handlers, Record(h)
        PROVE  requests'[r].phase = requests[r].phase
    <3>1. Reviewing(h, op[h].r) /\ op[h].r \in DOMAIN requests
      BY <2>4 DEF Record, Reviewing, DraftInv, ApiInv, HandlersInv
    <3>2. op[h].r # r
      BY <3>1 DEF DraftInv, ApiInv, Undisputed
    <3>3. QED
      BY <2>1, <2>4, <3>2 DEF Record, Decided
  <2>5. ASSUME NEW h \in Handlers, Delete(h)
        PROVE  requests'[r].phase = requests[r].phase
    <3>1. PICK q \in Nat : q = op[h].r /\ q \in DOMAIN requests
      BY <2>5 DEF Delete, DraftInv, ApiInv, HandlersInv, Op
    <3>2. PICK d : d = [requests[q] EXCEPT !.stored = FALSE]
      OBVIOUS
    <3>3. d.phase = requests[q].phase
      BY <2>1, <3>1, <3>2 DEF Request
    <3>4. requests' = requests \/ requests' = [requests EXCEPT ![q] = d]
      BY <2>5, <3>1, <3>2 DEF Delete
    <3>5. QED
      BY <2>1, <3>1, <3>3, <3>4
  <2>6. CASE Page
    BY <2>2, <2>3, <2>6 DEF Page, Start, Discard, Submit, Submitted, Reload, LoadSettings, Toggle,
                            Mutate, RemoveItem, apiVars
  <2>7. CASE ReviewNext
    BY <2>2, <2>4, <2>5, <2>7 DEF ReviewNext, Crash, Handle, Permit, Apply, Withdraw, Review
  <2>8. QED
    BY <2>2, <2>6, <2>7 DEF Next, vars, apiVars
<1>2. QED
  BY <1>1, DraftInvariant, PTL DEF Spec, DecisionStands
----------------------------------------------------------------------------
(* How often a change takes effect *)

Holds(changes, c) == \E i \in DOMAIN changes : changes[i] = c
Distinct(changes) == \A i, j \in DOMAIN changes : changes[i] = changes[j] => i = j
AtHand(c) == Holds(items, c) \/ (sending # None /\ Holds(sending, c))
One(b) == IF b THEN 1 ELSE 0

(* A change waits in the draft, in the submit under way or in requests,     *)
(* once in each, and each request but the first has cost a slip.            *)
Once(c) == effects[Outright][c] + Cardinality(Proposals(c)) + One(AtHand(c)) <= 1 + slips

ItemsInv ==
  /\ Distinct(items) /\ (sending # None => Distinct(sending))
  /\ \A r \in DOMAIN requests : Distinct(requests[r].changes)
  /\ \A c \in todo : ~AtHand(c) /\ effects[Outright][c] = 0 /\ Proposals(c) = {}
  /\ \A c \in Changes : Once(c)

(* The reviews of a request that have not come to a change yet, and whether *)
(* another may begin by itself.                                             *)
Later(changes, n, c) == \E i \in DOMAIN changes : i > n /\ changes[i] = c

Coming(r, c) ==
  {h \in Handlers : /\ Reviewing(h, r)
                    /\ \/ step[h] = "permit"
                       \/ step[h] = "apply" /\ Later(requests[r].changes, Len(op[h].results), c)}

Free(r) == /\ requests[r].stored /\ requests[r].phase = "Pending"
           /\ \A h \in Handlers : ~Reviewing(h, r)

Times(r, c) ==
  effects[r][c] + Cardinality(Coming(r, c)) + One(Free(r)) <= 1 + slips + races[r]

TimesInv ==
  /\ \A r \in 1..MaxRequests \ DOMAIN requests : \A c \in Changes : effects[r][c] = 0
  /\ \A r \in DOMAIN requests, c \in Changes : Times(r, c)

OnceInv == ItemsInv /\ TimesInv

LEMMA OneFacts == /\ \A b : One(b) \in {0, 1} /\ (b => One(b) = 1) /\ (~b => One(b) = 0)
                  /\ \A a, b : (a => b) => One(a) <= One(b)
BY DEF One

LEMMA CountTypes ==
  ASSUME ApiInv
  PROVE  /\ slips \in Nat
         /\ \A r \in DOMAIN requests, c \in Changes :
              /\ effects[r][c] \in Nat /\ races[r] \in Nat
              /\ IsFiniteSet(Coming(r, c)) /\ Cardinality(Coming(r, c)) \in Nat
         /\ \A c \in Changes :
              /\ effects[Outright][c] \in Nat
              /\ IsFiniteSet(Proposals(c)) /\ Cardinality(Proposals(c)) \in Nat
<1>1. slips \in Nat
  BY ChangesAssumption DEF ApiInv, ApiType
<1>2. ASSUME NEW r \in DOMAIN requests, NEW c \in Changes
      PROVE  /\ effects[r][c] \in Nat /\ races[r] \in Nat
             /\ IsFiniteSet(Coming(r, c)) /\ Cardinality(Coming(r, c)) \in Nat
  <2>1. effects[r][c] \in Nat /\ races[r] \in Nat
    <3>1. r \in 0..MaxRequests /\ races[r] \in 0..MaxRaces
      BY RequestTypes
    <3>2. effects[r] \in [Changes -> Nat]
      BY <3>1 DEF ApiInv, ApiType
    <3>3. QED
      BY <3>1, <3>2, ChangesAssumption
  <2>2. Coming(r, c) \in SUBSET Handlers
    BY DEF Coming
  <2>3. QED
    BY <2>1, <2>2, ChangesAssumption, FS_Subset, FS_CardinalityType
<1>3. ASSUME NEW c \in Changes
      PROVE  /\ effects[Outright][c] \in Nat
             /\ IsFiniteSet(Proposals(c)) /\ Cardinality(Proposals(c)) \in Nat
  <2>1. Len(requests) \in Nat /\ DOMAIN requests = 1..Len(requests)
    BY DEF ApiInv, ApiType
  <2>2. IsFiniteSet(1..Len(requests)) /\ Proposals(c) \in SUBSET (1..Len(requests))
    BY <2>1, FS_Interval DEF Proposals
  <2>3. effects[Outright][c] \in Nat
    BY ChangesAssumption DEF ApiInv, ApiType, Outright
  <2>4. QED
    BY <2>2, <2>3, FS_Subset, FS_CardinalityType
<1>4. QED
  BY <1>1, <1>2, <1>3

(* What a step may do to the count of one request and change: nothing, cost *)
(* a slip, begin a review, or end or go on with one that had it to come.    *)
LEMMA TimesStep ==
  ASSUME ApiInv, ApiInv', NEW r \in DOMAIN requests, r \in DOMAIN requests', NEW c \in Changes,
         Times(r, c), NEW h, slips <= slips', races[r] <= races'[r],
         \/ /\ effects'[r][c] = effects[r][c] /\ Coming(r, c)' \subseteq Coming(r, c)
            /\ (Free(r)' => Free(r)) \/ slips' = slips + 1
         \/ /\ effects'[r][c] = effects[r][c] /\ Coming(r, c)' \subseteq Coming(r, c) \cup {h}
            /\ ~Free(r)' /\ (Free(r) \/ races'[r] = races[r] + 1)
         \/ /\ h \in Coming(r, c) /\ Coming(r, c)' \subseteq Coming(r, c) \ {h}
            /\ \/ effects'[r][c] = effects[r][c]
               \/ effects'[r][c] = effects[r][c] + 1 /\ ~Free(r)'
  PROVE  Times(r, c)'
<1>1. PICK C, D, e, f, s, t, p, q :
        /\ C = Coming(r, c) /\ D = Coming(r, c)' /\ e = effects[r][c] /\ f = effects'[r][c]
        /\ s = slips /\ t = slips' /\ p = races[r] /\ q = races'[r]
  OBVIOUS
<1>2. /\ {e, f, s, t, p, q} \subseteq Nat /\ IsFiniteSet(C) /\ IsFiniteSet(D)
      /\ Cardinality(C) \in Nat /\ Cardinality(D) \in Nat
  <2>1. {e, s, p} \subseteq Nat /\ IsFiniteSet(C) /\ Cardinality(C) \in Nat
    BY <1>1, CountTypes
  <2>2. {f, t, q} \subseteq Nat /\ IsFiniteSet(D) /\ Cardinality(D) \in Nat
    <3>1. f \in Nat /\ t \in Nat /\ q \in Nat
      <4>1. r \in 0..MaxRequests /\ r \in 1..MaxRequests
        BY RequestTypes
      <4>2. /\ effects'[r] \in [Changes -> Nat] /\ races'[r] \in 0..MaxRaces
            /\ slips' \in 0..MaxSlips
        BY <4>1 DEF ApiInv, ApiType
      <4>3. QED
        BY <1>1, <4>2, ChangesAssumption
    <3>2. D \in SUBSET Handlers
      BY <1>1 DEF Coming
    <3>3. QED
      BY <3>1, <3>2, ChangesAssumption, FS_Subset, FS_CardinalityType
  <2>3. QED
    BY <2>1, <2>2
<1>3. PICK a \in {0, 1}, b \in {0, 1} :
        /\ a = One(Free(r)) /\ b = One(Free(r)')
        /\ (Free(r) => a = 1) /\ (~Free(r)' => b = 0) /\ ((Free(r)' => Free(r)) => b <= a)
  BY OneFacts
<1>4. e + Cardinality(C) + a <= 1 + s + p
  BY <1>1, <1>3 DEF Times
<1>5. s <= t /\ p <= q
  BY <1>1
<1>6. f + Cardinality(D) + b <= 1 + t + q
  <2>1. CASE f = e /\ D \subseteq C /\ ((Free(r)' => Free(r)) \/ t = s + 1)
    <3>1. Cardinality(D) <= Cardinality(C)
      BY <1>2, <2>1, FS_Subset
    <3>2. b <= a \/ t = s + 1
      BY <1>3, <2>1
    <3>3. QED
      BY <1>2, <1>4, <1>5, <2>1, <3>1, <3>2
  <2>2. CASE f = e /\ D \subseteq C \cup {h} /\ ~Free(r)' /\ (Free(r) \/ q = p + 1)
    <3>1. Cardinality(D) <= Cardinality(C) + 1
      <4>1. IsFiniteSet(C \cup {h}) /\ Cardinality(C \cup {h}) <= Cardinality(C) + 1
            /\ Cardinality(C \cup {h}) \in Nat
        <5>1. /\ IsFiniteSet(C \cup {h})
              /\ Cardinality(C \cup {h}) = IF h \in C THEN Cardinality(C) ELSE Cardinality(C) + 1
          BY <1>2, FS_AddElement
        <5>2. QED
          BY <1>2, <5>1
      <4>2. Cardinality(D) <= Cardinality(C \cup {h})
        BY <2>2, <4>1, FS_Subset
      <4>3. QED
        BY <1>2, <4>1, <4>2
    <3>2. b = 0 /\ (a = 1 \/ q = p + 1)
      BY <1>3, <2>2
    <3>3. QED
      BY <1>2, <1>4, <1>5, <2>2, <3>1, <3>2
  <2>3. CASE h \in C /\ D \subseteq C \ {h} /\ (f = e \/ (f = e + 1 /\ ~Free(r)'))
    <3>1. Cardinality(D) + 1 <= Cardinality(C)
      <4>1. IsFiniteSet(C \ {h}) /\ Cardinality(C \ {h}) = Cardinality(C) - 1
        BY <1>2, <2>3, FS_RemoveElement
      <4>2. Cardinality(D) <= Cardinality(C \ {h})
        BY <2>3, <4>1, FS_Subset
      <4>3. QED
        BY <1>2, <4>1, <4>2
    <3>2. f = e \/ (f = e + 1 /\ b = 0)
      BY <1>3, <2>3
    <3>3. QED
      BY <1>2, <1>4, <1>5, <3>1, <3>2
  <2>4. QED
    BY <1>1, <2>1, <2>2, <2>3
<1>7. QED
  BY <1>1, <1>3, <1>6 DEF Times

(* A handler that moves leaves the reviews of the others alone.             *)
OneMoves(h) == \A g \in Handlers \ {h} : step'[g] = step[g] /\ op'[g] = op[g]

LEMMA ComingFacts ==
  ASSUME NEW h \in Handlers, OneMoves(h), NEW r, NEW c, requests'[r].changes = requests[r].changes
  PROVE  /\ Coming(r, c)' \subseteq Coming(r, c) \cup {h}
         /\ Coming(r, c)' \ {h} \subseteq Coming(r, c) \ {h}
         /\ \A g \in Handlers \ {h} : Reviewing(g, r)' <=> Reviewing(g, r)
BY DEF Coming, Reviewing, OneMoves

LEMMA Elsewhere ==
  ASSUME ApiInv, ApiInv', NEW h \in Handlers, OneMoves(h), NEW r \in DOMAIN requests,
         r \in DOMAIN requests', NEW c \in Changes, Times(r, c),
         ~Reviewing(h, r), ~Reviewing(h, r)', requests'[r].changes = requests[r].changes,
         requests'[r].stored /\ requests'[r].phase = "Pending" =>
           requests[r].stored /\ requests[r].phase = "Pending",
         effects'[r][c] = effects[r][c], slips <= slips', races'[r] = races[r]
  PROVE  Times(r, c)'
<1>1. Coming(r, c)' \subseteq Coming(r, c)
  BY ComingFacts DEF Coming
<1>2. Free(r)' => Free(r)
  BY ComingFacts DEF Free
<1>3. races[r] <= races'[r]
  BY CountTypes
<1>4. QED
  BY <1>1, <1>2, <1>3, TimesStep

LEMMA ReviewTimes ==
  ASSUME ApiInv, ApiInv', TimesInv, NEW h \in Handlers, NEW kind \in Kinds, NEW by \in Users,
         NEW r \in DOMAIN requests, Review(h, kind, by, r)
  PROVE  TimesInv'
<1>1. /\ UNCHANGED <<objects, requests, effects, slips>> /\ step[h] = "idle" /\ Open(r)
      /\ slips <= slips'
  BY CountTypes DEF Review
<1>2. OneMoves(h) /\ step'[h] = "permit" /\ op'[h].r = r
  BY DEF Review, OneMoves, ApiInv, HandlersInv
<1>3. ASSUME NEW q \in DOMAIN requests, NEW c \in Changes PROVE Times(q, c)'
  <2>1. CASE q # r
    <3>1. races'[q] = races[q]
      BY <2>1, RequestTypes DEF Review, ApiInv, ApiType
    <3>2. ~Reviewing(h, q) /\ ~Reviewing(h, q)'
      BY <1>1, <1>2, <2>1 DEF Reviewing
    <3>3. QED
      BY <1>1, <1>2, <1>3, <3>1, <3>2, Elsewhere DEF TimesInv
  <2>2. CASE q = r
    <3>1. Coming(r, c)' \subseteq Coming(r, c) \cup {h} /\ ~Free(r)'
      BY <1>1, <1>2, ComingFacts DEF Free, Reviewing
    <3>2. Free(r) \/ races'[r] = races[r] + 1
      <4>1. CASE UnderReview(r) = {}
        BY <1>1, <4>1 DEF UnderReview, Free, Open, Reviewing
      <4>2. CASE UnderReview(r) # {}
        BY <4>2, RequestTypes DEF Review, ApiInv, ApiType
      <4>3. QED
        BY <4>1, <4>2
    <3>3. races[r] <= races'[r]
      <4>1. races'[r] = races[r] \/ races'[r] = races[r] + 1
        BY RequestTypes DEF Review, ApiInv, ApiType
      <4>2. races[r] \in 0..MaxRaces
        BY RequestTypes
      <4>3. QED
        BY <4>1, <4>2, ChangesAssumption
    <3>4. QED
      BY <1>1, <1>3, <2>2, <3>1, <3>2, <3>3, TimesStep DEF TimesInv
  <2>3. QED
    BY <2>1, <2>2
<1>4. QED
  BY <1>1, <1>3 DEF TimesInv

LEMMA PermitTimes ==
  ASSUME ApiInv, ApiInv', TimesInv, NEW h \in Handlers, Permit(h)
  PROVE  TimesInv'
<1>1. /\ UNCHANGED <<objects, requests, effects, races, slips>> /\ step[h] = "permit"
      /\ slips <= slips'
  BY CountTypes DEF Permit
<1>2. PICK o \in Op : o = op[h] /\ o.r \in DOMAIN requests
  BY <1>1, BusyHandler
<1>3. /\ OneMoves(h)
      /\ step'[h] = "idle" \/ (step'[h] \in {"apply", "record"} /\ op'[h] = o)
  BY <1>2 DEF Permit, Idle, Goto, OneMoves, ApiInv, HandlersInv
<1>4. ASSUME NEW q \in DOMAIN requests, NEW c \in Changes PROVE Times(q, c)'
  <2>1. CASE q # o.r
    <3>1. ~Reviewing(h, q) /\ ~Reviewing(h, q)'
      BY <1>2, <1>3, <2>1 DEF Reviewing
    <3>2. QED
      BY <1>1, <1>3, <1>4, <3>1, Elsewhere DEF TimesInv
  <2>2. CASE q = o.r
    <3>1. h \in Coming(q, c) /\ Times(q, c) /\ races[q] <= races'[q]
      <4>1. h \in Coming(q, c)
        BY <1>1, <1>2, <2>2 DEF Coming, Reviewing
      <4>2. races[q] <= races'[q]
        BY <1>1, <1>4, CountTypes
      <4>3. QED
        BY <1>4, <4>1, <4>2 DEF TimesInv
    <3>2. CASE step'[h] = "idle"
      <4>1. Coming(q, c)' \subseteq Coming(q, c) \ {h}
        BY <1>1, <1>3, <3>2, ComingFacts DEF Coming, Reviewing
      <4>2. QED
        BY <1>1, <1>4, <3>1, <4>1, TimesStep
    <3>3. CASE step'[h] \in {"apply", "record"} /\ op'[h] = o
      <4>1. Coming(q, c)' \subseteq Coming(q, c)
        BY <1>1, <1>3, <3>1, ComingFacts
      <4>2. ~Free(q)'
        BY <2>2, <3>3 DEF Free, Reviewing
      <4>3. QED
        BY <1>1, <1>4, <3>1, <4>1, <4>2, TimesStep
    <3>4. QED
      BY <1>3, <3>2, <3>3
  <2>3. QED
    BY <2>1, <2>2
<1>5. QED
  BY <1>1, <1>4 DEF TimesInv

(* A handler that applies a change no longer has it to come, as the change  *)
(* is there once; what it has to come else it had before.                   *)
LEMMA ApplyTimes ==
  ASSUME ApiInv, ApiInv', ItemsInv, TimesInv, NEW h \in Handlers, Apply(h)
  PROVE  TimesInv' /\ effects'[Outright] = effects[Outright] /\ slips <= slips'
<1>1. UNCHANGED <<requests, races>> /\ step[h] = "apply"
  BY DEF Apply
<1>2. PICK o \in Op, changes \in Seq(Changes) :
        /\ o = op[h] /\ o.r \in DOMAIN requests /\ o.r \in 0..MaxRequests
        /\ changes = requests[o.r].changes /\ changes = ChangesOf(h)
        /\ HandlerTrue("apply", o, changes)
  BY <1>1, BusyHandler
<1>3. Len(o.results) < Len(changes) /\ o.results \in Seq(Statuses) /\ Distinct(changes)
  BY <1>2 DEF HandlerTrue, Op, ItemsInv
<1>4. PICK c \in Changes : c = changes[Len(o.results) + 1]
  BY <1>3
<1>5. /\ OneMoves(h) /\ op'[h].r = o.r
      /\ \/ step'[h] = "record"
         \/ step'[h] = "apply" /\ Len(op'[h].results) = Len(o.results) + 1
  <2>1. Len(Append(o.results, "Applied")) = Len(o.results) + 1
    BY <1>3
  <2>2. \E results, here :
          /\ op' = [op EXCEPT ![h].results = results] /\ step' = [step EXCEPT ![h] = here]
          /\ here = "record" \/ (here = "apply" /\ results = Append(o.results, "Applied"))
    <3>1. CASE /\ op' = [op EXCEPT ![h].results = Append(o.results, "Applied")]
               /\ step' = [step EXCEPT ![h] = IF Len(o.results) + 1 = Len(changes)
                                              THEN "record" ELSE "apply"]
      BY <3>1
    <3>2. CASE /\ op' = [op EXCEPT ![h].results =
                           Skipping(Append(o.results, "Failed"), Len(changes))]
               /\ step' = [step EXCEPT ![h] = "record"]
      BY <3>2
    <3>3. QED
      BY <1>2, <3>1, <3>2 DEF Apply
  <2>3. PICK results, here :
          /\ op' = [op EXCEPT ![h].results = results] /\ step' = [step EXCEPT ![h] = here]
          /\ here = "record" \/ (here = "apply" /\ results = Append(o.results, "Applied"))
    BY <2>2
  <2>4. /\ OneMoves(h) /\ step'[h] = here /\ op'[h] = [o EXCEPT !.results = results]
    BY <1>2, <2>3 DEF OneMoves, ApiInv, HandlersInv
  <2>5. QED
    BY <2>1, <2>3, <2>4 DEF Op
<1>6. slips <= slips'
  BY CountTypes DEF Apply, Slip
<1>7. \/ effects' = effects
      \/ effects' = [effects EXCEPT ![o.r][c] = @ + 1]
  BY <1>2, <1>4 DEF Apply, TakeEffect
<1>8. /\ \A q \in 0..MaxRequests : q # o.r => effects'[q] = effects[q]
      /\ \A d \in Changes : d # c => effects'[o.r][d] = effects[o.r][d]
      /\ effects'[o.r][c] = effects[o.r][c] \/ effects'[o.r][c] = effects[o.r][c] + 1
  <2>1. PICK i \in 0..MaxRequests : i = o.r
    BY <1>2
  <2>2. effects \in [0..MaxRequests -> [Changes -> Nat]]
    BY DEF ApiInv, ApiType
  <2>3. effects' = effects \/ effects' = [effects EXCEPT ![i][c] = @ + 1]
    BY <1>7, <2>1
  <2>4. /\ \A q \in 0..MaxRequests : q # i => effects'[q] = effects[q]
        /\ \A d \in Changes : d # c => effects'[i][d] = effects[i][d]
        /\ effects'[i][c] = effects[i][c] \/ effects'[i][c] = effects[i][c] + 1
    BY <2>2, <2>3
  <2>5. QED
    BY <2>1, <2>4
<1>9. ASSUME NEW q \in DOMAIN requests, NEW d \in Changes PROVE Times(q, d)'
  <2>1. Times(q, d) /\ races[q] <= races'[q] /\ q \in 0..MaxRequests /\ q \in DOMAIN requests'
    BY <1>1, <1>9, CountTypes, RequestTypes DEF TimesInv
  <2>2. CASE q # o.r
    <3>1. ~Reviewing(h, q) /\ ~Reviewing(h, q)'
      BY <1>2, <1>5, <2>2 DEF Reviewing
    <3>2. effects'[q][d] = effects[q][d]
      BY <1>8, <2>1, <2>2
    <3>3. QED
      BY <1>1, <1>5, <1>6, <1>9, <2>1, <3>1, <3>2, Elsewhere
  <2>3. CASE q = o.r
    <3>1. ~Free(q)'
      BY <1>5, <2>3 DEF Free, Reviewing
    <3>2. CASE d = c
      <4>1. h \in Coming(q, d)
        <5>1. Later(changes, Len(o.results), c)
          BY <1>3, <1>4 DEF Later
        <5>2. QED
          BY <1>1, <1>2, <2>3, <3>2, <5>1 DEF Coming, Reviewing
      <4>2. h \notin Coming(q, d)'
        <5>1. ~Later(changes, Len(o.results) + 1, c)
          BY <1>3, <1>4 DEF Later, Distinct
        <5>2. QED
          BY <1>1, <1>2, <1>5, <2>3, <3>2, <5>1 DEF Coming, Reviewing
      <4>3. Coming(q, d)' \subseteq Coming(q, d) \ {h}
        BY <1>1, <1>5, <4>2, ComingFacts
      <4>4. effects'[q][d] = effects[q][d] \/ effects'[q][d] = effects[q][d] + 1
        BY <1>8, <2>3, <3>2
      <4>5. QED
        BY <1>6, <1>9, <2>1, <3>1, <4>1, <4>3, <4>4, TimesStep
    <3>3. CASE d # c
      <4>1. h \in Coming(q, d)' => h \in Coming(q, d)
        <5>1. Later(changes, Len(o.results) + 1, d) => Later(changes, Len(o.results), d)
          BY <1>3 DEF Later
        <5>2. QED
          BY <1>1, <1>2, <1>5, <2>3, <5>1 DEF Coming, Reviewing
      <4>2. Coming(q, d)' \subseteq Coming(q, d)
        BY <1>1, <1>5, <4>1, ComingFacts
      <4>3. effects'[q][d] = effects[q][d]
        BY <1>8, <2>3, <3>3
      <4>4. QED
        BY <1>6, <1>9, <2>1, <3>1, <4>2, <4>3, TimesStep
    <3>4. QED
      BY <3>2, <3>3
  <2>4. QED
    BY <2>2, <2>3
<1>10. \A q \in 1..MaxRequests \ DOMAIN requests' : \A d \in Changes : effects'[q][d] = 0
  BY <1>1, <1>2, <1>8 DEF TimesInv
<1>11. effects'[Outright] = effects[Outright]
  <2>1. o.r # 0 /\ 0 \in 0..MaxRequests
    BY <1>2, RequestTypes, ChangesAssumption
  <2>2. QED
    BY <1>8, <2>1 DEF Outright
<1>12. QED
  BY <1>1, <1>6, <1>9, <1>10, <1>11 DEF TimesInv

LEMMA RecordTimes ==
  ASSUME ApiInv, ApiInv', TimesInv, NEW h \in Handlers, Record(h)
  PROVE  /\ TimesInv' /\ slips <= slips' /\ DOMAIN requests' = DOMAIN requests
         /\ \A r \in DOMAIN requests : requests'[r].changes = requests[r].changes
<1>1. UNCHANGED <<objects, effects, races>> /\ step[h] = "record" /\ Idle(h)
  BY DEF Record
<1>2. PICK o \in Op : o = op[h] /\ o.r \in DOMAIN requests
  BY <1>1, BusyHandler
<1>3. OneMoves(h) /\ step'[h] = "idle"
  BY <1>1 DEF Idle, OneMoves, ApiInv, HandlersInv
<1>4. slips <= slips'
  BY CountTypes DEF Record, Slip
<1>5. PICK q \in Request : q = requests[o.r]
  BY <1>2, RequestTypes
<1>6. \/ requests' = requests /\ (slips' = slips + 1 \/ ~q.stored)
      \/ \E d \in Request : /\ requests' = [requests EXCEPT ![o.r] = d]
                            /\ d.changes = q.changes /\ d.phase # "Pending"
  <2>1. CASE requests' = Decided(h)
    <3>1. PICK d : d = [q EXCEPT !.phase = IF o.kind = "approve" THEN Outcome(o.results)
                                           ELSE "Declined",
                                 !.results = IF o.kind = "approve" THEN o.results ELSE @]
      OBVIOUS
    <3>2. /\ Outcome(o.results) \in Phases \ {"Pending"} /\ "Declined" \in Phases
          /\ o.results \in Seq(Statuses)
      BY DEF Outcome, Phases, Op
    <3>3. d \in Request /\ d.changes = q.changes /\ d.phase # "Pending"
      BY <3>1, <3>2 DEF Request
    <3>4. requests' = [requests EXCEPT ![o.r] = d]
      BY <1>2, <1>5, <2>1, <3>1 DEF Decided
    <3>5. QED
      BY <3>3, <3>4
  <2>2. CASE requests' = requests /\ (slips' = slips + 1 \/ ~requests[op[h].r].stored)
    BY <1>2, <1>5, <2>2
  <2>3. QED
    BY <2>1, <2>2 DEF Record, Slip
<1>7. /\ DOMAIN requests' = DOMAIN requests
      /\ \A r \in DOMAIN requests : /\ requests'[r].changes = requests[r].changes
                                    /\ r # o.r => requests'[r] = requests[r]
      /\ slips' = slips + 1 \/ ~requests'[o.r].stored \/ requests'[o.r].phase # "Pending"
  BY <1>2, <1>5, <1>6 DEF ApiInv, ApiType
<1>8. ASSUME NEW r \in DOMAIN requests, NEW c \in Changes PROVE Times(r, c)'
  <2>1. Times(r, c) /\ r \in DOMAIN requests' /\ races[r] <= races'[r]
    BY <1>1, <1>7, <1>8, CountTypes DEF TimesInv
  <2>2. CASE r # o.r
    <3>1. ~Reviewing(h, r) /\ ~Reviewing(h, r)'
      BY <1>2, <1>3, <2>2 DEF Reviewing
    <3>2. QED
      BY <1>1, <1>3, <1>4, <1>7, <1>8, <2>1, <2>2, <3>1, Elsewhere
  <2>3. CASE r = o.r
    <3>1. Coming(r, c)' \subseteq Coming(r, c)
      <4>1. h \notin Coming(r, c)'
        BY <1>3 DEF Coming, Reviewing
      <4>2. QED
        BY <1>3, <1>7, <4>1, ComingFacts
    <3>2. ~Free(r)' \/ slips' = slips + 1
      BY <1>7, <2>3 DEF Free
    <3>3. QED
      BY <1>1, <1>4, <1>8, <2>1, <3>1, <3>2, TimesStep
  <2>4. QED
    BY <2>2, <2>3
<1>9. QED
  BY <1>1, <1>4, <1>7, <1>8 DEF TimesInv

LEMMA WithdrawTimes ==
  ASSUME ApiInv, ApiInv', TimesInv, NEW h \in Handlers, NEW by, NEW r, Withdraw(h, by, r)
  PROVE  TimesInv'
<1>1. /\ UNCHANGED <<objects, requests, effects, races, slips>> /\ step[h] = "idle"
      /\ slips <= slips'
  BY CountTypes DEF Withdraw
<1>2. OneMoves(h) /\ step'[h] = "delete"
  BY DEF Withdraw, OneMoves, ApiInv, HandlersInv
<1>3. ASSUME NEW q \in DOMAIN requests, NEW c \in Changes PROVE Times(q, c)'
  <2>1. ~Reviewing(h, q) /\ ~Reviewing(h, q)'
    BY <1>1, <1>2 DEF Reviewing
  <2>2. QED
    BY <1>1, <1>2, <1>3, <2>1, Elsewhere DEF TimesInv
<1>4. QED
  BY <1>1, <1>3 DEF TimesInv

LEMMA DeleteTimes ==
  ASSUME ApiInv, ApiInv', TimesInv, NEW h \in Handlers, Delete(h)
  PROVE  /\ TimesInv' /\ slips <= slips' /\ DOMAIN requests' = DOMAIN requests
         /\ \A r \in DOMAIN requests : requests'[r].changes = requests[r].changes
<1>1. UNCHANGED <<objects, effects, races>> /\ step[h] = "delete" /\ Idle(h)
  BY DEF Delete
<1>2. OneMoves(h) /\ step'[h] = "idle"
  BY <1>1 DEF Idle, OneMoves, ApiInv, HandlersInv
<1>3. slips <= slips'
  BY CountTypes DEF Delete, Slip
<1>4. /\ DOMAIN requests' = DOMAIN requests
      /\ \A r \in DOMAIN requests :
           /\ requests'[r].changes = requests[r].changes
           /\ requests'[r].stored => requests[r].stored
           /\ requests'[r].phase = requests[r].phase
  <2>1. PICK i \in DOMAIN requests : i = op[h].r
    BY <1>1, BusyHandler
  <2>2. requests' = requests \/ requests' = [requests EXCEPT ![i].stored = FALSE]
    BY <2>1 DEF Delete
  <2>3. requests \in Seq(Request)
    BY DEF ApiInv, ApiType
  <2>4. QED
    BY <2>2, <2>3, RequestTypes DEF Request
<1>5. ASSUME NEW r \in DOMAIN requests, NEW c \in Changes PROVE Times(r, c)'
  <2>1. ~Reviewing(h, r) /\ ~Reviewing(h, r)'
    BY <1>1, <1>2 DEF Reviewing
  <2>2. QED
    BY <1>1, <1>2, <1>3, <1>4, <1>5, <2>1, Elsewhere DEF TimesInv
<1>6. QED
  BY <1>1, <1>3, <1>4, <1>5 DEF TimesInv

LEMMA CrashTimes ==
  ASSUME ApiInv, ApiInv', TimesInv, Crash
  PROVE  TimesInv' /\ slips <= slips'
<1>1. /\ UNCHANGED <<objects, requests, effects, races>> /\ slips' = slips + 1
      /\ slips <= slips' /\ \A h \in Handlers : step'[h] = "idle"
  BY CountTypes DEF Crash, Slip
<1>2. ASSUME NEW r \in DOMAIN requests, NEW c \in Changes PROVE Times(r, c)'
  <2>1. Coming(r, c)' = {}
    BY <1>1 DEF Coming, Reviewing
  <2>2. races[r] <= races'[r]
    BY <1>1, <1>2, CountTypes
  <2>3. QED
    BY <1>1, <1>2, <2>1, <2>2, TimesStep DEF TimesInv
<1>3. QED
  BY <1>1, <1>2 DEF TimesInv

(* While handlers wait the counts of requests change with slips alone.      *)
LEMMA TimesWait ==
  ASSUME ApiInv, ApiInv', TimesInv, UNCHANGED <<handlerVars, races>>, slips <= slips',
         \A r \in DOMAIN requests : r \in DOMAIN requests' /\ requests'[r] = requests[r],
         \A r \in 1..MaxRequests : effects'[r] = effects[r],
         NEW r \in DOMAIN requests, NEW c \in Changes
  PROVE  Times(r, c)'
<1>1. Times(r, c) /\ races[r] <= races'[r] /\ effects'[r][c] = effects[r][c]
  BY CountTypes, RequestTypes DEF TimesInv
<1>2. Coming(r, c)' \subseteq Coming(r, c) /\ (Free(r)' => Free(r))
  BY DEF Coming, Free, Reviewing, handlerVars
<1>3. QED
  BY <1>1, <1>2, TimesStep

LEMMA TimesUnchanged ==
  ASSUME ApiInv, ApiInv', TimesInv, UNCHANGED <<requests, handlerVars, races>>, slips <= slips',
         \A r \in 1..MaxRequests : effects'[r] = effects[r]
  PROVE  TimesInv'
<1>1. \A r \in DOMAIN requests, c \in Changes : Times(r, c)'
  BY TimesWait
<1>2. QED
  BY <1>1 DEF TimesInv

(* Nothing has come of a new request, and nobody reviews it.                *)
LEMMA CreateTimes ==
  ASSUME ApiInv, ApiInv', TimesInv, NEW changes, Create(Author, changes),
         UNCHANGED <<objects, handlerVars, effects, races>>, slips <= slips'
  PROVE  /\ TimesInv'
         /\ DOMAIN requests' = DOMAIN requests \cup {Len(requests) + 1}
         /\ requests'[Len(requests) + 1].changes = changes
         /\ \A r \in DOMAIN requests : requests'[r] = requests[r]
<1>1. PICK n : n = Len(requests) + 1
  OBVIOUS
<1>2. /\ n \in 1..MaxRequests /\ n \notin DOMAIN requests
      /\ DOMAIN requests' = DOMAIN requests \cup {n}
      /\ requests'[n] = NewRequest(Author, changes)
      /\ \A r \in DOMAIN requests : requests'[r] = requests[r]
  BY <1>1, ChangesAssumption DEF Create, ApiInv, ApiType
<1>3. ASSUME NEW r \in DOMAIN requests', NEW c \in Changes PROVE Times(r, c)'
  <2>1. CASE r \in DOMAIN requests
    BY <1>2, <1>3, <2>1, TimesWait
  <2>2. CASE r = n
    <3>1. Coming(n, c)' = {}
      BY <1>2 DEF Coming, Reviewing, handlerVars, ApiInv, HandlersInv
    <3>2. Cardinality(Coming(n, c)') = 0
      BY <3>1, FS_EmptySet
    <3>3. effects'[n][c] = 0
      BY <1>2 DEF TimesInv
    <3>4. slips' \in Nat /\ races'[n] \in Nat
      BY <1>2, ChangesAssumption DEF ApiInv, ApiType
    <3>5. One(Free(n)') <= 1 /\ One(Free(n)') \in Nat
      BY OneFacts
    <3>6. QED
      BY <2>2, <3>2, <3>3, <3>4, <3>5 DEF Times
  <2>3. QED
    BY <1>2, <2>1, <2>2
<1>4. QED
  BY <1>1, <1>2, <1>3 DEF TimesInv, NewRequest

(* What a step may do to the places a change waits in: nothing, or propose  *)
(* it while it leaves the page, or at the cost of a slip.                   *)
LEMMA OnceStep ==
  ASSUME ApiInv, ApiInv', NEW c \in Changes, Once(c), slips <= slips', NEW n,
         effects'[Outright] = effects[Outright],
         \/ Proposals(c)' \subseteq Proposals(c) /\ (AtHand(c)' => AtHand(c))
         \/ /\ Proposals(c)' \subseteq Proposals(c) \cup {n} /\ AtHand(c)
            /\ ~AtHand(c)' \/ slips' = slips + 1
  PROVE  Once(c)'
<1>1. PICK P, Q, e, s, t :
        /\ P = Proposals(c) /\ Q = Proposals(c)' /\ e = effects[Outright][c]
        /\ s = slips /\ t = slips'
  OBVIOUS
<1>2. /\ {e, s, t} \subseteq Nat /\ IsFiniteSet(P) /\ Cardinality(P) \in Nat
      /\ e = effects'[Outright][c]
  <2>1. t \in Nat
    BY <1>1, ChangesAssumption DEF ApiInv, ApiType
  <2>2. {e, s} \subseteq Nat /\ IsFiniteSet(P) /\ Cardinality(P) \in Nat
    BY <1>1, CountTypes
  <2>3. QED
    BY <1>1, <2>1, <2>2
<1>3. PICK a \in {0, 1}, b \in {0, 1} :
        /\ a = One(AtHand(c)) /\ b = One(AtHand(c)')
        /\ (AtHand(c) => a = 1) /\ (~AtHand(c)' => b = 0) /\ ((AtHand(c)' => AtHand(c)) => b <= a)
  BY OneFacts
<1>4. e + Cardinality(P) + a <= 1 + s /\ s <= t
  BY <1>1, <1>3 DEF Once
<1>5. e + Cardinality(Q) + b <= 1 + t
  <2>1. CASE Q \subseteq P /\ (AtHand(c)' => AtHand(c))
    <3>1. Cardinality(Q) <= Cardinality(P) /\ IsFiniteSet(Q)
      BY <1>2, <2>1, FS_Subset
    <3>2. Cardinality(Q) \in Nat /\ b <= a
      BY <1>3, <2>1, <3>1, FS_CardinalityType
    <3>3. QED
      BY <1>2, <1>4, <3>1, <3>2
  <2>2. CASE Q \subseteq P \cup {n} /\ AtHand(c) /\ (~AtHand(c)' \/ t = s + 1)
    <3>1. IsFiniteSet(P \cup {n})
          /\ Cardinality(P \cup {n}) = IF n \in P THEN Cardinality(P) ELSE Cardinality(P) + 1
      BY <1>2, FS_AddElement
    <3>2. Cardinality(Q) <= Cardinality(P \cup {n}) /\ IsFiniteSet(Q)
      BY <2>2, <3>1, FS_Subset
    <3>3. Cardinality(Q) \in Nat
      BY <3>2, FS_CardinalityType
    <3>4. Cardinality(Q) <= Cardinality(P) + 1
      BY <1>2, <3>1, <3>2, <3>3
    <3>5. a = 1 /\ (b = 0 \/ t = s + 1)
      BY <1>3, <2>2
    <3>6. QED
      BY <1>2, <1>3, <1>4, <3>3, <3>4, <3>5
  <2>3. QED
    BY <1>1, <2>1, <2>2
<1>6. QED
  BY <1>1, <1>2, <1>3, <1>5 DEF Once

(* What the API does leaves what waits where it is.                         *)
LEMMA ItemsKept ==
  ASSUME ApiInv, ApiInv', ItemsInv, UNCHANGED <<items, sending, todo>>,
         DOMAIN requests' = DOMAIN requests, slips <= slips',
         \A r \in DOMAIN requests : requests'[r].changes = requests[r].changes,
         effects'[Outright] = effects[Outright]
  PROVE  ItemsInv'
<1>1. \A c : Proposals(c)' = Proposals(c) /\ (AtHand(c)' <=> AtHand(c))
  BY DEF Proposals, AtHand
<1>2. \A c \in Changes : Once(c)'
  BY <1>1, OnceStep DEF ItemsInv
<1>3. QED
  BY <1>1, <1>2 DEF ItemsInv

LEMMA RemovedFacts ==
  ASSUME NEW some \in Seq(Changes), NEW i \in DOMAIN some, Distinct(some)
  PROVE  /\ Distinct(RemoveAt(some, i))
         /\ \A c : Holds(RemoveAt(some, i), c) => Holds(some, c)
<1>1. PICK left, right, n : left = SubSeq(some, 1, i - 1) /\ right = SubSeq(some, i + 1, n) /\ n = Len(some)
  OBVIOUS
<1>2. /\ n \in Nat /\ i \in 1..n /\ DOMAIN some = 1..n
      /\ left \in Seq(Changes) /\ Len(left) = i - 1 /\ \A j \in 1..(i - 1) : left[j] = some[j]
      /\ right \in Seq(Changes) /\ Len(right) = n - i
      /\ \A j \in 1..(n - i) : right[j] = some[i + j]
  BY <1>1
<1>3. PICK rest : rest = RemoveAt(some, i)
  OBVIOUS
<1>4. rest = left \o right
  BY <1>1, <1>3 DEF RemoveAt
<1>5. /\ DOMAIN rest = 1..(n - 1)
      /\ \A j \in 1..(n - 1) : rest[j] = IF j < i THEN some[j] ELSE some[j + 1]
  <2>1. /\ rest \in Seq(Changes)
        /\ Len(rest) = Len(left) + Len(right)
        /\ \A j \in 1..(Len(left) + Len(right)) :
              rest[j] = IF j <= Len(left) THEN left[j] ELSE right[j - Len(left)]
    BY <1>2, <1>4, ConcatProperties
  <2>2. Len(left) + Len(right) = n - 1
    BY <1>2
  <2>3. DOMAIN rest = 1..(n - 1)
    BY <2>1, <2>2
  <2>4. \A j \in 1..(n - 1) : rest[j] = IF j <= i - 1 THEN left[j] ELSE right[j - (i - 1)]
    BY <1>2, <2>1, <2>2
  <2>5. ASSUME NEW j \in 1..(n - 1)
        PROVE  rest[j] = IF j < i THEN some[j] ELSE some[j + 1]
    <3>1. CASE j < i
      <4>1. j <= i - 1 /\ j \in 1..(i - 1)
        BY <1>2, <3>1
      <4>2. QED
        BY <1>2, <2>4, <3>1, <4>1
    <3>2. CASE ~(j < i)
      <4>1. /\ j - (i - 1) \in 1..(n - i)
            /\ i + (j - (i - 1)) = j + 1
            /\ ~(j <= i - 1)
        BY <1>2, <3>2
      <4>2. rest[j] = right[j - (i - 1)]
        BY <2>4, <4>1
      <4>3. right[j - (i - 1)] = some[i + (j - (i - 1))]
        BY <1>2, <4>1
      <4>4. QED
        BY <3>2, <4>1, <4>2, <4>3
    <3>3. QED
      BY <3>1, <3>2
  <2>6. QED
    BY <2>3, <2>5
<1>6. Distinct(rest)
  <2> SUFFICES ASSUME NEW j \in 1..(n - 1), NEW k \in 1..(n - 1), rest[j] = rest[k]
               PROVE  j = k
    BY <1>5 DEF Distinct
  <2>1. PICK x \in 1..n, y \in 1..n : /\ x = IF j < i THEN j ELSE j + 1
                                      /\ y = IF k < i THEN k ELSE k + 1
    BY <1>2
  <2>2. rest[j] = some[x] /\ rest[k] = some[y]
    BY <1>5, <2>1
  <2>3. x = y
    BY <1>2, <2>2 DEF Distinct
  <2>4. QED
    BY <1>2, <2>1, <2>3
<1>7. ASSUME NEW c, Holds(rest, c)
      PROVE  Holds(some, c)
  <2>1. PICK j \in 1..(n - 1) : rest[j] = c
    BY <1>5, <1>7 DEF Holds
  <2>2. PICK x \in 1..n : x = IF j < i THEN j ELSE j + 1
    BY <1>2
  <2>3. some[x] = c
    BY <1>5, <2>1, <2>2
  <2>4. QED
    BY <1>2, <2>3 DEF Holds
<1>8. QED
  BY <1>3, <1>6, <1>7

(* A submit that is carried out takes what it sends from the page, unless   *)
(* nobody hears of it.                                                      *)
LEMMA SentItems ==
  ASSUME ApiInv, ApiInv', PageInv, OnceInv, sending # None, Create(Author, sending), sending' = None,
         UNCHANGED <<objects, handlerVars, effects, races, todo>>,
         \/ slips' = slips /\ items' = <<>>
         \/ slips' = slips + 1 /\ items' = items
  PROVE  OnceInv'
<1>1. slips <= slips'
  BY CountTypes
<1>2. PICK n : n = Len(requests) + 1
  OBVIOUS
<1>3. /\ TimesInv'
      /\ DOMAIN requests' = DOMAIN requests \cup {n} /\ requests'[n].changes = sending
      /\ \A r \in DOMAIN requests : requests'[r] = requests[r]
  BY <1>1, <1>2, CreateTimes DEF OnceInv
<1>4. \A c : /\ Proposals(c)' \subseteq Proposals(c) \cup {n}
             /\ ~Holds(sending, c) => Proposals(c)' \subseteq Proposals(c)
  BY <1>3 DEF Proposals, Holds
<1>5. \A c : /\ Holds(sending, c) => AtHand(c)
             /\ AtHand(c)' => AtHand(c)
             /\ slips' = slips => ~AtHand(c)'
  BY CountTypes DEF AtHand, Holds
<1>6. \A c \in Changes : Once(c)'
  BY <1>1, <1>4, <1>5, OnceStep DEF OnceInv, ItemsInv
<1>7. \A c \in todo : ~AtHand(c)' /\ effects'[Outright][c] = 0 /\ Proposals(c)' = {}
  BY <1>4, <1>5 DEF OnceInv, ItemsInv
<1>8. Distinct(items') /\ \A r \in DOMAIN requests' : Distinct(requests'[r].changes)
  BY <1>3 DEF OnceInv, ItemsInv, Distinct
<1>9. QED
  BY <1>3, <1>6, <1>7, <1>8 DEF OnceInv, ItemsInv

(* What is staged or done at once was only to be done before.               *)
LEMMA MutateItems ==
  ASSUME ApiInv, ApiInv', PageInv, OnceInv, NEW c \in Changes, Mutate(c)
  PROVE  OnceInv'
<1>1. /\ UNCHANGED <<requests, handlerVars, races, slips, sending>> /\ slips <= slips'
      /\ c \in todo /\ todo' = todo \ {c}
  BY CountTypes DEF Mutate
<1>2. ~AtHand(c) /\ effects[Outright][c] = 0 /\ Proposals(c) = {}
  BY <1>1 DEF OnceInv, ItemsInv
<1>3. \A d : Proposals(d)' = Proposals(d)
  BY <1>1 DEF Proposals
<1>4. /\ Outright \in 0..MaxRequests /\ Outright \notin 1..MaxRequests
      /\ effects \in [0..MaxRequests -> [Changes -> Nat]] /\ items \in Seq(Changes)
  <2>1. Outright \in 0..MaxRequests /\ Outright \notin 1..MaxRequests
    BY ChangesAssumption DEF Outright
  <2>2. effects \in [0..MaxRequests -> [Changes -> Nat]] /\ items \in Seq(Changes)
    BY DEF ApiInv, ApiType, PageInv, PageType
  <2>3. QED
    BY <2>1, <2>2
<1>5. CASE items' = Append(items, c) /\ UNCHANGED effects
  <2>1. TimesInv'
    BY <1>1, <1>5, TimesUnchanged DEF OnceInv
  <2>2. Distinct(items') /\ \A d : Holds(items', d) <=> Holds(items, d) \/ d = c
    <3>1. /\ DOMAIN items' = 1..(Len(items) + 1) /\ Len(items) \in Nat /\ DOMAIN items = 1..Len(items)
          /\ items'[Len(items) + 1] = c /\ \A i \in 1..Len(items) : items'[i] = items[i]
      BY <1>4, <1>5
    <3>2. ~Holds(items, c) /\ Distinct(items)
      BY <1>2 DEF AtHand, OnceInv, ItemsInv
    <3>3. QED
      BY <3>1, <3>2 DEF Holds, Distinct
  <2>3. \A d : AtHand(d)' <=> AtHand(d) \/ d = c
    BY <1>1, <2>2 DEF AtHand
  <2>4. Once(c)'
    <3>1. Cardinality(Proposals(c)') = 0 /\ effects'[Outright][c] = 0
      BY <1>2, <1>3, <1>5, FS_EmptySet
    <3>2. One(AtHand(c)') \in {0, 1} /\ slips' \in Nat
      BY <1>1, OneFacts, CountTypes
    <3>3. QED
      BY <3>1, <3>2 DEF Once
  <2>5. \A d \in Changes : Once(d)'
    <3>1. ASSUME NEW d \in Changes, d # c PROVE Once(d)'
      BY <1>1, <1>3, <1>5, <2>3, <3>1, OnceStep DEF OnceInv, ItemsInv
    <3>2. QED
      BY <2>4, <3>1
  <2>6. QED
    BY <1>1, <1>3, <1>5, <2>1, <2>2, <2>3, <2>5 DEF OnceInv, ItemsInv
<1>6. CASE UNCHANGED items /\ (effects' = effects \/ TakeEffect(Outright, c))
  <2>1. \A d : AtHand(d)' <=> AtHand(d)
    BY <1>1, <1>6 DEF AtHand
  <2>2. /\ \A r \in 1..MaxRequests : effects'[r] = effects[r]
        /\ \A d \in Changes \ {c} : effects'[Outright][d] = effects[Outright][d]
        /\ effects'[Outright][c] \in {0, 1}
    <3>1. CASE effects' = effects
      BY <1>2, <3>1
    <3>2. CASE effects' = [effects EXCEPT ![Outright][c] = @ + 1]
      BY <1>2, <1>4, <3>2
    <3>3. QED
      BY <1>6, <3>1, <3>2 DEF TakeEffect
  <2>3. TimesInv'
    BY <1>1, <2>2, TimesUnchanged DEF OnceInv
  <2>4. Once(c)'
    <3>1. Cardinality(Proposals(c)') = 0 /\ One(AtHand(c)') = 0
      BY <1>2, <1>3, <2>1, FS_EmptySet, OneFacts
    <3>2. slips' \in Nat
      BY <1>1, CountTypes
    <3>3. QED
      BY <2>2, <3>1, <3>2 DEF Once
  <2>5. ASSUME NEW d \in Changes, d # c PROVE Once(d)'
    <3>1. /\ Once(d) /\ effects'[Outright][d] = effects[Outright][d]
          /\ Proposals(d)' = Proposals(d) /\ One(AtHand(d)') = One(AtHand(d)) /\ slips' = slips
      BY <1>1, <1>3, <2>1, <2>2, <2>5 DEF OnceInv, ItemsInv, One
    <3>2. QED
      BY <3>1 DEF Once
  <2>6. \A d \in todo' : ~AtHand(d)' /\ effects'[Outright][d] = 0 /\ Proposals(d)' = {}
    BY <1>1, <1>3, <2>1, <2>2 DEF OnceInv, ItemsInv, PageInv, PageType
  <2>7. QED
    BY <1>1, <1>6, <2>3, <2>4, <2>5, <2>6 DEF OnceInv, ItemsInv
<1>7. QED
  BY <1>5, <1>6 DEF Mutate, AddItem, draftVars

LEMMA PageOnce ==
  ASSUME ApiInv, ApiInv', PageInv, OnceInv, Page
  PROVE  OnceInv'
<1>1. ASSUME UNCHANGED <<requests, handlerVars, races, effects, todo>>, slips <= slips',
             \A c : AtHand(c)' => AtHand(c),
             Distinct(items'), sending' # None => Distinct(sending')
      PROVE  OnceInv'
  <2>1. \A c : Proposals(c)' = Proposals(c)
    BY <1>1 DEF Proposals
  <2>2. \A c \in Changes : Once(c)'
    BY <1>1, <2>1, OnceStep DEF OnceInv, ItemsInv
  <2>3. TimesInv'
    BY <1>1, TimesUnchanged DEF OnceInv
  <2>4. QED
    BY <1>1, <2>1, <2>2, <2>3 DEF OnceInv, ItemsInv
<1>2. Distinct(<<>>) /\ \A c : ~Holds(<<>>, c)
  BY DEF Distinct, Holds
<1>3. /\ Distinct(items) /\ (sending # None => Distinct(sending)) /\ slips \in Nat
      /\ slips' = slips => slips <= slips'
      /\ Slip => slips' = slips + 1 /\ slips <= slips'
  BY CountTypes DEF OnceInv, ItemsInv, Slip
<1>4. CASE Start
  BY <1>1, <1>3, <1>4 DEF Start, AtHand, apiVars, handlerVars
<1>5. CASE Discard
  BY <1>1, <1>2, <1>3, <1>5 DEF Discard, Clear, AtHand, apiVars, handlerVars
<1>6. CASE Submit
  BY <1>1, <1>3, <1>6 DEF Submit, AtHand, apiVars, handlerVars, draftVars
<1>7. CASE LoadSettings \/ Toggle
  BY <1>1, <1>3, <1>7 DEF LoadSettings, Toggle, AtHand, apiVars, handlerVars, draftVars
<1>8. CASE Submitted
  <2>1. /\ sending # None /\ sending' = None
        /\ UNCHANGED <<objects, handlerVars, effects, races, todo>>
    BY <1>8 DEF Submitted
  <2>2. CASE Create(Author, sending) /\ items' = <<>> /\ slips' = slips
    BY <2>1, <2>2, SentItems
  <2>3. CASE Create(Author, sending) /\ items' = items /\ Slip
    BY <1>3, <2>1, <2>3, SentItems
  <2>4. CASE UNCHANGED <<requests, items>> /\ (slips' = slips \/ Slip)
    BY <1>1, <1>3, <2>1, <2>4 DEF AtHand
  <2>5. QED
    BY <1>8, <2>2, <2>3, <2>4 DEF Submitted, Done, Clear, draftVars
<1>9. CASE Reload
  <2>1. /\ Slip /\ sending' = None /\ items' = items
        /\ UNCHANGED <<objects, handlerVars, effects, races, todo>>
    <3>1. items \in Seq(Changes) /\ (started => envelope = items /\ envelope # None)
          /\ (~started => envelope = None /\ items = <<>>)
      BY DraftAssumption DEF PageInv, PageType, DraftSurvives
    <3>2. items' = items
      BY <1>9, <3>1 DEF Reload
    <3>3. QED
      BY <1>9, <3>2 DEF Reload
  <2>2. CASE UNCHANGED requests
    BY <1>1, <1>3, <2>1, <2>2 DEF AtHand
  <2>3. CASE sending # None /\ Create(Author, sending)
    BY <1>3, <2>1, <2>3, SentItems
  <2>4. QED
    BY <1>9, <2>2, <2>3 DEF Reload
<1>10. ASSUME NEW c \in Changes, Mutate(c) PROVE OnceInv'
  BY <1>10, MutateItems
<1>11. ASSUME NEW i \in DOMAIN items, RemoveItem(i) PROVE OnceInv'
  <2>1. items \in Seq(Changes)
    BY DEF PageInv, PageType
  <2>2. Distinct(items') /\ \A c : Holds(items', c) => Holds(items, c)
    BY <1>3, <1>11, <2>1, RemovedFacts DEF RemoveItem
  <2>3. UNCHANGED <<requests, handlerVars, races, effects, slips, todo, sending>>
    BY <1>11 DEF RemoveItem, apiVars
  <2>4. QED
    BY <1>1, <1>3, <2>2, <2>3 DEF AtHand
<1>12. QED
  BY <1>4, <1>5, <1>6, <1>7, <1>8, <1>9, <1>10, <1>11 DEF Page

LEMMA OnceInit == DraftInit => OnceInv
<1> SUFFICES ASSUME DraftInit PROVE OnceInv
  OBVIOUS
<1>1. /\ requests = <<>> /\ items = <<>> /\ sending = None /\ slips = 0
      /\ effects = [r \in 0..MaxRequests |-> [c \in Changes |-> 0]] /\ todo = Changes
  BY DEF DraftInit, Init
<1>2. DOMAIN requests = {} /\ \A r \in 0..MaxRequests, c \in Changes : effects[r][c] = 0
  BY <1>1
<1>3. \A c : Proposals(c) = {} /\ ~AtHand(c)
  BY <1>1, <1>2 DEF Proposals, AtHand, Holds
<1>4. Outright \in 0..MaxRequests
  BY ChangesAssumption DEF Outright
<1>5. ASSUME NEW c \in Changes PROVE Once(c)
  <2>1. Cardinality(Proposals(c)) = 0 /\ One(AtHand(c)) = 0 /\ effects[Outright][c] = 0
    <3>1. Cardinality(Proposals(c)) = 0
      BY <1>3, FS_EmptySet
    <3>2. One(AtHand(c)) = 0
      BY <1>3, OneFacts
    <3>3. QED
      BY <1>2, <1>4, <3>1, <3>2
  <2>2. QED
    BY <1>1, <2>1 DEF Once
<1>6. TimesInv
  BY <1>2, ChangesAssumption DEF TimesInv
<1>7. QED
  BY <1>1, <1>2, <1>3, <1>4, <1>5, <1>6 DEF OnceInv, ItemsInv, Distinct

LEMMA OnceNext == DraftInv /\ DraftInv' /\ OnceInv /\ [Next]_vars => OnceInv'
<1> SUFFICES ASSUME DraftInv, DraftInv', OnceInv, [Next]_vars PROVE OnceInv'
  OBVIOUS
<1> USE DEF DraftInv
<1>1. CASE Page
  BY <1>1, PageOnce
<1>2. CASE UNCHANGED vars
  <2>1. slips <= slips' /\ UNCHANGED <<requests, handlerVars, races, effects, items, sending, todo>>
    BY <1>2, CountTypes DEF vars, apiVars, pageVars, draftVars
  <2>2. QED
    BY <2>1, ItemsKept, TimesUnchanged DEF OnceInv
<1>3. CASE ReviewNext /\ UNCHANGED pageVars
  <2>1. UNCHANGED <<items, sending, todo>>
    BY <1>3 DEF pageVars, draftVars
  <2>2. slips' = slips => slips <= slips'
    BY CountTypes
  <2>3. CASE Crash
    BY <2>1, <2>3, CrashTimes, ItemsKept DEF Crash, OnceInv
  <2>4. ASSUME NEW h \in Handlers, Handle(h) PROVE OnceInv'
    <3>1. CASE Permit(h)
      BY <2>1, <2>2, <3>1, PermitTimes, ItemsKept DEF Permit, OnceInv
    <3>2. CASE Apply(h)
      BY <2>1, <3>2, ApplyTimes, ItemsKept DEF Apply, OnceInv
    <3>3. CASE Record(h)
      BY <2>1, <3>3, RecordTimes, ItemsKept DEF Record, OnceInv
    <3>4. CASE Delete(h)
      BY <2>1, <3>4, DeleteTimes, ItemsKept DEF Delete, OnceInv
    <3>5. QED
      BY <2>4, <3>1, <3>2, <3>3, <3>4 DEF Handle
  <2>5. ASSUME NEW h \in Handlers, NEW by \in Users, NEW r \in DOMAIN requests,
               Withdraw(h, by, r)
        PROVE  OnceInv'
    BY <2>1, <2>2, <2>5, WithdrawTimes, ItemsKept DEF Withdraw, OnceInv
  <2>6. ASSUME NEW h \in Handlers, NEW by \in Users, NEW r \in DOMAIN requests,
               NEW kind \in Kinds, Review(h, kind, by, r)
        PROVE  OnceInv'
    BY <2>1, <2>2, <2>6, ReviewTimes, ItemsKept DEF Review, OnceInv
  <2>7. QED
    BY <1>3, <2>3, <2>4, <2>5, <2>6 DEF ReviewNext
<1>4. QED
  BY <1>1, <1>2, <1>3 DEF Next

(* What the author once did is done at once or proposed in one request, and *)
(* a request takes effect once: again only as often as calls failed, pages  *)
(* were reloaded over a submit or the API was restarted, or reviews met.    *)
THEOREM EffectsOnce == Spec => []EffectOnce
<1>1. DraftInv /\ OnceInv => EffectOnce
  <2> SUFFICES ASSUME DraftInv, OnceInv, NEW c \in Changes
               PROVE  /\ effects[Outright][c] + Cardinality(Proposals(c)) <= 1 + slips
                      /\ \A r \in DOMAIN requests : effects[r][c] <= 1 + slips + races[r]
    BY DEF EffectOnce
  <2>1. effects[Outright][c] + Cardinality(Proposals(c)) <= 1 + slips
    <3>1. Once(c)
      BY DEF OnceInv, ItemsInv
    <3>2. /\ effects[Outright][c] \in Nat /\ Cardinality(Proposals(c)) \in Nat /\ slips \in Nat
          /\ One(AtHand(c)) \in Nat
      BY CountTypes, OneFacts DEF DraftInv
    <3>3. QED
      BY <3>1, <3>2 DEF Once
  <2>2. ASSUME NEW r \in DOMAIN requests PROVE effects[r][c] <= 1 + slips + races[r]
    <3>1. Times(r, c)
      BY DEF OnceInv, TimesInv
    <3>2. /\ effects[r][c] \in Nat /\ Cardinality(Coming(r, c)) \in Nat /\ slips \in Nat
          /\ races[r] \in Nat /\ One(Free(r)) \in Nat
      BY CountTypes, OneFacts DEF DraftInv
    <3>3. QED
      BY <3>1, <3>2 DEF Times
  <2>3. QED
    BY <2>1, <2>2
<1>2. QED
  BY <1>1, OnceInit, OnceNext, DraftInvariant, PTL DEF Spec

(***************************************************************************)
(* LoginFlow: a login stays in the browser that set out for it             *)
(* (api/src/auth/routes.ts, ui/src/stores/auth.ts).                        *)
(***************************************************************************)

Roles == {"gone", "none", "user", "admin"}
Routes == {"login", "auth-callback", "dashboard", "account", "settings", "no-access"}
Notices == {"none", "not configured", "no code", "other browser", "expired", "failed", "no session"}
Links == [state : Nat \cup {Absent}, issuer : Issuers \cup {Absent}, sub : Subs \cup {Absent}]
Sessions == [sub : Subs \cup {Absent}, role : Roles]

Tab ==
  [at : {"routing", "shown", "idp", "raw", "return", "exchange", "checking"},
   route : Routes, token : Nat \cup {Absent}, session : Sessions, checked : BOOLEAN,
   fragment : Nat \cup {Absent}, notice : Notices, link : Links, issuer : Issuers \cup {Absent}]

(* Everything but the tabs. *)
ServerType ==
  /\ browser \in [Tabs -> Browsers]
  /\ cookie \in [Browsers -> Nat \cup {Absent}] /\ stored \in [Browsers -> Nat \cup {Absent}]
  /\ config \in Issuers \cup {Absent} /\ role \in [Subs -> Roles]
  /\ minted \in [DOMAIN minted -> [sub : Subs, browser : Browsers]]
  /\ begun \in [DOMAIN begun -> Browsers]
  /\ sessions \subseteq DOMAIN minted /\ pending \subseteq DOMAIN begun

(* What was issued is numbered up to Issued, so NextId is new.              *)
Numbered ==
  /\ Issued \in Nat
  /\ DOMAIN minted \subseteq 1..Issued /\ DOMAIN begun \subseteq 1..Issued

TokenOf(b, token) ==
  token # Absent => token \in DOMAIN minted /\ minted[token].browser = b

(* What a browser stores is of logins it set out for, and so is the state   *)
(* in its cookie.                                                           *)
BrowserInv ==
  \A b \in Browsers :
    /\ TokenOf(b, stored[b])
    /\ cookie[b] # Absent => cookie[b] \in DOMAIN begun /\ begun[cookie[b]] = b

SharedInv == ServerType /\ Numbered /\ BrowserInv

(* A tab's tokens are its browser's; so is the state of a callback that was *)
(* let through; what it says of its session is true unless it is about to   *)
(* ask again.                                                               *)
TabInv(b, tab) ==
  /\ TokenOf(b, tab.token) /\ TokenOf(b, tab.fragment)
  /\ tab.at = "exchange" =>
       /\ tab.link.state \in DOMAIN begun /\ begun[tab.link.state] = b
       /\ tab.link.sub # Absent
  /\ tab.at \in {"routing", "shown"} /\ HasSession(tab) =>
       tab.token # Absent /\ tab.session.sub = minted[tab.token].sub

LoginInv ==
  /\ SharedInv
  /\ tabs \in [Tabs -> Tab]
  /\ \A t \in Tabs : TabInv(browser[t], tabs[t])

TypeOK == ServerType /\ tabs \in [Tabs -> Tab]

----------------------------------------------------------------------------
(* What is issued *)

LoginsKept ==
  /\ \A n \in DOMAIN minted : n \in DOMAIN minted' /\ minted'[n] = minted[n]
  /\ \A n \in DOMAIN begun : n \in DOMAIN begun' /\ begun'[n] = begun[n]

(* The next number is one that nothing has, so issuing it keeps the count.  *)
LEMMA NextIdIsNew ==
  ASSUME Numbered
  PROVE  /\ NextId \in Nat /\ NextId # Absent
         /\ NextId \notin DOMAIN minted /\ NextId \notin DOMAIN begun
BY LoginAssumption DEF Numbered, NextId

LEMMA OneMore ==
  ASSUME NEW n \in Nat, NEW S \in SUBSET (1..n)
  PROVE  /\ IsFiniteSet(S) /\ Cardinality(S) \in Nat
         /\ Cardinality(S \cup {n + 1}) = Cardinality(S) + 1
<1>1. IsFiniteSet(S)
  <2>1. IsFiniteSet(1..n)
    BY FS_Interval
  <2>2. QED
    BY <2>1, FS_Subset
<1>2. n + 1 \notin S
  OBVIOUS
<1>3. QED
  BY <1>1, <1>2, FS_AddElement, FS_CardinalityType

LEMMA MintNumbers ==
  ASSUME Numbered, NEW s \in Subs, NEW b \in Browsers, Mint(s, b), UNCHANGED begun
  PROVE  /\ Numbered' /\ LoginsKept
         /\ DOMAIN minted' = DOMAIN minted \cup {NextId}
         /\ minted'[NextId] = [sub |-> s, browser |-> b]
<1>1. DOMAIN minted' = DOMAIN minted \cup {NextId} /\ minted'[NextId] = [sub |-> s, browser |-> b]
  BY DEF Mint
<1>2. LoginsKept
  BY NextIdIsNew DEF Mint, LoginsKept
<1>3. Cardinality(DOMAIN minted') = Cardinality(DOMAIN minted) + 1
  BY <1>1, OneMore DEF Numbered, NextId
<1>4. /\ Cardinality(DOMAIN minted) \in Nat /\ Cardinality(DOMAIN begun) \in Nat
      /\ DOMAIN begun' = DOMAIN begun
  BY OneMore DEF Numbered
<1>5. Issued' = Issued + 1
  BY <1>3, <1>4 DEF Issued
<1>6. QED
  BY <1>1, <1>2, <1>5 DEF Numbered, NextId

LEMMA BeginNumbers ==
  ASSUME Numbered, NEW b \in Browsers, UNCHANGED minted,
         begun' = [n \in DOMAIN begun \cup {NextId} |-> IF n = NextId THEN b ELSE begun[n]]
  PROVE  /\ Numbered' /\ LoginsKept
         /\ DOMAIN begun' = DOMAIN begun \cup {NextId} /\ begun'[NextId] = b
<1>1. DOMAIN begun' = DOMAIN begun \cup {NextId} /\ begun'[NextId] = b
  OBVIOUS
<1>2. LoginsKept
  BY NextIdIsNew DEF LoginsKept
<1>3. Cardinality(DOMAIN begun') = Cardinality(DOMAIN begun) + 1
  BY <1>1, OneMore DEF Numbered, NextId
<1>4. Cardinality(DOMAIN minted) \in Nat /\ Cardinality(DOMAIN begun) \in Nat
  BY OneMore DEF Numbered
<1>5. Issued' = Issued + 1
  BY <1>3, <1>4 DEF Issued
<1>6. QED
  BY <1>1, <1>2, <1>5 DEF Numbered, NextId

----------------------------------------------------------------------------
(* The steps of one tab *)

(* It is enough to look at the tab that moves, and at what is shared.       *)
LEMMA TabStep ==
  ASSUME LoginInv, NEW t \in Tabs, NEW tab \in Tab, Become(t, tab), UNCHANGED browser,
         LoginsKept, SharedInv', TabInv(browser[t], tab)'
  PROVE  LoginInv'
<1>1. tabs' = [tabs EXCEPT ![t] = tab] /\ tabs' \in [Tabs -> Tab]
  BY DEF Become, LoginInv
<1>2. ASSUME NEW u \in Tabs, u # t PROVE TabInv(browser[u], tabs[u])'
  <2>1. tabs'[u] = tabs[u] /\ tabs[u] \in Tab /\ TabInv(browser[u], tabs[u])
    BY <1>1, <1>2 DEF LoginInv
  <2>2. QED
    BY <2>1 DEF TabInv, TokenOf, LoginsKept, HasSession
<1>3. tabs'[t] = tab
  BY <1>1 DEF LoginInv
<1>4. QED
  BY <1>1, <1>2, <1>3 DEF LoginInv

LEMMA SharedKept ==
  ASSUME SharedInv, UNCHANGED <<browser, minted, begun, cookie, stored, config, role>>,
         sessions' \subseteq sessions, pending' \subseteq pending
  PROVE  SharedInv' /\ LoginsKept
BY DEF SharedInv, ServerType, Numbered, Issued, BrowserInv, TokenOf, LoginsKept

(* A page that is loaded holds the token of its browser, and no session.    *)
LEMMA LoadedTab ==
  ASSUME NEW token \in Nat \cup {Absent}, NEW route \in Routes, NEW fragment \in Nat \cup {Absent},
         NEW notice \in Notices, NEW link \in Links,
         NEW tab, tab = Loaded(token, route, fragment, notice, link)
  PROVE  tab \in Tab /\ ~HasSession(tab)
<1>1. NoSession \in Sessions /\ NoSession.sub = Absent
  BY DEF NoSession, Sessions, Roles
<1>2. tab = [at |-> "routing", route |-> route, token |-> token, session |-> NoSession,
             checked |-> FALSE, fragment |-> fragment, notice |-> notice, link |-> link,
             issuer |-> Absent]
  BY DEF Loaded
<1>3. tab.session = NoSession
  BY <1>2
<1>4. QED
  BY <1>1, <1>2, <1>3 DEF Tab, HasSession

(* So loading a page keeps the invariant, as long as what is shared does.   *)
LEMMA LoadKeeps ==
  ASSUME LoginInv, NEW t \in Tabs, NEW token, TokenOf(browser[t], token),
         NEW route \in Routes, NEW notice \in Notices,
         Load(t, token, route, notice), UNCHANGED browser, LoginsKept, SharedInv'
  PROVE  LoginInv'
<1>1. PICK link \in Links : link = tabs[t].link
  BY DEF LoginInv, Tab
<1>2. PICK tab : tab = Loaded(token, route, Absent, notice, link)
  OBVIOUS
<1>3. token \in Nat \cup {Absent} /\ Absent \in Nat \cup {Absent}
  BY DEF TokenOf, LoginInv, SharedInv, Numbered
<1>4. tab \in Tab /\ ~HasSession(tab)
  BY <1>2, <1>3, LoadedTab
<1>5. TabInv(browser[t], tab)'
  <2>1. tab.at = "routing" /\ tab.token = token /\ tab.fragment = Absent
    BY <1>2 DEF Loaded
  <2>2. QED
    BY <1>4, <2>1 DEF TabInv, TokenOf, LoginsKept, HasSession
<1>6. Become(t, tab)
  BY <1>1, <1>2 DEF Load
<1>7. QED
  BY <1>4, <1>5, <1>6, TabStep
(* A tab that keeps its tokens, and has not been let through a callback,    *)
(* only has to tell the truth about its session.                            *)
LEMMA MoveKeeps ==
  ASSUME LoginInv, NEW t \in Tabs, NEW tab \in Tab, Become(t, tab), UNCHANGED browser,
         tab.token = tabs[t].token, tab.fragment = tabs[t].fragment, tab.at # "exchange",
         tab.at \in {"routing", "shown"} /\ HasSession(tab) =>
           /\ tab.token \in DOMAIN minted /\ tab.token # Absent
           /\ tab.session.sub = minted[tab.token].sub,
         LoginsKept, SharedInv'
  PROVE  LoginInv'
<1>1. TabInv(browser[t], tabs[t])
  BY DEF LoginInv
<1>2. TabInv(browser[t], tab)'
  BY <1>1 DEF TabInv, TokenOf, LoginsKept, HasSession
<1>3. QED
  BY <1>2, TabStep

(* What whoami answers is true of the token that was sent.                  *)
LEMMA WhoIsTrue ==
  ASSUME SharedInv, NEW token
  PROVE  /\ Who(token) \in Sessions
         /\ Who(token).sub # Absent =>
              token \in DOMAIN minted /\ token # Absent /\ Who(token).sub = minted[token].sub
<1>1. CASE token \in sessions
  <2>1. token \in DOMAIN minted /\ token # Absent /\ minted[token].sub \in Subs
    BY <1>1, LoginAssumption DEF SharedInv, ServerType, Numbered
  <2>2. RoleOf(minted[token].sub) \in Roles
    BY <2>1 DEF SharedInv, ServerType, RoleOf, Roles
  <2>3. QED
    BY <1>1, <2>1, <2>2 DEF Who, Sessions
<1>2. CASE token \notin sessions
  BY <1>2 DEF Who, NoSession, Sessions, Roles
<1>3. QED
  BY <1>1, <1>2

LEMMA GuardKeeps ==
  ASSUME LoginInv, NEW t \in Tabs, Guard(t)
  PROVE  LoginInv'
<1>1. PICK s \in IF tabs[t].checked THEN {tabs[t].session} ELSE {Who(tabs[t].token), NoSession} :
        LET known == [tabs[t] EXCEPT !.at = "shown", !.session = s, !.checked = TRUE]
            to == Redirect(known)
        IN Become(t, [known EXCEPT !.route = to, !.notice = IF to = "login" THEN @ ELSE "none"])
  BY DEF Guard
<1>2. tabs[t] \in Tab /\ TabInv(browser[t], tabs[t]) /\ tabs[t].at = "routing"
  BY DEF Guard, LoginInv
<1>3. /\ s \in Sessions
      /\ s.sub # Absent => /\ tabs[t].token \in DOMAIN minted /\ tabs[t].token # Absent
                         /\ s.sub = minted[tabs[t].token].sub
  <2>1. CASE s = tabs[t].session
    BY <1>2, <2>1 DEF Tab, TabInv, HasSession, TokenOf
  <2>2. CASE s = Who(tabs[t].token)
    BY <2>2, WhoIsTrue DEF LoginInv
  <2>3. CASE s = NoSession
    BY <2>3 DEF NoSession, Sessions, Roles
  <2>4. QED
    BY <1>1, <2>1, <2>2, <2>3
<1>4. PICK known : known = [tabs[t] EXCEPT !.at = "shown", !.session = s, !.checked = TRUE]
  OBVIOUS
<1>5. /\ known \in Tab /\ known.at = "shown" /\ known.session = s
      /\ known.token = tabs[t].token /\ known.fragment = tabs[t].fragment
  BY <1>2, <1>3, <1>4 DEF Tab
<1>6. Redirect(known) \in Routes
  BY <1>5 DEF Redirect, Routes, Tab
<1>7. PICK tab : tab = [known EXCEPT !.route = Redirect(known),
                                     !.notice = IF Redirect(known) = "login" THEN @ ELSE "none"]
  OBVIOUS
<1>8. /\ tab \in Tab /\ tab.at = "shown" /\ tab.session = s
      /\ tab.token = tabs[t].token /\ tab.fragment = tabs[t].fragment
  BY <1>5, <1>6, <1>7 DEF Tab, Notices
<1>9. SharedInv' /\ LoginsKept /\ UNCHANGED browser
  BY SharedKept DEF Guard, LoginInv, browserVars, serverVars
<1>10. Become(t, tab)
  BY <1>1, <1>4, <1>7
<1>11. QED
  BY <1>3, <1>8, <1>9, <1>10, MoveKeeps DEF HasSession

LEMMA NavigateKeeps ==
  ASSUME LoginInv, NEW t \in Tabs, Navigate(t)
  PROVE  LoginInv'
<1>1. PICK to \in {"dashboard", "account", "settings"} :
        Become(t, [tabs[t] EXCEPT !.at = "routing", !.route = to, !.notice = "none"])
  BY DEF Navigate
<1>2. tabs[t] \in Tab /\ TabInv(browser[t], tabs[t]) /\ tabs[t].at = "shown"
  BY DEF Navigate, LoginInv
<1>3. PICK tab : tab = [tabs[t] EXCEPT !.at = "routing", !.route = to, !.notice = "none"]
  OBVIOUS
<1>4. /\ tab \in Tab /\ tab.at = "routing" /\ tab.session = tabs[t].session
      /\ tab.token = tabs[t].token /\ tab.fragment = tabs[t].fragment
  BY <1>2, <1>3 DEF Tab, Routes, Notices
<1>5. SharedInv' /\ LoginsKept /\ UNCHANGED browser
  BY SharedKept DEF Navigate, LoginInv, browserVars, serverVars
<1>6. QED
  BY <1>1, <1>2, <1>3, <1>4, <1>5, MoveKeeps DEF HasSession, TabInv, TokenOf

(* The app is loaded with the token that the browser has stored.            *)
LEMMA StoredIsOf ==
  ASSUME LoginInv, NEW t \in Tabs
  PROVE  browser[t] \in Browsers /\ TokenOf(browser[t], stored[browser[t]])
BY DEF LoginInv, SharedInv, ServerType, BrowserInv

LEMMA ReloadKeeps ==
  ASSUME LoginInv, NEW t \in Tabs, LoadAgain(t)
  PROVE  LoginInv'
<1>1. SharedInv' /\ LoginsKept /\ UNCHANGED browser
  BY SharedKept DEF LoadAgain, LoginInv, browserVars, serverVars
<1>2. Load(t, stored[browser[t]], "dashboard", "none")
  BY DEF LoadAgain
<1>3. QED
  BY <1>1, <1>2, StoredIsOf, LoadKeeps DEF Routes, Notices
(* redirectToLoginWithError loads the app whatever the callback met.        *)
LEMMA ErrorKeeps ==
  ASSUME LoginInv, NEW t \in Tabs, NEW message \in Notices, LoginError(t, message),
         UNCHANGED browser, LoginsKept, SharedInv'
  PROVE  LoginInv'
BY StoredIsOf, LoadKeeps DEF LoginError, Routes

(* A login that begins is its browser's: in the cookie and in memory.       *)
LEMMA LoginKeeps ==
  ASSUME LoginInv, NEW t \in Tabs, Login(t)
  PROVE  LoginInv'
<1>1. UNCHANGED <<browser, stored, config, role, sessions, minted>>
  BY DEF Login
<1>2. CASE LoginError(t, "not configured") /\ UNCHANGED <<cookie, pending, begun>>
  <2>1. SharedInv' /\ LoginsKept
    BY <1>1, <1>2, SharedKept DEF LoginInv
  <2>2. QED
    BY <1>1, <1>2, <2>1, ErrorKeeps DEF Notices
<1>3. CASE
  /\ begun' = [n \in DOMAIN begun \cup {NextId} |->
                 IF n = NextId THEN browser[t] ELSE begun[n]]
  /\ pending' = pending \cup {NextId}
  /\ cookie' = [cookie EXCEPT ![browser[t]] = NextId]
  /\ \/ Become(t, [tabs[t] EXCEPT !.at = "idp", !.issuer = config,
                                  !.link = [NoCode EXCEPT !.state = NextId]])
     \/ Become(t, [tabs[t] EXCEPT !.at = "raw"])
  <2>1. /\ browser[t] \in Browsers /\ Numbered /\ ServerType /\ BrowserInv
        /\ tabs[t] \in Tab
    BY DEF LoginInv, SharedInv, ServerType
  <2>2. /\ NextId \in Nat /\ NextId # Absent /\ NextId \notin DOMAIN begun
        /\ Numbered' /\ LoginsKept
        /\ DOMAIN begun' = DOMAIN begun \cup {NextId} /\ begun'[NextId] = browser[t]
    BY <1>1, <1>3, <2>1, NextIdIsNew, BeginNumbers
  <2>3. SharedInv'
    <3>1. ServerType'
      <4>1. begun' \in [DOMAIN begun' -> Browsers]
        BY <1>3, <2>1, <2>2 DEF ServerType
      <4>2. cookie' \in [Browsers -> Nat \cup {Absent}]
        BY <1>3, <2>1, <2>2 DEF ServerType
      <4>3. QED
        BY <1>1, <1>3, <2>1, <2>2, <4>1, <4>2 DEF ServerType
    <3>2. BrowserInv'
      BY <1>1, <1>3, <2>1, <2>2 DEF BrowserInv, ServerType, TokenOf, LoginsKept
    <3>3. QED
      BY <2>2, <3>1, <3>2 DEF SharedInv
  <2>4. CASE Become(t, [tabs[t] EXCEPT !.at = "idp", !.issuer = config,
                                       !.link = [NoCode EXCEPT !.state = NextId]])
    <3>1. [NoCode EXCEPT !.state = NextId] \in Links
      BY <2>2 DEF NoCode, Links
    <3>2. PICK tab : tab = [tabs[t] EXCEPT !.at = "idp", !.issuer = config,
                                           !.link = [NoCode EXCEPT !.state = NextId]]
      OBVIOUS
    <3>3. /\ tab \in Tab /\ tab.at = "idp"
          /\ tab.token = tabs[t].token /\ tab.fragment = tabs[t].fragment
      BY <2>1, <3>1, <3>2 DEF Tab, ServerType
    <3>4. QED
      BY <1>1, <2>2, <2>3, <2>4, <3>2, <3>3, MoveKeeps
  <2>5. CASE Become(t, [tabs[t] EXCEPT !.at = "raw"])
    <3>1. PICK tab : tab = [tabs[t] EXCEPT !.at = "raw"]
      OBVIOUS
    <3>2. /\ tab \in Tab /\ tab.at = "raw"
          /\ tab.token = tabs[t].token /\ tab.fragment = tabs[t].fragment
      BY <2>1, <3>1 DEF Tab
    <3>3. QED
      BY <1>1, <2>2, <2>3, <2>5, <3>1, <3>2, MoveKeeps
  <2>6. QED
    BY <1>3, <2>4, <2>5
<1>4. QED
  BY <1>2, <1>3 DEF Login

LEMMA AuthenticateKeeps ==
  ASSUME LoginInv, NEW t \in Tabs, Authenticate(t)
  PROVE  LoginInv'
<1>1. PICK s \in Subs \cup {Absent}, issuer \in Issuers \cup {Absent} :
        Become(t, [tabs[t] EXCEPT !.at = "return", !.link.sub = s, !.link.issuer = issuer])
  <2>1. tabs[t].issuer \in Issuers \cup {Absent}
    BY DEF LoginInv, Tab
  <2>2. QED
    BY <2>1 DEF Authenticate
<1>2. tabs[t] \in Tab
  BY DEF LoginInv
<1>3. PICK tab : tab = [tabs[t] EXCEPT !.at = "return", !.link.sub = s, !.link.issuer = issuer]
  OBVIOUS
<1>4. /\ tab \in Tab /\ tab.at = "return"
      /\ tab.token = tabs[t].token /\ tab.fragment = tabs[t].fragment
  BY <1>2, <1>3 DEF Tab, Links
<1>5. SharedInv' /\ LoginsKept /\ UNCHANGED browser
  BY SharedKept DEF Authenticate, LoginInv, browserVars, serverVars
<1>6. QED
  BY <1>1, <1>3, <1>4, <1>5, MoveKeeps

LEMMA RevisitKeeps ==
  ASSUME LoginInv, NEW t \in Tabs, Revisit(t)
  PROVE  LoginInv'
<1>1. PICK u \in Tabs : Become(t, [tabs[t] EXCEPT !.at = "return", !.link = tabs[u].link])
  BY DEF Revisit
<1>2. tabs[t] \in Tab /\ tabs[u].link \in Links
  BY DEF LoginInv, Tab
<1>3. PICK tab : tab = [tabs[t] EXCEPT !.at = "return", !.link = tabs[u].link]
  OBVIOUS
<1>4. /\ tab \in Tab /\ tab.at = "return"
      /\ tab.token = tabs[t].token /\ tab.fragment = tabs[t].fragment
  BY <1>2, <1>3 DEF Tab
<1>5. SharedInv' /\ LoginsKept /\ UNCHANGED browser
  BY SharedKept DEF Revisit, LoginInv, browserVars, serverVars
<1>6. QED
  BY <1>1, <1>3, <1>4, <1>5, MoveKeeps

(* The cookie's state is the browser's own, so what is let through is, too. *)
LEMMA CallbackKeeps ==
  ASSUME LoginInv, NEW t \in Tabs, Callback(t)
  PROVE  LoginInv'
<1>1. UNCHANGED <<browser, stored, config, role, sessions, minted, begun>>
  BY DEF Callback
<1>2. tabs[t] \in Tab /\ SharedInv /\ browser[t] \in Browsers /\ TabInv(browser[t], tabs[t])
  BY DEF LoginInv, SharedInv, ServerType
<1>3. /\ cookie' = cookie \/ cookie' = [cookie EXCEPT ![browser[t]] = Absent]
      /\ pending' \subseteq pending
  BY DEF Callback, Redeem
<1>4. SharedInv' /\ LoginsKept
  BY <1>1, <1>2, <1>3
     DEF SharedInv, ServerType, Numbered, Issued, BrowserInv, TokenOf, LoginsKept
<1>5. \/ \E message \in Notices : LoginError(t, message)
      \/ /\ cookie[browser[t]] = tabs[t].link.state /\ tabs[t].link.sub # Absent
         /\ tabs[t].link.state \in pending
         /\ Become(t, [tabs[t] EXCEPT !.at = "exchange", !.issuer = config])
  BY DEF Callback, Redeem, Notices
<1>6. CASE \E message \in Notices : LoginError(t, message)
  BY <1>1, <1>4, <1>6, ErrorKeeps
<1>7. CASE /\ cookie[browser[t]] = tabs[t].link.state /\ tabs[t].link.sub # Absent
           /\ tabs[t].link.state \in pending
           /\ Become(t, [tabs[t] EXCEPT !.at = "exchange", !.issuer = config])
  <2>1. PICK tab : tab = [tabs[t] EXCEPT !.at = "exchange", !.issuer = config]
    OBVIOUS
  <2>2. /\ tab \in Tab /\ tab.at = "exchange" /\ tab.link = tabs[t].link
        /\ tab.token = tabs[t].token /\ tab.fragment = tabs[t].fragment
    BY <1>2, <2>1 DEF Tab, SharedInv, ServerType
  <2>3. /\ tabs[t].link.state \in DOMAIN begun /\ begun[tabs[t].link.state] = browser[t]
    <3>1. tabs[t].link.state \in DOMAIN begun /\ DOMAIN begun \subseteq Nat
      BY <1>2, <1>7 DEF SharedInv, ServerType, Numbered
    <3>2. cookie[browser[t]] # Absent
      BY <3>1, <1>7, LoginAssumption
    <3>3. QED
      BY <1>2, <1>7, <3>2 DEF SharedInv, BrowserInv
  <2>4. TabInv(browser[t], tab)'
    BY <1>1, <1>2, <1>7, <2>2, <2>3 DEF TabInv, TokenOf
  <2>5. QED
    BY <1>1, <1>4, <1>7, <2>1, <2>2, <2>4, TabStep
<1>8. QED
  BY <1>5, <1>6, <1>7
(* The session that is made for a callback belongs to the browser that set  *)
(* out with its state, and that is the browser the app is loaded in.        *)
LEMMA ExchangeKeeps ==
  ASSUME LoginInv, NEW t \in Tabs, Exchange(t)
  PROVE  LoginInv'
<1>1. UNCHANGED <<browser, cookie, stored, config, pending, begun>>
  BY DEF Exchange, browserVars
<1>2. /\ tabs[t] \in Tab /\ SharedInv /\ browser[t] \in Browsers
      /\ tabs[t].link \in Links /\ tabs[t].link.sub \in Subs
      /\ begun[tabs[t].link.state] = browser[t]
  <2>1. tabs[t] \in Tab /\ SharedInv /\ browser[t] \in Browsers /\ tabs[t].link \in Links
    BY DEF LoginInv, SharedInv, ServerType, Tab
  <2>2. tabs[t].link.sub # Absent /\ begun[tabs[t].link.state] = browser[t]
    BY DEF LoginInv, TabInv, Exchange
  <2>3. QED
    BY <2>1, <2>2 DEF Links
<1>3. CASE /\ Mint(tabs[t].link.sub, begun[tabs[t].link.state])
           /\ role' = [role EXCEPT ![tabs[t].link.sub] = IF @ = "gone" THEN "none" ELSE @]
           /\ Become(t, Loaded(stored[browser[t]], "auth-callback", NextId, "none", tabs[t].link))
  <2>1. /\ NextId \in Nat /\ NextId # Absent
        /\ Numbered' /\ LoginsKept /\ DOMAIN minted' = DOMAIN minted \cup {NextId}
        /\ minted'[NextId] = [sub |-> tabs[t].link.sub, browser |-> browser[t]]
    BY <1>1, <1>2, <1>3, NextIdIsNew, MintNumbers DEF SharedInv
  <2>2. SharedInv'
    <3>1. role' \in [Subs -> Roles]
      BY <1>2, <1>3 DEF SharedInv, ServerType, Roles
    <3>2. minted' \in [DOMAIN minted' -> [sub : Subs, browser : Browsers]]
      BY <1>2, <1>3, <2>1 DEF SharedInv, ServerType, Mint
    <3>3. sessions' \subseteq DOMAIN minted'
      BY <1>2, <1>3, <2>1 DEF SharedInv, ServerType, Mint
    <3>4. BrowserInv'
      BY <1>1, <1>2, <2>1 DEF SharedInv, BrowserInv, TokenOf, LoginsKept
    <3>5. QED
      BY <1>1, <1>2, <2>1, <3>1, <3>2, <3>3, <3>4 DEF SharedInv, ServerType
  <2>3. PICK token : token = stored[browser[t]]
    OBVIOUS
  <2>4. TokenOf(browser[t], token) /\ token \in Nat \cup {Absent}
    BY <2>3, <1>2, StoredIsOf DEF SharedInv, ServerType
  <2>5. PICK link \in Links, id \in Nat : link = tabs[t].link /\ id = NextId
    BY <1>2, <2>1
  <2>6. PICK tab : tab = Loaded(token, "auth-callback", id, "none", link)
    OBVIOUS
  <2>7. tab \in Tab /\ ~HasSession(tab)
    BY <2>4, <2>6, LoadedTab DEF Routes, Notices
  <2>8. TabInv(browser[t], tab)'
    <3>1. tab.at = "routing" /\ tab.token = token /\ tab.fragment = id
      BY <2>6 DEF Loaded
    <3>2. id \in DOMAIN minted' /\ minted'[id].browser = browser[t]
      BY <2>1, <2>5
    <3>3. QED
      BY <1>1, <2>1, <2>4, <2>7, <3>1, <3>2 DEF TabInv, TokenOf, LoginsKept, HasSession
  <2>9. Become(t, tab)
    BY <1>3, <2>3, <2>5, <2>6
  <2>10. QED
    BY <1>1, <2>1, <2>2, <2>7, <2>8, <2>9, TabStep
<1>4. CASE LoginError(t, "failed") /\ UNCHANGED <<minted, sessions, role>>
  <2>1. SharedInv' /\ LoginsKept
    BY <1>1, <1>2, <1>4, SharedKept
  <2>2. QED
    BY <1>1, <1>4, <2>1, ErrorKeeps DEF Notices
<1>5. QED
  BY <1>3, <1>4 DEF Exchange

LEMMA SetTokenKeeps ==
  ASSUME LoginInv, NEW t \in Tabs, SetToken(t)
  PROVE  LoginInv'
<1>1. UNCHANGED <<browser, cookie, config, role, pending, sessions, minted, begun>>
  BY DEF SetToken, serverVars
<1>2. /\ tabs[t] \in Tab /\ SharedInv /\ browser[t] \in Browsers
      /\ TokenOf(browser[t], tabs[t].fragment) /\ tabs[t].fragment \in Nat \cup {Absent}
  BY DEF LoginInv, SharedInv, ServerType, TabInv, Tab
<1>3. stored' = [stored EXCEPT ![browser[t]] = tabs[t].fragment]
  BY DEF SetToken
<1>4. SharedInv' /\ LoginsKept
  BY <1>1, <1>2, <1>3
     DEF SharedInv, ServerType, Numbered, Issued, BrowserInv, TokenOf, LoginsKept
<1>5. PICK tab : tab = [tabs[t] EXCEPT !.at = "checking", !.token = tabs[t].fragment]
  OBVIOUS
<1>6. /\ tab \in Tab /\ tab.at = "checking"
      /\ tab.token = tabs[t].fragment /\ tab.fragment = tabs[t].fragment
  BY <1>2, <1>5 DEF Tab
<1>7. TabInv(browser[t], tab)'
  BY <1>1, <1>2, <1>6 DEF TabInv, TokenOf
<1>8. Become(t, tab)
  BY <1>5 DEF SetToken
<1>9. QED
  BY <1>1, <1>4, <1>6, <1>7, <1>8, TabStep

LEMMA CheckedKeeps ==
  ASSUME LoginInv, NEW t \in Tabs, Checked(t)
  PROVE  LoginInv'
<1>1. PICK s \in {Who(tabs[t].token), NoSession}, route \in Routes, notice \in Notices :
        Become(t, [tabs[t] EXCEPT !.session = s, !.checked = TRUE, !.at = "routing",
                                  !.route = route, !.notice = notice])
  BY DEF Checked, Routes, Notices
<1>2. tabs[t] \in Tab
  BY DEF LoginInv
<1>3. /\ s \in Sessions
      /\ s.sub # Absent => /\ tabs[t].token \in DOMAIN minted /\ tabs[t].token # Absent
                         /\ s.sub = minted[tabs[t].token].sub
  BY <1>1, WhoIsTrue DEF LoginInv, NoSession, Sessions, Roles
<1>4. PICK tab : tab = [tabs[t] EXCEPT !.session = s, !.checked = TRUE, !.at = "routing",
                                       !.route = route, !.notice = notice]
  OBVIOUS
<1>5. /\ tab \in Tab /\ tab.at = "routing" /\ tab.session = s
      /\ tab.token = tabs[t].token /\ tab.fragment = tabs[t].fragment
  BY <1>2, <1>3, <1>4 DEF Tab
<1>6. SharedInv' /\ LoginsKept /\ UNCHANGED browser
  BY SharedKept DEF Checked, LoginInv, browserVars, serverVars
<1>7. QED
  BY <1>1, <1>3, <1>4, <1>5, <1>6, MoveKeeps DEF HasSession
LEMMA LocalLoginKeeps ==
  ASSUME LoginInv, NEW t \in Tabs, LocalLogin(t)
  PROVE  LoginInv'
<1>1. UNCHANGED <<browser, cookie, config, role, pending, begun>>
  BY DEF LocalLogin
<1>2. PICK s \in Subs : /\ Mint(s, browser[t])
                        /\ stored' = [stored EXCEPT ![browser[t]] = NextId]
                        /\ Become(t, [tabs[t] EXCEPT !.at = "checking", !.token = NextId])
  BY DEF LocalLogin
<1>3. tabs[t] \in Tab /\ SharedInv /\ browser[t] \in Browsers /\ TabInv(browser[t], tabs[t])
  BY DEF LoginInv, SharedInv, ServerType
<1>4. /\ NextId \in Nat /\ NextId # Absent
      /\ Numbered' /\ LoginsKept /\ DOMAIN minted' = DOMAIN minted \cup {NextId}
      /\ minted'[NextId] = [sub |-> s, browser |-> browser[t]]
  BY <1>1, <1>2, <1>3, NextIdIsNew, MintNumbers DEF SharedInv
<1>5. SharedInv'
  <2>1. minted' \in [DOMAIN minted' -> [sub : Subs, browser : Browsers]]
    BY <1>2, <1>3, <1>4 DEF SharedInv, ServerType, Mint
  <2>2. sessions' \subseteq DOMAIN minted'
    BY <1>2, <1>3, <1>4 DEF SharedInv, ServerType, Mint
  <2>3. stored' \in [Browsers -> Nat \cup {Absent}]
    BY <1>2, <1>3, <1>4 DEF SharedInv, ServerType
  <2>4. BrowserInv'
    BY <1>1, <1>2, <1>3, <1>4 DEF SharedInv, ServerType, BrowserInv, TokenOf, LoginsKept
  <2>5. QED
    BY <1>1, <1>3, <1>4, <2>1, <2>2, <2>3, <2>4 DEF SharedInv, ServerType
<1>6. PICK id \in Nat : id = NextId
  BY <1>4
<1>7. PICK tab : tab = [tabs[t] EXCEPT !.at = "checking", !.token = id]
  OBVIOUS
<1>8. /\ tab \in Tab /\ tab.at = "checking"
      /\ tab.token = id /\ tab.fragment = tabs[t].fragment
  BY <1>3, <1>7 DEF Tab
<1>9. TabInv(browser[t], tab)'
  BY <1>1, <1>3, <1>4, <1>6, <1>8 DEF TabInv, TokenOf, LoginsKept
<1>10. Become(t, tab)
  BY <1>2, <1>6, <1>7
<1>11. QED
  BY <1>1, <1>4, <1>5, <1>8, <1>9, <1>10, TabStep

LEMMA LogoutKeeps ==
  ASSUME LoginInv, NEW t \in Tabs, Logout(t)
  PROVE  LoginInv'
<1>1. /\ UNCHANGED <<browser, cookie, config, role, pending, minted, begun>>
      /\ sessions' \subseteq sessions /\ stored' = [stored EXCEPT ![browser[t]] = Absent]
      /\ Load(t, Absent, "login", "none")
  BY DEF Logout, Forget
<1>2. SharedInv' /\ LoginsKept
  BY <1>1 DEF LoginInv, SharedInv, ServerType, Numbered, Issued, BrowserInv, TokenOf, LoginsKept
<1>3. TokenOf(browser[t], Absent)
  BY DEF TokenOf
<1>4. QED
  BY <1>1, <1>2, <1>3, LoadKeeps DEF Routes, Notices

(* What happens without a tab: things expire, settings change, the API      *)
(* restarts and the callbacks it was exchanging end in an error.            *)
LEMMA OthersKeep ==
  ASSUME LoginInv, Expire \/ Administer \/ Restart
  PROVE  LoginInv'
<1>1. CASE Expire
  BY <1>1 DEF Expire, LoginInv, SharedInv, ServerType, Numbered, Issued, BrowserInv, TokenOf,
              TabInv, HasSession
<1>2. CASE Administer
  <2>1. /\ UNCHANGED <<browserVars, tabs, pending, sessions, minted, begun>>
        /\ role' \in [Subs -> Roles] /\ config' \in Issuers \cup {Absent}
    BY <1>2 DEF Administer, LoginInv, SharedInv, ServerType, Roles
  <2>2. QED
    BY <2>1 DEF browserVars, LoginInv, SharedInv, ServerType, Numbered, Issued, BrowserInv,
                TokenOf, TabInv, HasSession
<1>3. CASE Restart
  <2>1. /\ UNCHANGED <<browserVars, config, role, minted, begun>>
        /\ sessions' \subseteq sessions /\ pending' \subseteq pending
    BY <1>3 DEF Restart
  <2>2. SharedInv' /\ LoginsKept
    BY <2>1, SharedKept DEF LoginInv, browserVars
  <2>3. ASSUME NEW t \in Tabs PROVE tabs'[t] \in Tab /\ TabInv(browser[t], tabs[t])'
    <3>1. tabs[t] \in Tab /\ TabInv(browser[t], tabs[t])
      BY DEF LoginInv
    <3>2. CASE tabs'[t] = tabs[t]
      BY <2>1, <3>1, <3>2 DEF browserVars, TabInv, TokenOf, HasSession
    <3>3. CASE tabs'[t] = [tabs[t] EXCEPT !.at = "raw"]
      <4>1. PICK tab : tab = [tabs[t] EXCEPT !.at = "raw"]
        OBVIOUS
      <4>2. /\ tab \in Tab /\ tab.at = "raw"
            /\ tab.token = tabs[t].token /\ tab.fragment = tabs[t].fragment
        BY <3>1, <4>1 DEF Tab
      <4>3. QED
        BY <2>1, <3>1, <3>3, <4>1, <4>2 DEF browserVars, TabInv, TokenOf
    <3>4. QED
      BY <1>3, <3>2, <3>3 DEF Restart
  <2>4. tabs' \in [Tabs -> Tab]
    BY <1>3, <2>3 DEF Restart
  <2>5. QED
    BY <2>2, <2>3, <2>4 DEF LoginInv
<1>4. QED
  BY <1>1, <1>2, <1>3

----------------------------------------------------------------------------
LEMMA LoginInitKeeps == LoginInit => LoginInv
<1> SUFFICES ASSUME LoginInit PROVE LoginInv
  OBVIOUS
<1>1. PICK b \in {browser[t] : t \in Tabs} \cup {Absent}, s \in Subs :
        /\ stored = [c \in Browsers |-> IF c = b THEN 1 ELSE Absent]
        /\ minted = [n \in IF b = Absent THEN {} ELSE {1} |-> [sub |-> s, browser |-> b]]
  BY DEF LoginInit
<1>2. browser \in [Tabs -> Browsers] /\ role \in [Subs -> Roles]
  BY LoginAssumption DEF LoginInit, Roles
<1>3. DOMAIN begun = {} /\ begun \in [{} -> Browsers]
  BY DEF LoginInit
<1>4. Numbered /\ (b # Absent => DOMAIN minted = {1})
  <2>1. CASE b = Absent
    BY <1>1, <1>3, <2>1, FS_EmptySet DEF Numbered, Issued
  <2>2. CASE b # Absent
    <3>1. DOMAIN minted = {1} /\ Cardinality({1}) = 1
      BY <1>1, <2>2, FS_Singleton
    <3>2. Issued = 1
      BY <1>3, <3>1, FS_EmptySet DEF Issued
    <3>3. QED
      BY <1>3, <3>1, <3>2 DEF Numbered
  <2>3. QED
    BY <2>1, <2>2
<1>5. minted \in [DOMAIN minted -> [sub : Subs, browser : Browsers]]
  BY <1>1, <1>2
<1>6. \A c \in Browsers : TokenOf(c, stored[c])
  BY <1>1, <1>2, <1>4, LoginAssumption DEF TokenOf
<1>7. SharedInv
  BY <1>1, <1>2, <1>3, <1>4, <1>5, <1>6, LoginAssumption
     DEF LoginInit, SharedInv, ServerType, BrowserInv
<1>8. ASSUME NEW t \in Tabs PROVE tabs[t] \in Tab /\ TabInv(browser[t], tabs[t])
  <2>1. NoCode \in Links
    BY DEF NoCode, Links
  <2>2. PICK token \in Nat \cup {Absent}, link \in Links : token = stored[browser[t]] /\ link = NoCode
    BY <2>1, <1>2, <1>7 DEF SharedInv, ServerType
  <2>3. PICK tab : tab = Loaded(token, "dashboard", Absent, "none", link)
    OBVIOUS
  <2>4. tab \in Tab /\ ~HasSession(tab)
    BY <2>3, LoadedTab DEF Routes, Notices
  <2>5. tab.at = "routing" /\ tab.token = token /\ tab.fragment = Absent
    BY <2>3 DEF Loaded
  <2>6. tabs[t] = tab
    BY <2>2, <2>3 DEF LoginInit
  <2>7. QED
    BY <1>2, <1>6, <2>2, <2>4, <2>5, <2>6 DEF TabInv, TokenOf, HasSession
<1>9. QED
  BY <1>7, <1>8 DEF LoginInv, LoginInit

(* The tokens of a browser, the states of its logins and the sessions its   *)
(* tabs show belong together, whatever each tab, the provider, other tabs   *)
(* of the browser, administrators and restarts of the API do in between.    *)
THEOREM LoginInvariant == LoginSpec => []LoginInv
<1>1. LoginInv /\ [LoginNext]_loginVars => LoginInv'
  <2> SUFFICES ASSUME LoginInv, [LoginNext]_loginVars PROVE LoginInv'
    OBVIOUS
  <2>1. ASSUME NEW t \in Tabs, Proceed(t) PROVE LoginInv'
    BY <2>1, GuardKeeps, CallbackKeeps, ExchangeKeeps, SetTokenKeeps, CheckedKeeps DEF Proceed
  <2>2. ASSUME NEW t \in Tabs,
               \/ Navigate(t) \/ LoadAgain(t) \/ Login(t) \/ Authenticate(t)
               \/ Revisit(t) \/ LocalLogin(t) \/ Logout(t)
        PROVE  LoginInv'
    BY <2>2, NavigateKeeps, ReloadKeeps, LoginKeeps, AuthenticateKeeps, RevisitKeeps,
       LocalLoginKeeps, LogoutKeeps
  <2>3. CASE Expire \/ Administer \/ Restart
    BY <2>3, OthersKeep
  <2>4. CASE UNCHANGED loginVars
    BY <2>4 DEF loginVars, browserVars, serverVars, LoginInv, SharedInv, ServerType, Numbered, Issued,
                BrowserInv, TokenOf, TabInv, HasSession
  <2>5. QED
    BY <2>1, <2>2, <2>3, <2>4 DEF LoginNext
<1>2. QED
  BY <1>1, LoginInitKeeps, PTL DEF LoginSpec

(* "A state is good for the browser that started the flow only": a browser  *)
(* stores only tokens of logins it set out for, and the session a page      *)
(* shows is the one of the token it sends.                                  *)
THEOREM LoginStays == LoginSpec => []LoginStaysInBrowser
<1>1. LoginInv => LoginStaysInBrowser
  BY DEF LoginInv, SharedInv, BrowserInv, TokenOf, TabInv, LoginStaysInBrowser
<1>2. QED
  BY <1>1, LoginInvariant, PTL
(* Every variable keeps its type.                                           *)
THEOREM LoginTypeCorrect == LoginSpec => []TypeOK
<1>1. LoginInv => TypeOK
  BY DEF LoginInv, SharedInv, TypeOK
<1>2. QED
  BY <1>1, LoginInvariant, PTL
=============================================================================
