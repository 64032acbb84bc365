------------------------- MODULE UserAccountsProofs -------------------------
(***************************************************************************)
(* Who can log in (api/src/auth): passwords stand, a subject has one       *)
(* account and the legacy store outlives its migration, for any number of  *)
(* users, subjects, failing calls and restarts.                            *)
(***************************************************************************)
EXTENDS UserAccounts, FiniteSetTheorems, TLAPS

BootOps == {"none", "migrate", "bootstrap"}

(* What a process that is at a step may be doing.                           *)
OpsAt(s) ==
  CASE s \in {"getTracker", "listForLink"} -> {"promote"}
    [] s = "getAccount" -> {"create", "own", "promote", "bootstrap"}
    [] s = "check" -> {"own"}
    [] s = "createAccount" -> {"create", "promote", "bootstrap", "migrate"}
    [] s \in {"readHashes", "writeHashes"} ->
         {"create", "promote", "own", "reset", "delete", "bootstrap", "migrate"}
    [] s = "dropTwin" -> {"promote", "login"}
    [] s = "deleteAccount" -> {"delete"}
    [] s = "deleteSso" -> {"deleteSso"}
    [] s \in {"findBySub", "findByEmail", "patchSub", "track", "refreshTracker"} -> {"login"}
    [] s = "createTracker" -> {"login", "migrate"}
    [] s = "readLegacy" -> {"none"}
    [] s \in {"migrate", "listAny"} -> {"none", "migrate"}
    [] s \in {"deleteSecret", "deleteConfigMap"} -> {"migrate"}
    [] s \in {"listForPrune", "prune"} -> BootOps
    [] OTHER -> {}

(* The arguments an operation has.                                          *)
Proper(r) ==
  /\ r.op \in {"create", "own", "promote", "reset", "delete", "bootstrap"} => r.user \in Usernames
  /\ r.op \in {"create", "bootstrap"} => r.sub = None
  /\ r.op \in {"promote", "login", "deleteSso"} => r.sub \in Subs

WorksAt(p, s, r) ==
  s # "idle" =>
    /\ r.op \in OpsAt(s) /\ (p = Boot <=> r.op \in BootOps)
    /\ Proper(r)
    /\ s = "patchSub" => r.user \in Usernames
    /\ s = "createTracker" => r.sub \in Subs

Working(p) == WorksAt(p, step[p], req[p])

(* While it starts up the server handles no requests.                       *)
Turns ==
  /\ serving <=> step[Boot] = "idle"
  /\ ~serving => \A h \in Handlers : step[h] = "idle"

FlowInv == TypeOK /\ Turns /\ \A p \in Processes : Working(p)
----------------------------------------------------------------------------
(* Processes *)

Hashes == [Usernames -> Optional(Passwords)]

SharedType ==
  /\ accounts \in [Usernames -> Accounts \cup {None}]
  /\ trackers \subseteq Subs
  /\ hashes \in Hashes
  /\ legacy \subseteq {"secret", "configMap"}
  /\ todo \subseteq Usernames \cup Subs
  /\ wanted \in Hashes
  /\ failures \in 0..MaxFailures /\ restarts \in 0..MaxRestarts

(* What a step does to the process that takes it.                           *)
Goes(p) ==
  \E s \in Steps, r \in Requests, c \in Hashes :
    /\ step' = [step EXCEPT ![p] = s]
    /\ req' = [req EXCEPT ![p] = r]
    /\ copy' = [copy EXCEPT ![p] = c]
    /\ WorksAt(p, s, r)
    /\ serving' = (p = Boot => s = "idle")

LEMMA OpsTable ==
  /\ OpsAt("getTracker") = {"promote"} /\ OpsAt("listForLink") = {"promote"}
  /\ OpsAt("getAccount") = {"create", "own", "promote", "bootstrap"}
  /\ OpsAt("check") = {"own"}
  /\ OpsAt("createAccount") = {"create", "promote", "bootstrap", "migrate"}
  /\ OpsAt("readHashes") = {"create", "promote", "own", "reset", "delete", "bootstrap", "migrate"}
  /\ OpsAt("writeHashes") = OpsAt("readHashes")
  /\ OpsAt("dropTwin") = {"promote", "login"}
  /\ OpsAt("deleteAccount") = {"delete"} /\ OpsAt("deleteSso") = {"deleteSso"}
  /\ OpsAt("findBySub") = {"login"} /\ OpsAt("findByEmail") = {"login"}
  /\ OpsAt("patchSub") = {"login"} /\ OpsAt("track") = {"login"}
  /\ OpsAt("refreshTracker") = {"login"}
  /\ OpsAt("createTracker") = {"login", "migrate"}
  /\ OpsAt("readLegacy") = {"none"}
  /\ OpsAt("migrate") = {"none", "migrate"} /\ OpsAt("listAny") = {"none", "migrate"}
  /\ OpsAt("deleteSecret") = {"migrate"} /\ OpsAt("deleteConfigMap") = {"migrate"}
  /\ OpsAt("listForPrune") = BootOps /\ OpsAt("prune") = BootOps
BY DEF OpsAt

LEMMA Blank ==
  /\ NoRequest \in Requests /\ NoRequest.op = "none" /\ NoRequest.sub = None
  /\ NoHashes \in Hashes
BY DEF NoRequest, Request, Requests, NoHashes, Hashes, Optional

LEMMA FlowTypes ==
  ASSUME FlowInv
  PROVE  /\ SharedType
         /\ step \in [Processes -> Steps] /\ req \in [Processes -> Requests]
         /\ copy \in [Processes -> Hashes] /\ serving \in BOOLEAN
         /\ Boot \in Processes /\ Boot \notin Handlers
         /\ \A p \in Processes : step[p] \in Steps /\ req[p] \in Requests /\ copy[p] \in Hashes
BY UsersAssumption DEF FlowInv, TypeOK, SharedType, Hashes, Processes

LEMMA Going ==
  ASSUME FlowInv, NEW p \in Processes, p \in Handlers => serving, p = Boot => ~serving,
         Goes(p), SharedType'
  PROVE  FlowInv'
<1>1. PICK s \in Steps, r \in Requests, c \in Hashes :
        /\ step' = [step EXCEPT ![p] = s]
        /\ req' = [req EXCEPT ![p] = r]
        /\ copy' = [copy EXCEPT ![p] = c]
        /\ WorksAt(p, s, r)
        /\ serving' = (p = Boot => s = "idle")
  BY DEF Goes
<1>2. /\ step' \in [Processes -> Steps] /\ req' \in [Processes -> Requests]
      /\ copy' \in [Processes -> Hashes] /\ serving' \in BOOLEAN
  BY <1>1, FlowTypes
<1>3. TypeOK'
  BY <1>2 DEF TypeOK, SharedType, Hashes
<1>4. /\ step'[p] = s /\ req'[p] = r
      /\ \A q \in Processes \ {p} : step'[q] = step[q] /\ req'[q] = req[q]
  BY <1>1, FlowTypes
<1>5. ASSUME NEW q \in Processes PROVE Working(q)'
  <2>1. CASE q = p
    BY <1>1, <1>4, <2>1 DEF Working
  <2>2. CASE q # p
    BY <1>4, <2>2 DEF Working, FlowInv
  <2>3. QED
    BY <2>1, <2>2
<1>6. Turns'
  <2>1. CASE p = Boot
    BY <1>1, <1>4, <2>1, FlowTypes DEF Turns, FlowInv, Processes
  <2>2. CASE p # Boot
    BY <1>1, <1>4, <2>2, FlowTypes DEF Turns, FlowInv, Processes
  <2>3. QED
    BY <2>1, <2>2
<1>7. QED
  BY <1>3, <1>5, <1>6 DEF FlowInv

LEMMA Busy ==
  ASSUME FlowInv, NEW p \in Processes, step[p] # "idle"
  PROVE  /\ req[p].op \in OpsAt(step[p]) /\ (p = Boot <=> req[p].op \in BootOps)
         /\ Proper(req[p])
         /\ p \in Handlers => serving
         /\ p = Boot => ~serving
         /\ serving = (p # Boot)
BY UsersAssumption DEF FlowInv, Working, WorksAt, Turns, Processes, TypeOK

LEMMA GoesOn ==
  ASSUME FlowInv, NEW p \in Processes, step[p] # "idle",
         NEW s \in Steps \ {"idle"}, NEW r \in Requests,
         step' = [step EXCEPT ![p] = s], req' = [req EXCEPT ![p] = r], UNCHANGED <<copy, serving>>,
         WorksAt(p, s, r)
  PROVE  Goes(p)
<1>1. serving' = (p = Boot => s = "idle")
  BY Busy
<1>2. copy' = [copy EXCEPT ![p] = copy[p]] /\ copy[p] \in Hashes
  BY FlowTypes
<1>3. QED
  BY <1>1, <1>2, FlowTypes DEF Goes

LEMMA GotoGoes ==
  ASSUME FlowInv, NEW p \in Processes, step[p] # "idle",
         NEW s \in Steps \ {"idle", "patchSub", "createTracker"}, req[p].op \in OpsAt(s), Goto(p, s)
  PROVE  Goes(p) /\ todo' = todo
<1>1. req' = [req EXCEPT ![p] = req[p]] /\ req[p] \in Requests
  BY FlowTypes DEF Goto
<1>2. WorksAt(p, s, req[p])
  BY Busy DEF WorksAt
<1>3. QED
  BY <1>1, <1>2, GoesOn DEF Goto

LEMMA EndsGoes ==
  ASSUME FlowInv, NEW p \in Processes, step[p] # "idle", Ends(p)
  PROVE  Goes(p) /\ todo' \subseteq todo
<1>1. PICK s \in Steps : s = IF p = Boot THEN "readLegacy" ELSE "idle"
  BY DEF Steps
<1>2. WorksAt(p, s, NoRequest)
  BY <1>1, Blank, OpsTable DEF WorksAt, Proper, BootOps
<1>3. serving' = (p = Boot => s = "idle")
  BY <1>1, Busy DEF Ends
<1>4. QED
  BY <1>1, <1>2, <1>3, Blank DEF Goes, Ends

LEMMA ServeGoes ==
  ASSUME FlowInv, step[Boot] # "idle", Serve
  PROVE  Goes(Boot) /\ todo' = {}
<1>1. "idle" \in Steps /\ WorksAt(Boot, "idle", NoRequest)
  BY DEF Steps, WorksAt
<1>2. QED
  BY <1>1, Blank DEF Goes, Serve

LEMMA ProceedGoes ==
  ASSUME FlowInv, NEW p \in Processes, step[p] # "idle",
         NEW s \in (Steps \ {"idle", "patchSub", "createTracker"}) \cup {"end"},
         s # "end" => req[p].op \in OpsAt(s), Proceed(p, s)
  PROVE  Goes(p) /\ todo' \subseteq todo
<1>1. CASE s = "end"
  BY <1>1, EndsGoes DEF Proceed
<1>2. CASE s # "end"
  BY <1>2, GotoGoes DEF Proceed
<1>3. QED
  BY <1>1, <1>2

----------------------------------------------------------------------------
(* Each step keeps a process in order *)

LEMMA Unchanged ==
  ASSUME FlowInv, UNCHANGED <<accounts, trackers, hashes, legacy, wanted, restarts>>,
         todo' \subseteq todo, failures' = failures \/ Fails
  PROVE  SharedType'
<1>1. SharedType /\ MaxFailures \in Nat
  BY FlowTypes, UsersAssumption
<1>2. failures' \in 0..MaxFailures
  BY <1>1 DEF SharedType, Fails
<1>3. QED
  BY <1>1, <1>2 DEF SharedType

LEMMA RequestFacts ==
  ASSUME NEW r \in Requests
  PROVE  /\ \A s \in Optional(Subs) : [r EXCEPT !.email = s] \in Requests
         /\ \A b \in BOOLEAN : [r EXCEPT !.twin = b] \in Requests
         /\ \A u \in Usernames, b \in BOOLEAN : [r EXCEPT !.user = u, !.twin = b] \in Requests
         /\ r.sub \in Optional(Subs) /\ r.user \in Optional(Usernames)
         /\ r.email \in Optional(Subs)
         /\ r.password \in Optional(Passwords) /\ r.twin \in BOOLEAN
BY DEF Requests, Optional

Called(p) == step[p] # "idle" /\ Goes(p) /\ SharedType'

LEMMA ReadsFlow ==
  ASSUME FlowInv, NEW p \in Processes,
         GetTracker(p) \/ GetAccount(p) \/ ListForLink(p) \/ CheckPassword(p) \/ ReadHashes(p)
  PROVE  Called(p)
<1> USE DEF Called, stored, rest
<1>1. CASE GetTracker(p)
  <2>1. step[p] = "getTracker" /\ req[p].op = "promote" /\ Proper(req[p])
    BY <1>1, Busy, OpsTable DEF GetTracker
  <2>2. PICK e \in Optional(Subs) : e = IF req[p].sub \in trackers THEN req[p].sub ELSE None
    BY <2>1 DEF Optional, Proper
  <2>3. PICK r \in Requests : r = [req[p] EXCEPT !.email = e]
    BY FlowTypes, RequestFacts
  <2>4. req' = [req EXCEPT ![p] = r]
    BY <1>1, <2>2, <2>3 DEF GetTracker
  <2>5. r.op = "promote" /\ Proper(r)
    BY <2>1, <2>3, FlowTypes DEF Proper, Requests
  <2>6. WorksAt(p, "getAccount", r) /\ "getAccount" \in Steps
    BY <2>1, <2>5, Busy, OpsTable DEF WorksAt, BootOps, Steps
  <2>7. Goes(p)
    BY <1>1, <2>1, <2>4, <2>6, GoesOn DEF GetTracker
  <2>8. QED
    BY <1>1, <2>1, <2>7, Unchanged DEF GetTracker
<1>2. CASE GetAccount(p)
  <2>1. step[p] = "getAccount"
    BY <1>2 DEF GetAccount
  <2>2. CASE req[p].op = "own" /\ Goto(p, "check")
    BY <1>2, <2>1, <2>2, GotoGoes, OpsTable, Unchanged DEF GetAccount, Steps
  <2>3. CASE req[p].op = "promote" /\ Goto(p, "listForLink")
    BY <1>2, <2>1, <2>3, GotoGoes, OpsTable, Unchanged DEF GetAccount, Steps
  <2>4. CASE req[p].op \in {"create", "bootstrap"} /\ Goto(p, "createAccount")
    BY <1>2, <2>1, <2>4, GotoGoes, OpsTable, Unchanged DEF GetAccount, Steps
  <2>5. CASE Ends(p)
    BY <1>2, <2>1, <2>5, EndsGoes, Unchanged DEF GetAccount
  <2>6. QED
    BY <1>2, <2>2, <2>3, <2>4, <2>5 DEF GetAccount
<1>3. CASE ListForLink(p)
  <2>1. step[p] = "listForLink" /\ req[p].op = "promote" /\ Proper(req[p])
    BY <1>3, Busy, OpsTable DEF ListForLink
  <2>2. CASE Ends(p)
    BY <1>3, <2>1, <2>2, EndsGoes, Unchanged DEF ListForLink
  <2>3. CASE ~Ends(p)
    <3> DEFINE b == req[p].sub \in trackers
               r == [req[p] EXCEPT !.twin = b]
    <3>1. r \in Requests
      <4>1. req[p] \in Requests /\ b \in BOOLEAN
        BY FlowTypes
      <4> HIDE DEF b
      <4>2. QED
        BY <4>1, RequestFacts
    <3>2. req' = [req EXCEPT ![p] = r]
      BY <1>3, <2>3, <3>1 DEF ListForLink
    <3>3. r.op = "promote" /\ Proper(r)
      BY <2>1, <3>1, FlowTypes DEF Proper, Requests
    <3> HIDE DEF r
    <3>4. WorksAt(p, "createAccount", r) /\ "createAccount" \in Steps
      BY <2>1, <3>3, Busy, OpsTable DEF WorksAt, BootOps, Steps
    <3>5. Goes(p)
      BY <1>3, <2>1, <2>3, <3>1, <3>2, <3>4, GoesOn DEF ListForLink
    <3>6. QED
      BY <1>3, <2>1, <2>3, <3>5, Unchanged DEF ListForLink
  <2>4. QED
    BY <2>2, <2>3
<1>4. CASE CheckPassword(p)
  <2>1. step[p] = "check" /\ req[p].op = "own"
    BY <1>4, Busy, OpsTable DEF CheckPassword
  <2>2. PICK s \in {"readHashes", "end"} : Proceed(p, s)
    BY <1>4 DEF CheckPassword
  <2>3. Goes(p) /\ todo' \subseteq todo
    <3>1. s # "end" => req[p].op \in OpsAt(s)
      BY <2>1, OpsTable
    <3>2. s \in (Steps \ {"idle", "patchSub", "createTracker"}) \cup {"end"}
      BY DEF Steps
    <3>3. QED
      BY <2>1, <2>2, <3>1, <3>2, ProceedGoes
  <2>4. QED
    BY <1>4, <2>1, <2>3, Unchanged DEF CheckPassword
<1>5. CASE ReadHashes(p)
  <2>1. step[p] = "readHashes" /\ Working(p)
    BY <1>5 DEF ReadHashes, FlowInv
  <2>2. CASE Ends(p)
    BY <1>5, <2>1, <2>2, EndsGoes, Unchanged DEF ReadHashes
  <2>3. CASE ~Ends(p)
    <3>1. /\ step' = [step EXCEPT ![p] = "writeHashes"] /\ copy' = [copy EXCEPT ![p] = hashes]
          /\ UNCHANGED <<serving, req, todo>>
      BY <1>5, <2>3 DEF ReadHashes
    <3>2. hashes \in Hashes /\ req' = [req EXCEPT ![p] = req[p]] /\ req[p] \in Requests
      BY <3>1, FlowTypes DEF SharedType
    <3>3. WorksAt(p, "writeHashes", req[p]) /\ "writeHashes" \in Steps
      BY <2>1, OpsTable DEF Working, WorksAt, Steps
    <3>4. serving' = (p = Boot => "writeHashes" = "idle")
      BY <2>1, <3>1, Busy
    <3>5. Goes(p)
      BY <3>1, <3>2, <3>3, <3>4 DEF Goes
    <3>6. QED
      BY <1>5, <2>1, <3>1, <3>5, Unchanged DEF ReadHashes
  <2>4. QED
    BY <2>2, <2>3
<1>6. QED
  BY <1>1, <1>2, <1>3, <1>4, <1>5

LEMMA AfterHashesFacts ==
  ASSUME FlowInv, NEW p \in Processes, step[p] # "idle"
  PROVE  /\ AfterHashes(req[p]) \in {"dropTwin", "deleteSecret", "listForPrune", "end"}
         /\ AfterHashes(req[p]) # "end" => req[p].op \in OpsAt(AfterHashes(req[p]))
         /\ AfterHashes(req[p]) = "deleteSecret" <=> req[p].op = "migrate"
         /\ AfterHashes(req[p]) = "listForPrune" <=> req[p].op = "bootstrap"
<1>1. CASE req[p].op = "promote" /\ req[p].twin
  BY <1>1, OpsTable DEF AfterHashes
<1>2. CASE req[p].op = "migrate"
  BY <1>2, OpsTable DEF AfterHashes
<1>3. CASE req[p].op = "bootstrap"
  BY <1>3, OpsTable DEF AfterHashes, BootOps
<1>4. CASE ~(req[p].op = "promote" /\ req[p].twin) /\ req[p].op # "migrate" /\ req[p].op # "bootstrap"
  BY <1>4 DEF AfterHashes
<1>5. QED
  BY <1>1, <1>2, <1>3, <1>4

LEMMA WritesFlow ==
  ASSUME FlowInv, NEW p \in Processes,
         CreateAccount(p) \/ DeleteAccount(p) \/ DeleteSso(p) \/ WriteHashes(p) \/ DropTwin(p)
  PROVE  Called(p)
<1> USE DEF Called, stored, rest
<1>t. SharedType
  BY FlowTypes
<1>1. CASE CreateAccount(p)
  <2>1. /\ step[p] = "createAccount" /\ Working(p)
        /\ req[p].op \in {"create", "promote", "bootstrap", "migrate"}
    BY <1>1, Busy, OpsTable DEF CreateAccount, FlowInv
  <2>2. CASE Ends(p) /\ UNCHANGED accounts
    BY <1>1, <2>1, <2>2, EndsGoes, Unchanged DEF CreateAccount
  <2>3. CASE ~(Ends(p) /\ UNCHANGED accounts)
    <3>1. PICK s : /\ s = IF req[p].op = "migrate" THEN "migrate"
                          ELSE IF req[p].password # None THEN "readHashes" ELSE AfterHashes(req[p])
                   /\ Proceed(p, s)
      BY <1>1, <2>3 DEF CreateAccount
    <3>2. s \in {"migrate", "readHashes", "dropTwin", "deleteSecret", "listForPrune", "end"}
      BY <2>1, <3>1, AfterHashesFacts
    <3>3. s # "end" => req[p].op \in OpsAt(s)
      BY <2>1, <3>1, AfterHashesFacts, OpsTable
    <3>4. Goes(p) /\ todo' \subseteq todo
      <4>1. s \in (Steps \ {"idle", "patchSub", "createTracker"}) \cup {"end"}
        BY <3>2 DEF Steps
      <4>2. QED
        BY <2>1, <3>1, <3>3, <4>1, ProceedGoes
    <3>5. accounts' \in [Usernames -> Accounts \cup {None}]
      <4>1. [sub |-> req[p].sub, email |-> req[p].email] \in Accounts
        BY FlowTypes, RequestFacts DEF Accounts
      <4>2. accounts' = [accounts EXCEPT ![req[p].user] = [sub |-> req[p].sub, email |-> req[p].email]]
        BY <1>1, <2>3 DEF CreateAccount
      <4>3. QED
        BY <1>t, <4>1, <4>2 DEF SharedType
    <3>6. SharedType'
      BY <1>1, <1>t, <3>4, <3>5 DEF CreateAccount, SharedType
    <3>7. QED
      BY <2>1, <3>4, <3>6
  <2>4. QED
    BY <2>2, <2>3
<1>2. CASE DeleteAccount(p)
  <2>1. step[p] = "deleteAccount" /\ req[p].op = "delete"
    BY <1>2, Busy, OpsTable DEF DeleteAccount
  <2>2. Goes(p) /\ todo' = todo
    BY <1>2, <2>1, GotoGoes, OpsTable DEF DeleteAccount, Steps
  <2>3. SharedType'
    BY <1>2, <1>t, <2>2 DEF DeleteAccount, SharedType, Hashes, Optional
  <2>4. QED
    BY <2>1, <2>2, <2>3
<1>3. CASE DeleteSso(p)
  <2>1. step[p] # "idle" /\ Goes(p) /\ todo' \subseteq todo
    BY <1>3, EndsGoes DEF DeleteSso
  <2>2. SharedType'
    BY <1>3, <1>t, <2>1 DEF DeleteSso, SharedType
  <2>3. QED
    BY <2>1, <2>2
<1>4. CASE WriteHashes(p)
  <2>1. /\ step[p] = "writeHashes"
        /\ AfterHashes(req[p]) \in {"dropTwin", "deleteSecret", "listForPrune", "end"}
        /\ AfterHashes(req[p]) # "end" => req[p].op \in OpsAt(AfterHashes(req[p]))
    BY <1>4, AfterHashesFacts DEF WriteHashes
  <2>2. Goes(p) /\ todo' \subseteq todo
    <3>1. AfterHashes(req[p]) \in (Steps \ {"idle", "patchSub", "createTracker"}) \cup {"end"}
      BY <2>1 DEF Steps
    <3>2. QED
      BY <1>4, <2>1, <3>1, ProceedGoes DEF WriteHashes
  <2>3. req[p].password \in Optional(Passwords) /\ copy[p] \in Hashes
    BY FlowTypes, RequestFacts
  <2>4. hashes' \in Hashes
    <3>1. CASE req[p].op = "migrate"
      <4>1. \A u \in DOMAIN LegacyAccounts : LegacyAccounts[u].password \in Optional(Passwords)
        BY UsersAssumption DEF LegacyAccount
      <4>2. QED
        BY <1>4, <2>3, <3>1, <4>1 DEF WriteHashes, NewHashes, Hashes
    <3>2. CASE req[p].op # "migrate"
      BY <1>4, <2>3, <3>2 DEF WriteHashes, NewHashes, Hashes
    <3>3. QED
      BY <3>1, <3>2
  <2>5. wanted' \in Hashes
    BY <1>4, <1>t, <2>3 DEF WriteHashes, SharedType, Hashes
  <2>6. SharedType'
    BY <1>4, <1>t, <2>2, <2>4, <2>5 DEF WriteHashes, SharedType
  <2>7. QED
    BY <2>1, <2>2, <2>6
<1>5. CASE DropTwin(p)
  <2>1. step[p] # "idle" /\ Goes(p) /\ todo' \subseteq todo
    BY <1>5, EndsGoes DEF DropTwin
  <2>2. SharedType'
    BY <1>5, <1>t, <2>1 DEF DropTwin, SharedType
  <2>3. QED
    BY <2>1, <2>2
<1>6. QED
  BY <1>1, <1>2, <1>3, <1>4, <1>5

LEMMA LoginsFlow ==
  ASSUME FlowInv, NEW p \in Processes,
         FindBySub(p) \/ FindByEmail(p) \/ PatchSub(p) \/ Track(p) \/ RefreshTracker(p)
         \/ CreateTracker(p)
  PROVE  Called(p)
<1> USE DEF Called, stored, rest
<1>t. SharedType
  BY FlowTypes
<1>1. CASE FindBySub(p)
  <2>1. step[p] = "findBySub" /\ req[p].op = "login"
    BY <1>1, Busy, OpsTable DEF FindBySub
  <2>2. PICK s \in {"dropTwin", "end", "track", "findByEmail"} : Proceed(p, s)
    BY <1>1 DEF FindBySub
  <2>3. s # "end" => req[p].op \in OpsAt(s)
    BY <2>1, OpsTable
  <2>4. s \in (Steps \ {"idle", "patchSub", "createTracker"}) \cup {"end"}
    BY DEF Steps
  <2>5. Goes(p) /\ todo' \subseteq todo
    BY <2>1, <2>2, <2>3, <2>4, ProceedGoes
  <2>6. QED
    BY <1>1, <2>1, <2>5, Unchanged DEF FindBySub
<1>2. CASE FindByEmail(p)
  <2>1. step[p] = "findByEmail" /\ req[p].op = "login" /\ Proper(req[p])
    BY <1>2, Busy, OpsTable DEF FindByEmail
  <2>2. CASE Goto(p, "track")
    BY <1>2, <2>1, <2>2, GotoGoes, OpsTable, Unchanged DEF FindByEmail, Steps
  <2>3. CASE Ends(p)
    BY <1>2, <2>1, <2>3, EndsGoes, Unchanged DEF FindByEmail
  <2>4. ASSUME NEW u \in Usernames,
               req' = [req EXCEPT ![p].user = u, ![p].twin = req[p].sub \in trackers],
               step' = [step EXCEPT ![p] = "patchSub"], UNCHANGED <<serving, copy, todo>>
        PROVE  Called(p)
    <3> DEFINE b == req[p].sub \in trackers
               r == [req[p] EXCEPT !.user = u, !.twin = b]
    <3>1. r \in Requests
      <4>1. req[p] \in Requests /\ b \in BOOLEAN
        BY FlowTypes
      <4> HIDE DEF b
      <4>2. QED
        BY <4>1, RequestFacts
    <3>2. req' = [req EXCEPT ![p] = r]
      BY <2>4, FlowTypes
    <3>3. r.op = "login" /\ r.sub = req[p].sub /\ r.user = u
      BY <2>1, FlowTypes DEF Requests
    <3> HIDE DEF r
    <3>4. WorksAt(p, "patchSub", r) /\ "patchSub" \in Steps
      BY <2>1, <3>3, Busy, OpsTable DEF WorksAt, Proper, BootOps, Steps
    <3>5. Goes(p)
      BY <2>1, <2>4, <3>1, <3>2, <3>4, GoesOn
    <3>6. QED
      BY <1>2, <2>1, <2>4, <3>5, Unchanged DEF FindByEmail
  <2>5. QED
    BY <1>2, <2>2, <2>3, <2>4 DEF FindByEmail
<1>3. CASE PatchSub(p)
  <2>1. step[p] = "patchSub" /\ req[p].op = "login" /\ Proper(req[p])
    BY <1>3, Busy, OpsTable DEF PatchSub
  <2>2. CASE Ends(p) /\ UNCHANGED accounts
    BY <1>3, <2>1, <2>2, EndsGoes, Unchanged DEF PatchSub
  <2>3. CASE ~(Ends(p) /\ UNCHANGED accounts)
    <3>1. PICK s \in {"dropTwin", "end"} : Proceed(p, s)
      BY <1>3, <2>3 DEF PatchSub
    <3>2. s # "end" => req[p].op \in OpsAt(s)
      BY <2>1, OpsTable
    <3>3. s \in (Steps \ {"idle", "patchSub", "createTracker"}) \cup {"end"}
      BY DEF Steps
    <3>4. Goes(p) /\ todo' \subseteq todo
      BY <2>1, <3>1, <3>2, <3>3, ProceedGoes
    <3>5. accounts' \in [Usernames -> Accounts \cup {None}]
      <4>1. PICK u, s1 : u = req[p].user /\ s1 = req[p].sub
        OBVIOUS
      <4>2. Exists(u) /\ accounts' = [accounts EXCEPT ![u].sub = s1] /\ s1 \in Optional(Subs)
        BY <1>3, <2>1, <2>3, <4>1 DEF PatchSub, Proper, Optional
      <4>3. u \in Usernames => [accounts[u] EXCEPT !.sub = s1] \in Accounts
        BY <1>t, <4>2 DEF SharedType, Exists, Accounts
      <4>4. QED
        BY <1>t, <4>2, <4>3 DEF SharedType
    <3>6. SharedType'
      BY <1>3, <1>t, <3>4, <3>5 DEF PatchSub, SharedType
    <3>7. QED
      BY <2>1, <3>4, <3>6
  <2>4. QED
    BY <2>2, <2>3
<1>4. CASE Track(p)
  <2>1. step[p] = "track" /\ req[p].op = "login" /\ Proper(req[p])
    BY <1>4, Busy, OpsTable DEF Track
  <2>2. CASE Goto(p, "refreshTracker")
    BY <1>4, <2>1, <2>2, GotoGoes, OpsTable, Unchanged DEF Track, Steps
  <2>3. CASE Goto(p, "createTracker")
    <3>1. /\ step' = [step EXCEPT ![p] = "createTracker"] /\ UNCHANGED <<copy, serving, todo>>
          /\ req' = [req EXCEPT ![p] = req[p]] /\ req[p] \in Requests
      BY <2>3, FlowTypes DEF Goto
    <3>2. WorksAt(p, "createTracker", req[p]) /\ "createTracker" \in Steps
      BY <2>1, Busy, OpsTable DEF WorksAt, Proper, Steps
    <3>3. Goes(p)
      BY <2>1, <3>1, <3>2, GoesOn
    <3>4. QED
      BY <1>4, <2>1, <3>1, <3>3, Unchanged DEF Track
  <2>4. QED
    BY <1>4, <2>2, <2>3 DEF Track
<1>5. CASE RefreshTracker(p)
  BY <1>5, EndsGoes, Unchanged DEF RefreshTracker
<1>6. CASE CreateTracker(p)
  <2>1. /\ step[p] = "createTracker" /\ req[p].op \in {"login", "migrate"}
        /\ req[p].sub \in Subs
    BY <1>6, Busy, OpsTable DEF CreateTracker, FlowInv, Working, WorksAt
  <2>2. CASE req[p].op = "migrate" /\ Goto(p, "migrate")
    BY <1>6, <1>t, <2>1, <2>2, GotoGoes, OpsTable DEF CreateTracker, Steps, SharedType
  <2>3. CASE Ends(p)
    <3>1. Goes(p) /\ todo' \subseteq todo
      BY <2>1, <2>3, EndsGoes
    <3>2. SharedType'
      BY <1>6, <1>t, <2>1, <3>1 DEF CreateTracker, SharedType
    <3>3. QED
      BY <2>1, <3>1, <3>2
  <2>4. QED
    BY <1>6, <2>2, <2>3 DEF CreateTracker
<1>7. QED
  BY <1>1, <1>2, <1>3, <1>4, <1>5, <1>6

LEMMA MigrationFacts ==
  ASSUME NEW x \in Usernames \cup Subs, x \in Usernames => x \in DOMAIN LegacyAccounts
  PROVE  /\ MigrationRequest(x) \in Requests /\ MigrationRequest(x).op = "migrate"
         /\ x \in Usernames => /\ MigrationRequest(x).user = x
                               /\ MigrationRequest(x).sub = LegacyAccounts[x].sub
         /\ x \in Subs => MigrationRequest(x).sub = x
<1>1. CASE x \in Usernames
  <2>1. LegacyAccounts[x].sub \in Optional(Subs) /\ LegacyAccounts[x].email \in Optional(Subs)
    BY <1>1, UsersAssumption DEF LegacyAccount
  <2>2. x \notin Subs
    BY <1>1, UsersAssumption
  <2>3. QED
    BY <1>1, <2>1, <2>2 DEF MigrationRequest, NoRequest, Request, Requests, Optional
<1>2. CASE x \notin Usernames
  BY <1>2 DEF MigrationRequest, NoRequest, Request, Requests, Optional
<1>3. QED
  BY <1>1, <1>2

(* The accounts a loop visits are those of the old store.                   *)
LoopInv == todo \cap Usernames \subseteq DOMAIN LegacyAccounts

LEMMA StartFlow ==
  ASSUME FlowInv, LoopInv,
         ReadLegacy \/ Migrate \/ DeleteSecret \/ DeleteConfigMap \/ ListAny \/ ListForPrune \/ Prune
  PROVE  Called(Boot)
<1> USE DEF Called, stored, rest
<1>t. SharedType /\ Boot \in Processes /\ step[Boot] \in Steps /\ MaxFailures \in Nat
  BY FlowTypes, UsersAssumption
<1>1. CASE ReadLegacy
  <2>1. step[Boot] = "readLegacy" /\ req[Boot].op = "none"
    BY <1>1, <1>t, Busy, OpsTable DEF ReadLegacy
  <2>2. CASE Goto(Boot, "listAny")
    BY <1>1, <1>t, <2>1, <2>2, GotoGoes, OpsTable, Unchanged DEF ReadLegacy, Steps
  <2>3. CASE ~Goto(Boot, "listAny")
    <3>1. /\ step' = [step EXCEPT ![Boot] = "migrate"] /\ UNCHANGED <<copy, serving>>
          /\ req' = [req EXCEPT ![Boot] = req[Boot]] /\ req[Boot] \in Requests
      BY <1>1, <2>3, FlowTypes DEF ReadLegacy
    <3>2. WorksAt(Boot, "migrate", req[Boot]) /\ "migrate" \in Steps
      BY <1>t, <2>1, Busy, OpsTable DEF WorksAt, Steps
    <3>3. Goes(Boot)
      BY <1>t, <2>1, <3>1, <3>2, GoesOn
    <3>4. todo' \subseteq Usernames \cup Subs
      BY <1>1, <2>3, UsersAssumption DEF ReadLegacy
    <3>5. SharedType'
      BY <1>1, <1>t, <3>4 DEF ReadLegacy, SharedType
    <3>6. QED
      BY <2>1, <3>3, <3>5
  <2>4. QED
    BY <2>2, <2>3
<1>2. CASE Migrate
  <2>1. step[Boot] = "migrate"
    BY <1>2 DEF Migrate
  <2>2. CASE todo = {}
    <3> DEFINE r == [NoRequest EXCEPT !.op = "migrate"]
    <3>1. PICK s \in {"readHashes", "deleteSecret"} : step' = [step EXCEPT ![Boot] = s]
      BY <1>2, <2>2 DEF Migrate
    <3>2. req' = [req EXCEPT ![Boot] = r] /\ UNCHANGED <<copy, serving, todo>>
      BY <1>2, <2>2 DEF Migrate
    <3>3. r \in Requests /\ r.op = "migrate"
      BY DEF NoRequest, Request, Requests, Optional
    <3> HIDE DEF r
    <3>4. WorksAt(Boot, s, r)
      BY <3>3, OpsTable DEF WorksAt, Proper, BootOps
    <3>5. Goes(Boot)
      BY <1>t, <2>1, <3>1, <3>2, <3>3, <3>4, GoesOn DEF Steps
    <3>6. QED
      BY <1>2, <2>1, <3>2, <3>5, Unchanged DEF Migrate
  <2>3. CASE todo # {}
    <3>1. PICK x \in todo :
            /\ todo \cap Usernames # {} => x \in Usernames
            /\ todo' = todo \ {x}
            /\ req' = [req EXCEPT ![Boot] = MigrationRequest(x)]
            /\ step' = [step EXCEPT ![Boot] =
                 CASE There(x) -> "migrate"
                   [] ~There(x) -> IF x \in Usernames THEN "createAccount" ELSE "createTracker"]
      BY <1>2, <2>3 DEF Migrate
    <3>2. PICK s \in {"migrate", "createAccount", "createTracker"} :
            /\ step' = [step EXCEPT ![Boot] = s]
            /\ s = "createTracker" => x \notin Usernames
      BY <3>1
    <3>3. x \in Usernames \cup Subs /\ (x \in Usernames => x \in DOMAIN LegacyAccounts)
      BY <1>t, <2>1, <3>1 DEF SharedType, LoopInv
    <3>4. /\ MigrationRequest(x) \in Requests /\ MigrationRequest(x).op = "migrate"
          /\ x \in Subs => MigrationRequest(x).sub = x
      BY <3>3, MigrationFacts
    <3>5. WorksAt(Boot, s, MigrationRequest(x))
      BY <3>2, <3>3, <3>4, OpsTable DEF WorksAt, Proper, BootOps
    <3>6. s \in Steps \ {"idle"} /\ UNCHANGED <<copy, serving>>
      BY <1>2 DEF Migrate, Steps
    <3>7. Goes(Boot)
      BY <1>t, <2>1, <3>1, <3>2, <3>4, <3>5, <3>6, GoesOn
    <3>8. QED
      BY <1>2, <2>1, <3>1, <3>7, Unchanged DEF Migrate
  <2>4. QED
    BY <2>2, <2>3
<1>3. CASE DeleteSecret
  <2>1. step[Boot] = "deleteSecret" /\ req[Boot].op = "migrate"
    BY <1>3, <1>t, Busy, OpsTable DEF DeleteSecret, DeleteLegacy
  <2>2. Goes(Boot) /\ todo' = todo
    BY <1>3, <1>t, <2>1, GotoGoes, OpsTable DEF DeleteSecret, DeleteLegacy, Steps
  <2>3. SharedType'
    <3>1. legacy' \subseteq {"secret", "configMap"}
      BY <1>3, <1>t DEF DeleteSecret, DeleteLegacy, SharedType
    <3>2. failures' \in 0..MaxFailures
      BY <1>3, <1>t DEF DeleteSecret, DeleteLegacy, SharedType, Fails
    <3>3. QED
      BY <1>3, <1>t, <2>2, <3>1, <3>2 DEF DeleteSecret, DeleteLegacy, SharedType
  <2>4. QED
    BY <2>1, <2>2, <2>3
<1>4. CASE DeleteConfigMap
  <2>1. step[Boot] = "deleteConfigMap" /\ req[Boot].op = "migrate"
    BY <1>4, <1>t, Busy, OpsTable DEF DeleteConfigMap, DeleteLegacy
  <2>2. Goes(Boot) /\ todo' = todo
    BY <1>4, <1>t, <2>1, GotoGoes, OpsTable DEF DeleteConfigMap, DeleteLegacy, Steps
  <2>3. SharedType'
    <3>1. legacy' \subseteq {"secret", "configMap"}
      BY <1>4, <1>t DEF DeleteConfigMap, DeleteLegacy, SharedType
    <3>2. failures' \in 0..MaxFailures
      BY <1>4, <1>t DEF DeleteConfigMap, DeleteLegacy, SharedType, Fails
    <3>3. QED
      BY <1>4, <1>t, <2>2, <3>1, <3>2 DEF DeleteConfigMap, DeleteLegacy, SharedType
  <2>4. QED
    BY <2>1, <2>2, <2>3
<1>5. CASE ListAny
  <2>1. step[Boot] = "listAny" /\ req[Boot].op \in {"none", "migrate"}
    BY <1>5, <1>t, Busy, OpsTable DEF ListAny
  <2>2. CASE Goto(Boot, "listForPrune") /\ UNCHANGED failures
    BY <1>5, <1>t, <2>1, <2>2, GotoGoes, OpsTable, Unchanged DEF ListAny, Steps, BootOps
  <2>3. CASE ~(Goto(Boot, "listForPrune") /\ UNCHANGED failures)
    <3> DEFINE r == [NoRequest EXCEPT !.op = "bootstrap", !.user = Admin, !.password = AdminPassword]
    <3>1. /\ step' = [step EXCEPT ![Boot] = "getAccount"] /\ req' = [req EXCEPT ![Boot] = r]
          /\ UNCHANGED <<copy, serving, todo>> /\ (failures' = failures \/ Fails)
      BY <1>5, <2>3 DEF ListAny
    <3>2. r \in Requests /\ r.op = "bootstrap" /\ r.user \in Usernames /\ r.sub = None
      BY UsersAssumption DEF NoRequest, Request, Requests, Optional
    <3> HIDE DEF r
    <3>3. WorksAt(Boot, "getAccount", r) /\ "getAccount" \in Steps
      BY <3>2, OpsTable DEF WorksAt, Proper, BootOps, Steps
    <3>4. Goes(Boot)
      BY <1>t, <2>1, <3>1, <3>2, <3>3, GoesOn
    <3>5. QED
      BY <1>5, <2>1, <3>1, <3>4, Unchanged DEF ListAny
  <2>4. QED
    BY <2>2, <2>3
<1>6. CASE ListForPrune
  <2>1. step[Boot] = "listForPrune" /\ req[Boot].op \in BootOps
    BY <1>6, <1>t, Busy, OpsTable DEF ListForPrune
  <2>2. CASE Serve
    <3>1. Goes(Boot) /\ todo' \subseteq todo
      BY <2>1, <2>2, ServeGoes
    <3>2. failures' = failures \/ Fails
      BY <1>6 DEF ListForPrune
    <3>3. QED
      BY <1>6, <2>1, <3>1, <3>2, Unchanged DEF ListForPrune
  <2>3. CASE ~Serve
    <3>1. /\ step' = [step EXCEPT ![Boot] = "prune"] /\ UNCHANGED <<copy, serving>>
          /\ req' = [req EXCEPT ![Boot] = req[Boot]] /\ req[Boot] \in Requests
      BY <1>6, <2>3, FlowTypes DEF ListForPrune
    <3>2. WorksAt(Boot, "prune", req[Boot]) /\ "prune" \in Steps
      BY <1>t, <2>1, Busy, OpsTable DEF WorksAt, Steps
    <3>3. Goes(Boot)
      BY <1>t, <2>1, <3>1, <3>2, GoesOn
    <3>4. SharedType'
      BY <1>6, <1>t, <2>3 DEF ListForPrune, SharedType, Superseded
    <3>5. QED
      BY <2>1, <3>3, <3>4
  <2>4. QED
    BY <2>2, <2>3
<1>7. CASE Prune
  <2>1. step[Boot] = "prune" /\ req[Boot].op \in BootOps
    BY <1>7, <1>t, Busy, OpsTable DEF Prune
  <2>2. trackers' \subseteq trackers /\ failures' \in 0..MaxFailures
    BY <1>7, <1>t DEF Prune, SharedType, Fails
  <2>3. CASE Serve
    <3>1. Goes(Boot) /\ todo' \subseteq todo
      BY <2>1, <2>3, ServeGoes
    <3>2. SharedType'
      BY <1>7, <1>t, <2>2, <3>1 DEF Prune, SharedType
    <3>3. QED
      BY <2>1, <3>1, <3>2
  <2>4. CASE ~Serve
    <3>1. UNCHANGED <<serving, step, req, copy>> /\ todo' \subseteq todo
      BY <1>7, <2>4 DEF Prune
    <3>2. step' = [step EXCEPT ![Boot] = "prune"] /\ req' = [req EXCEPT ![Boot] = req[Boot]]
      BY <2>1, <3>1, FlowTypes
    <3>3. WorksAt(Boot, "prune", req[Boot]) /\ "prune" \in Steps /\ req[Boot] \in Requests
      BY <1>t, <2>1, Busy, OpsTable, FlowTypes DEF WorksAt, Steps
    <3>4. Goes(Boot)
      BY <1>t, <2>1, <3>1, <3>2, <3>3, GoesOn
    <3>5. SharedType'
      BY <1>7, <1>t, <2>2, <3>1 DEF Prune, SharedType
    <3>6. QED
      BY <2>1, <3>4, <3>5
  <2>5. QED
    BY <2>3, <2>4
<1>8. QED
  BY <1>1, <1>2, <1>3, <1>4, <1>5, <1>6, <1>7

LEMMA CallFlow ==
  ASSUME FlowInv, NEW p \in Processes, Call(p)
  PROVE  Called(p)
BY ReadsFlow, WritesFlow, LoginsFlow DEF Call

LEMMA CutOffFlow ==
  ASSUME FlowInv, NEW p \in Processes, CutOff(p)
  PROVE  Called(p)
BY EndsGoes, Unchanged DEF CutOff, Called, stored

(* What arrives is a request of a user, and well-formed.                    *)
LEMMA SubmittedFacts ==
  ASSUME NEW r \in Submitted
  PROVE  /\ r \in Requests /\ Proper(r) /\ r.op \notin BootOps
         /\ FirstStep(r.op) \in {"getTracker", "getAccount", "findBySub", "readHashes",
                                 "deleteAccount", "deleteSso"}
         /\ r.op \in OpsAt(FirstStep(r.op))
<1> DEFINE Good(q) ==
             /\ q \in Requests /\ Proper(q)
             /\ q.op \in {"create", "promote", "login", "own", "reset", "delete", "deleteSso"}
<1>1. ASSUME NEW op \in {"create", "promote", "login", "own", "reset", "delete", "deleteSso"},
             NEW u \in Optional(Usernames), NEW s \in Optional(Subs), NEW e \in Optional(Subs),
             NEW c \in Optional(Passwords), NEW pw \in Optional(Passwords),
             op \in {"create", "own", "promote", "reset", "delete"} => u \in Usernames,
             op = "create" => s = None,
             op \in {"promote", "login", "deleteSso"} => s \in Subs
      PROVE  Good(Request(op, u, s, e, c, pw))
  BY <1>1 DEF Request, Requests, Proper
<1> HIDE DEF Good
<1>2. \A u \in Usernames, e \in Optional(Subs), pw \in Optional(Passwords) :
        Good(Request("create", u, None, e, None, pw))
  BY <1>1 DEF Optional
<1>3. \A u \in Usernames, s \in Subs, pw \in Optional(Passwords) :
        Good(Request("promote", u, s, None, None, pw))
  BY <1>1 DEF Optional
<1>4. \A s \in Subs, e \in Optional(Subs) : Good(Request("login", None, s, e, None, None))
  BY <1>1 DEF Optional
<1>5. \A u \in Usernames, c \in Optional(Passwords), pw \in Passwords :
        Good(Request("own", u, None, None, c, pw))
  BY <1>1 DEF Optional
<1>6. \A u \in Usernames, pw \in Passwords : Good(Request("reset", u, None, None, None, pw))
  BY <1>1 DEF Optional
<1>7. /\ \A u \in Usernames : Good(Request("delete", u, None, None, None, None))
      /\ \A s \in Subs : Good(Request("deleteSso", None, s, None, None, None))
  BY <1>1 DEF Optional
<1>8. Good(r)
  BY <1>2, <1>3, <1>4, <1>5, <1>6, <1>7 DEF Submitted
<1>9. QED
  BY <1>8, OpsTable DEF Good, FirstStep, BootOps

LEMMA ArriveFlow ==
  ASSUME FlowInv, NEW h \in Handlers, Arrive(h)
  PROVE  serving /\ step[h] = "idle" /\ Goes(h) /\ SharedType'
<1>1. PICK r \in Submitted : /\ req' = [req EXCEPT ![h] = r]
                             /\ step' = [step EXCEPT ![h] = FirstStep(r.op)]
  BY DEF Arrive
<1>2. /\ r \in Requests /\ FirstStep(r.op) \in Steps \ {"idle"} /\ h # Boot /\ h \in Processes
      /\ WorksAt(h, FirstStep(r.op), r)
  BY SubmittedFacts, FlowTypes DEF WorksAt, Steps, Processes
<1>3. copy' = [copy EXCEPT ![h] = copy[h]] /\ copy[h] \in Hashes /\ serving /\ serving'
  BY <1>2, FlowTypes DEF Arrive
<1>4. Goes(h)
  BY <1>1, <1>2, <1>3 DEF Goes
<1>5. QED
  BY <1>4, Unchanged DEF Arrive, stored

LEMMA RestartFlow ==
  ASSUME FlowInv, Restart
  PROVE  FlowInv'
<1>1. TypeOK'
  <2>1. step' \in [Processes -> Steps]
    BY DEF Restart, Steps
  <2>2. /\ req' \in [Processes -> Requests] /\ copy' \in [Processes -> Hashes]
        /\ serving' \in BOOLEAN
    BY Blank DEF Restart
  <2>3. restarts' \in 0..MaxRestarts
    BY FlowTypes, UsersAssumption DEF Restart, SharedType
  <2>4. QED
    BY <2>1, <2>2, <2>3, FlowTypes DEF Restart, stored, TypeOK, SharedType, Hashes
<1>2. Turns'
  BY UsersAssumption DEF Restart, Turns, Processes
<1>3. ASSUME NEW p \in Processes PROVE Working(p)'
  <2>1. req'[p] = NoRequest /\ step'[p] = IF p = Boot THEN "readLegacy" ELSE "idle"
    BY DEF Restart
  <2>2. QED
    BY <2>1, Blank, OpsTable DEF Working, WorksAt, Proper, BootOps
<1>4. QED
  BY <1>1, <1>2, <1>3 DEF FlowInv

LEMMA FlowInit == Init => FlowInv /\ LoopInv
<1> SUFFICES ASSUME Init PROVE FlowInv /\ LoopInv
  OBVIOUS
<1> USE DEF Init
<1>1. PICK s \in Optional(Subs) : \/ accounts = [u \in Usernames |-> None]
                                  \/ s \in Subs /\ accounts = [u \in Usernames |->
                                        IF u = Admin THEN [sub |-> s, email |-> s] ELSE None]
  BY DEF Optional
<1>2. accounts \in [Usernames -> Accounts \cup {None}]
  BY <1>1 DEF Accounts, Optional
<1>3. trackers \subseteq Subs
  BY <1>1, UsersAssumption DEF Exists
<1>4. TypeOK
  <2>1. hashes \in Hashes
    BY UsersAssumption DEF Hashes, Optional
  <2>2. step \in [Processes -> Steps]
    BY DEF Steps
  <2>3. req \in [Processes -> Requests] /\ copy \in [Processes -> Hashes] /\ wanted \in Hashes
    BY Blank
  <2>4. legacy \subseteq {"secret", "configMap"} /\ todo \subseteq Usernames \cup Subs
    OBVIOUS
  <2>5. failures \in 0..MaxFailures /\ restarts \in 0..MaxRestarts
    BY UsersAssumption
  <2>6. QED
    BY <1>2, <1>3, <2>1, <2>2, <2>3, <2>4, <2>5 DEF TypeOK, Hashes
<1>5. Turns
  BY UsersAssumption DEF Turns, Processes
<1>6. ASSUME NEW p \in Processes PROVE Working(p)
  BY Blank, OpsTable DEF Working, WorksAt, Proper, BootOps
<1>7. LoopInv
  BY DEF LoopInv, Processes
<1>8. QED
  BY <1>4, <1>5, <1>6, <1>7 DEF FlowInv

LEMMA CallTodo ==
  ASSUME FlowInv, NEW p \in Processes, Call(p) \/ CutOff(p)
  PROVE  todo' \subseteq todo
<1>1. CASE GetTracker(p) \/ GetAccount(p) \/ ListForLink(p) \/ CheckPassword(p) \/ ReadHashes(p)
  BY <1>1 DEF GetTracker, GetAccount, ListForLink, CheckPassword, ReadHashes, Proceed, Goto, Ends
<1>2. CASE CreateAccount(p) \/ DeleteAccount(p) \/ DeleteSso(p) \/ WriteHashes(p) \/ DropTwin(p)
  BY <1>2 DEF CreateAccount, DeleteAccount, DeleteSso, WriteHashes, DropTwin, Proceed, Goto, Ends
<1>3. CASE FindBySub(p) \/ FindByEmail(p) \/ PatchSub(p) \/ Track(p) \/ RefreshTracker(p)
           \/ CreateTracker(p)
  BY <1>3 DEF FindBySub, FindByEmail, PatchSub, Track, RefreshTracker, CreateTracker,
              Proceed, Goto, Ends
<1>4. CASE CutOff(p)
  BY <1>4 DEF CutOff, Ends
<1>5. QED
  BY <1>1, <1>2, <1>3, <1>4 DEF Call

LEMMA LoopStep ==
  ASSUME FlowInv, LoopInv, [Next]_vars
  PROVE  LoopInv'
<1>1. CASE todo' \subseteq todo
  BY <1>1 DEF LoopInv
<1>2. CASE ReadLegacy
  <2>1. LegacyEntries \cap Usernames = {}
    BY UsersAssumption
  <2>2. QED
    BY <1>1, <1>2, <2>1 DEF ReadLegacy, Goto, LoopInv
<1>3. CASE Migrate \/ DeleteSecret \/ DeleteConfigMap \/ ListAny \/ Prune
  <2>1. todo' \subseteq todo
    BY <1>3 DEF Migrate, DeleteSecret, DeleteConfigMap, DeleteLegacy, ListAny, Prune, Goto, Serve
  <2>2. QED
    BY <1>1, <2>1
<1>4. CASE ListForPrune
  <2>1. trackers \cap Usernames = {}
    BY UsersAssumption, FlowTypes DEF SharedType
  <2>2. QED
    BY <1>1, <1>4, <2>1 DEF ListForPrune, Serve, LoopInv, Superseded
<1>5. CASE \E p \in Processes : Call(p) \/ CutOff(p)
  BY <1>1, <1>5, CallTodo
<1>6. CASE Restart \/ (\E h \in Handlers : Arrive(h)) \/ UNCHANGED vars
  BY <1>1, <1>6 DEF Restart, Arrive, vars, local
<1>7. QED
  BY <1>2, <1>3, <1>4, <1>5, <1>6, FlowTypes DEF Next, StartUp, Processes

LEMMA FlowStep ==
  ASSUME FlowInv, LoopInv, [Next]_vars
  PROVE  FlowInv' /\ LoopInv'
<1> SUFFICES FlowInv'
  BY LoopStep
<1>1. ASSUME NEW p \in Processes, Called(p) PROVE FlowInv'
  BY <1>1, Going, Busy DEF Called
<1>2. CASE StartUp \/ \E p \in Processes : Call(p) \/ CutOff(p)
  BY <1>1, <1>2, StartFlow, CallFlow, CutOffFlow, FlowTypes DEF StartUp
<1>3. CASE \E h \in Handlers : Arrive(h)
  BY <1>3, ArriveFlow, Going, FlowTypes DEF Processes
<1>4. CASE Restart
  BY <1>4, RestartFlow
<1>5. CASE UNCHANGED vars
  BY <1>5 DEF vars, stored, local, FlowInv, TypeOK, Turns, Working
<1>6. QED
  BY <1>2, <1>3, <1>4, <1>5, FlowTypes DEF Next, Processes

(* No request is served while the server starts up, each process is at a    *)
(* step that its request leads to, and has the arguments that step needs,   *)
(* for any number of requests that overlap.                                 *)
THEOREM FlowInvariant == Spec => [](FlowInv /\ LoopInv)
<1>1. FlowInv /\ LoopInv /\ [Next]_vars => (FlowInv /\ LoopInv)'
  BY FlowStep
<1>2. QED
  BY <1>1, FlowInit, PTL DEF Spec

(* Every state is one of the model's states.                                *)
THEOREM TypeCorrect == Spec => []TypeOK
<1>1. FlowInv => TypeOK
  BY DEF FlowInv
<1>2. QED
  BY <1>1, FlowInvariant, PTL

----------------------------------------------------------------------------
(* One request at a time, no swallowed failure *)

(* No two requests overlap and no failure to delete the old store is        *)
(* swallowed.  Requests that overlap can leave a subject with two accounts  *)
(* and lose a password; a store that stays is migrated once more, over the  *)
(* passwords that were set since.                                           *)
Undisturbed == (\A g, h \in Handlers : g = h) /\ Env = {}

(* The old store links a subject to one of its accounts at most.            *)
LinkedOnce ==
  \A u, v \in DOMAIN LegacyAccounts :
    LegacyAccounts[u].sub = LegacyAccounts[v].sub /\ LegacyAccounts[u].sub # None => u = v

(* The account of the old store is there with its link.                     *)
Carried(u) == Exists(u) /\ LegacyAccounts[u].sub \in {None, accounts[u].sub}

Migrated ==
  /\ \A u \in DOMAIN LegacyAccounts : Carried(u) /\ LegacyAccounts[u].password \in {None, hashes[u]}
  /\ \A s \in LegacyEntries : s \in trackers \/ Linked(s) # {}

Migrating ==
  \/ step[Boot] \in {"migrate", "deleteSecret"}
  \/ /\ step[Boot] \in {"createAccount", "createTracker", "readHashes", "writeHashes"}
     /\ req[Boot].op = "migrate"

(* What the migration has not created yet.                                  *)
Waiting ==
  CASE step[Boot] = "migrate" -> todo
    [] step[Boot] = "createAccount" -> todo \cup {req[Boot].user}
    [] step[Boot] = "createTracker" -> todo \cup {req[Boot].sub}
    [] OTHER -> {}

AllHere ==
  /\ \A u \in DOMAIN LegacyAccounts : Carried(u) \/ u \in Waiting
  /\ \A s \in LegacyEntries \ LinkedInLegacy : s \in trackers \/ s \in Waiting

(* Until the old store is gone nobody is served and no account is made but  *)
(* those it lists.                                                          *)
Untouched ==
  /\ ~serving /\ "configMap" \in legacy /\ wanted = NoHashes
  /\ Migrating \/ step[Boot] = "readLegacy"
  /\ \A u \in Usernames : Exists(u) => u \in DOMAIN LegacyAccounts
                                        /\ accounts[u].sub = LegacyAccounts[u].sub

MigrationInv ==
  /\ "secret" \in legacy => Untouched
  /\ Migrating => "secret" \in legacy /\ AllHere
  /\ Migrating /\ step[Boot] = "createAccount" =>
       /\ req[Boot].user \in DOMAIN LegacyAccounts
       /\ req[Boot].sub = LegacyAccounts[req[Boot].user].sub
  /\ step[Boot] \in {"deleteSecret", "deleteConfigMap"} => Migrated

(* What is written back is what is there, with the one change.              *)
HashesKnown(p) ==
  /\ step[p] = "writeHashes" => copy[p] = hashes
  /\ step[p] \in {"readHashes", "writeHashes"} =>
       /\ req[p].op = "delete" => ~Exists(req[p].user)
       /\ req[p].op = "bootstrap" => wanted[req[p].user] = None

WantedStored == \A u \in Usernames : wanted[u] # None => Exists(u) /\ hashes[u] = wanted[u]

PasswordInv == WantedStored /\ \A p \in Processes : HashesKnown(p)

OneEach ==
  \A u, v \in Usernames :
    Exists(u) /\ Exists(v) /\ accounts[u].sub = accounts[v].sub /\ accounts[u].sub # None => u = v

(* Whoever is about to link a subject knows that it has no account.         *)
Unlinked(p) ==
  step[p] \in {"createAccount", "findByEmail", "patchSub"} =>
    req[p].sub = None \/ Linked(req[p].sub) = {}

LinkInv == OneEach /\ \A p \in Processes : Unlinked(p)

LEMMA Alone ==
  ASSUME FlowInv, Undisturbed, NEW p \in Processes, p \in Handlers => serving,
         p = Boot => ~serving
  PROVE  \A q \in Processes \ {p} : step[q] = "idle"
BY DEF FlowInv, Turns, Undisturbed, Processes

LEMMA StillAlone ==
  ASSUME FlowInv, Undisturbed, NEW p \in Processes, p \in Handlers => serving,
         p = Boot => ~serving, Goes(p)
  PROVE  \A q \in Processes \ {p} : step'[q] = "idle"
<1>1. \A q \in Processes \ {p} : step'[q] = step[q]
  BY FlowTypes DEF Goes
<1>2. QED
  BY <1>1, Alone

(* Where a step leaves its process.                                         *)
LEMMA After ==
  ASSUME FlowInv, NEW p \in Processes
  PROVE  /\ \A s : Goto(p, s) => step'[p] = s /\ req'[p] = req[p] /\ copy'[p] = copy[p]
         /\ Ends(p) => step'[p] = IF p = Boot THEN "readLegacy" ELSE "idle"
         /\ Serve => step'[Boot] = "idle"
         /\ \A s : step' = [step EXCEPT ![p] = s] => step'[p] = s
         /\ \A r : req' = [req EXCEPT ![p] = r] => req'[p] = r
         /\ \A c : copy' = [copy EXCEPT ![p] = c] => copy'[p] = c
BY FlowTypes DEF Goto, Ends, Serve

----------------------------------------------------------------------------
(* The migration *)

LEMMA NoMigration ==
  ASSUME "secret" \notin legacy', ~Migrating', step'[Boot] \notin {"deleteSecret", "deleteConfigMap"}
  PROVE  MigrationInv'
BY DEF MigrationInv

LEMMA MigrationServing ==
  ASSUME FlowInv, MigrationInv, serving, step'[Boot] \in {"idle", "readLegacy"}, UNCHANGED legacy
  PROVE  MigrationInv'
<1>1. "secret" \notin legacy' /\ ~Migrating'
  BY DEF MigrationInv, Untouched, Migrating
<1>2. QED
  BY <1>1, NoMigration

LEMMA MigrationUnchanged ==
  ASSUME MigrationInv, UNCHANGED vars
  PROVE  MigrationInv'
<1> USE DEF vars, stored, local
<1>1. UNCHANGED <<Migrating, Waiting>> /\ \A u : Exists(u)' = Exists(u) /\ Carried(u)' = Carried(u)
  BY DEF Migrating, Waiting, Exists, Carried
<1>2. \A s : Linked(s)' = Linked(s)
  BY DEF Linked, Exists
<1>3. UNCHANGED <<AllHere, Migrated, Untouched>>
  BY <1>1, <1>2 DEF AllHere, Migrated, Untouched
<1>4. QED
  BY <1>1, <1>3 DEF MigrationInv

(* Boot is not migrating: the old store is gone, or it is read next.        *)
LEMMA NotMigrating ==
  ASSUME FlowInv, MigrationInv, ~Migrating, step[Boot] # "readLegacy"
  PROVE  "secret" \notin legacy
BY DEF MigrationInv, Untouched

LEMMA MigrationReads ==
  ASSUME FlowInv, MigrationInv, ReadLegacy
  PROVE  MigrationInv'
<1> USE DEF stored, rest
<1>t. Boot \in Processes
  BY FlowTypes
<1>1. CASE "secret" \notin legacy /\ Goto(Boot, "listAny")
  <2>1. step'[Boot] = "listAny" /\ legacy' = legacy
    BY <1>1, <1>t, After DEF ReadLegacy
  <2>2. QED
    BY <1>1, <2>1, NoMigration DEF Migrating
<1>2. CASE /\ "secret" \in legacy
           /\ todo' = DOMAIN LegacyAccounts \cup
                (IF "configMap" \in legacy THEN LegacyEntries \ LinkedInLegacy ELSE {})
           /\ step' = [step EXCEPT ![Boot] = "migrate"]
           /\ UNCHANGED <<serving, req, copy>>
  <2>1. step'[Boot] = "migrate" /\ UNCHANGED <<accounts, trackers, hashes, legacy, wanted>>
    BY <1>2, <1>t, After DEF ReadLegacy
  <2>2. Untouched
    BY <1>2 DEF MigrationInv
  <2>3. Untouched' /\ Migrating'
    BY <1>2, <2>1, <2>2 DEF Untouched, Migrating, Exists
  <2>4. AllHere'
    BY <1>2, <2>1, <2>2 DEF AllHere, Waiting, Untouched
  <2>5. QED
    BY <1>2, <2>1, <2>3, <2>4 DEF MigrationInv
<1>3. QED
  BY <1>1, <1>2 DEF ReadLegacy

(* What carries over when nothing stored changes.                           *)
LEMMA StoredSame ==
  ASSUME UNCHANGED <<stored, wanted, serving>>
  PROVE  /\ \A u : Exists(u)' = Exists(u) /\ Carried(u)' = Carried(u)
         /\ \A s : Linked(s)' = Linked(s)
         /\ Migrating' /\ Untouched => Untouched'
BY DEF stored, Exists, Carried, Linked, Untouched

(* Everything is there once nothing is waiting.                             *)
LEMMA NoneWaiting ==
  ASSUME AllHere, Waiting = {}
  PROVE  /\ \A u \in DOMAIN LegacyAccounts : Carried(u)
         /\ \A s \in LegacyEntries : s \in trackers \/ Linked(s) # {}
<1>1. \A u \in DOMAIN LegacyAccounts : Carried(u)
  BY DEF AllHere
<1>2. ASSUME NEW s \in LegacyEntries PROVE s \in trackers \/ Linked(s) # {}
  <2>1. CASE s \in LinkedInLegacy
    <3>1. PICK u \in DOMAIN LegacyAccounts : s = LegacyAccounts[u].sub
      BY <2>1 DEF LinkedInLegacy
    <3>2. s # None /\ u \in Usernames
      BY UsersAssumption
    <3>3. Exists(u) /\ accounts[u].sub = s
      BY <1>1, <3>1, <3>2 DEF Carried
    <3>4. QED
      BY <3>2, <3>3 DEF Linked
  <2>2. CASE s \notin LinkedInLegacy
    BY <2>2 DEF AllHere
  <2>3. QED
    BY <2>1, <2>2
<1>3. QED
  BY <1>1, <1>2

LEMMA MigrationLoop ==
  ASSUME FlowInv, LoopInv, MigrationInv, Migrate
  PROVE  MigrationInv'
<1> USE DEF stored, rest
<1>t. Boot \in Processes
  BY FlowTypes
<1>1. step[Boot] = "migrate" /\ Migrating /\ Waiting = todo
  BY DEF Migrate, Migrating, Waiting
<1>2. "secret" \in legacy /\ AllHere /\ Untouched
  BY <1>1 DEF MigrationInv
<1>3. UNCHANGED <<accounts, trackers, hashes, legacy, wanted, serving>>
  BY DEF Migrate
<1>4. /\ \A u : Exists(u)' = Exists(u) /\ Carried(u)' = Carried(u)
      /\ \A s : Linked(s)' = Linked(s)
      /\ Migrating' => Untouched'
  BY <1>2, <1>3, StoredSame
<1>5. CASE todo = {}
  <2>1. /\ step'[Boot] = IF \E u \in DOMAIN LegacyAccounts : LegacyAccounts[u].password # None
                         THEN "readHashes" ELSE "deleteSecret"
        /\ req'[Boot] = [NoRequest EXCEPT !.op = "migrate"]
    BY <1>t, <1>5, After DEF Migrate
  <2>2. req'[Boot].op = "migrate"
    BY <2>1 DEF NoRequest, Request
  <2>3. Migrating' /\ Waiting' = {}
    BY <2>1, <2>2 DEF Migrating, Waiting
  <2>4. AllHere'
    BY <1>1, <1>2, <1>3, <1>4, <1>5, <2>3 DEF AllHere
  <2>5. ASSUME step'[Boot] = "deleteSecret" PROVE Migrated'
    <3>1. \A u \in DOMAIN LegacyAccounts : LegacyAccounts[u].password = None
      BY <2>1, <2>5
    <3>2. /\ \A u \in DOMAIN LegacyAccounts : Carried(u)
          /\ \A s \in LegacyEntries : s \in trackers \/ Linked(s) # {}
      BY <1>1, <1>2, <1>5, NoneWaiting
    <3>3. QED
      BY <1>3, <1>4, <3>1, <3>2 DEF Migrated
  <2>6. QED
    BY <1>2, <1>3, <1>4, <2>1, <2>3, <2>4, <2>5 DEF MigrationInv
<1>6. CASE todo # {}
  <2>1. PICK x \in todo :
          /\ todo \cap Usernames # {} => x \in Usernames
          /\ todo' = todo \ {x}
          /\ req' = [req EXCEPT ![Boot] = MigrationRequest(x)]
          /\ step' = [step EXCEPT ![Boot] =
               CASE There(x) -> "migrate"
                 [] ~There(x) -> IF x \in Usernames THEN "createAccount" ELSE "createTracker"]
    BY <1>6 DEF Migrate
  <2>2. x \in Usernames \cup Subs /\ (x \in Usernames => x \in DOMAIN LegacyAccounts)
    BY <2>1, FlowTypes DEF SharedType, LoopInv
  <2>m. req'[Boot] = MigrationRequest(x)
    BY <1>t, <2>1, After
  <2>3. req'[Boot] = MigrationRequest(x) /\ req'[Boot].op = "migrate"
    BY <2>2, <2>m, MigrationFacts
  <2>4. CASE There(x)
    <3>1. step'[Boot] = "migrate"
      BY <1>t, <2>1, <2>4, After
    <3>2. Migrating' /\ Waiting' = todo \ {x}
      BY <2>1, <3>1 DEF Migrating, Waiting
    <3>3. x \in Usernames => Carried(x)
      BY <1>2, <2>2, <2>4 DEF There, Untouched, Carried
    <3>4. x \notin Usernames => x \in trackers
      BY <2>4 DEF There
    <3>5. AllHere'
      BY <1>1, <1>2, <1>3, <1>4, <2>2, <3>2, <3>3, <3>4, UsersAssumption DEF AllHere
    <3>6. QED
      BY <1>2, <1>3, <1>4, <3>1, <3>2, <3>5 DEF MigrationInv
  <2>5. CASE ~There(x) /\ x \in Usernames
    <3>1. step'[Boot] = "createAccount"
      BY <1>t, <2>1, <2>5, After
    <3>2. req'[Boot].user = x /\ req'[Boot].sub = LegacyAccounts[x].sub
      BY <2>2, <2>3, <2>5, MigrationFacts
    <3>3. Migrating' /\ Waiting' = todo
      BY <2>1, <2>3, <3>1, <3>2 DEF Migrating, Waiting
    <3>4. AllHere'
      BY <1>1, <1>2, <1>3, <1>4, <3>3 DEF AllHere
    <3>5. QED
      BY <1>2, <1>3, <1>4, <2>2, <2>5, <3>1, <3>2, <3>3, <3>4 DEF MigrationInv
  <2>6. CASE ~There(x) /\ x \notin Usernames
    <3>1. step'[Boot] = "createTracker"
      BY <1>t, <2>1, <2>6, After
    <3>2. req'[Boot].sub = x
      BY <2>2, <2>3, <2>6, MigrationFacts
    <3>3. Migrating' /\ Waiting' = todo
      BY <2>1, <2>3, <3>1, <3>2 DEF Migrating, Waiting
    <3>4. AllHere'
      BY <1>1, <1>2, <1>3, <1>4, <3>3 DEF AllHere
    <3>5. QED
      BY <1>2, <1>3, <1>4, <3>1, <3>3, <3>4 DEF MigrationInv
  <2>7. QED
    BY <2>4, <2>5, <2>6
<1>7. QED
  BY <1>5, <1>6

LEMMA BootCalls ==
  ASSUME FlowInv, Call(Boot)
  PROVE  /\ step[Boot] # "readLegacy" /\ ~serving /\ UNCHANGED legacy
         /\ \/ /\ req[Boot].op = "bootstrap"
               /\ GetAccount(Boot) \/ CreateAccount(Boot) \/ ReadHashes(Boot) \/ WriteHashes(Boot)
            \/ /\ req[Boot].op = "migrate"
               /\ CreateAccount(Boot) \/ CreateTracker(Boot) \/ ReadHashes(Boot) \/ WriteHashes(Boot)
<1> USE DEF stored, rest
<1>t. Boot \in Processes
  BY FlowTypes
<1>1. step[Boot] # "idle" => /\ req[Boot].op \in OpsAt(step[Boot]) \cap BootOps
                             /\ Proper(req[Boot]) /\ ~serving
  BY <1>t, Busy
<1>2. CASE GetAccount(Boot) \/ CreateAccount(Boot) \/ ReadHashes(Boot) \/ WriteHashes(Boot)
           \/ CreateTracker(Boot)
  BY <1>1, <1>2, OpsTable
     DEF GetAccount, CreateAccount, ReadHashes, WriteHashes, CreateTracker, BootOps
<1>3. CASE GetTracker(Boot) \/ ListForLink(Boot) \/ DeleteAccount(Boot) \/ DeleteSso(Boot)
           \/ CheckPassword(Boot)
  BY <1>1, <1>3, OpsTable DEF GetTracker, ListForLink, DeleteAccount, DeleteSso, CheckPassword, BootOps
<1>4. CASE DropTwin(Boot) \/ FindBySub(Boot) \/ FindByEmail(Boot) \/ PatchSub(Boot)
           \/ Track(Boot) \/ RefreshTracker(Boot)
  BY <1>1, <1>4, OpsTable DEF DropTwin, FindBySub, FindByEmail, PatchSub, Track, RefreshTracker, BootOps
<1>5. QED
  BY <1>2, <1>3, <1>4 DEF Call

LEMMA MigrationBootstrap ==
  ASSUME FlowInv, MigrationInv, Call(Boot), req[Boot].op = "bootstrap"
  PROVE  MigrationInv'
<1> USE DEF stored, rest
<1>t. Boot \in Processes
  BY FlowTypes
<1>1. step[Boot] # "idle" /\ req[Boot].op \in OpsAt(step[Boot])
  <2>1. step[Boot] # "idle"
    BY BootCalls DEF FlowInv, Turns
  <2>2. QED
    BY <1>t, <2>1, Busy
<1>2. ~Migrating /\ "secret" \notin legacy'
  <2>1. ~Migrating
    BY <1>1, OpsTable DEF Migrating
  <2>2. QED
    BY <2>1, BootCalls, NotMigrating
<1>3. AfterHashes(req[Boot]) = "listForPrune"
  BY <1>t, <1>1, AfterHashesFacts
<1>4. \/ step'[Boot] \in {"createAccount", "readHashes", "writeHashes"} /\ req'[Boot] = req[Boot]
      \/ step'[Boot] \in {"readLegacy", "listForPrune"}
  <2>1. CASE GetAccount(Boot)
    BY <1>t, <2>1, After DEF GetAccount
  <2>2. CASE CreateAccount(Boot)
    BY <1>t, <1>3, <2>2, After DEF CreateAccount, Proceed
  <2>3. CASE ReadHashes(Boot)
    BY <1>t, <2>3, After DEF ReadHashes
  <2>4. CASE WriteHashes(Boot)
    BY <1>t, <1>3, <2>4, After DEF WriteHashes, Proceed
  <2>5. QED
    BY <2>1, <2>2, <2>3, <2>4, BootCalls
<1>5. QED
  BY <1>2, <1>4, NoMigration DEF Migrating

(* A step of the migration that throws starts it again.                     *)
LEMMA MigrationEnds ==
  ASSUME FlowInv, MigrationInv, Ends(Boot), UNCHANGED <<accounts, hashes, legacy, wanted>>
  PROVE  MigrationInv'
<1>1. step'[Boot] = "readLegacy" /\ UNCHANGED serving
  BY FlowTypes, After DEF Ends
<1>2. "secret" \in legacy => Untouched'
  BY <1>1 DEF MigrationInv, Untouched, Exists
<1>3. QED
  BY <1>1, <1>2 DEF MigrationInv, Migrating

LEMMA MigrationCreates ==
  ASSUME FlowInv, MigrationInv, req[Boot].op = "migrate", CreateAccount(Boot) \/ CreateTracker(Boot)
  PROVE  MigrationInv'
<1> USE DEF stored, rest
<1>t. Boot \in Processes /\ SharedType
  BY FlowTypes
<1>1. CASE Ends(Boot) /\ UNCHANGED accounts
  BY <1>1, MigrationEnds DEF CreateAccount, CreateTracker
<1>2. CASE CreateAccount(Boot) /\ ~(Ends(Boot) /\ UNCHANGED accounts)
  <2>0. PICK u, s : u = req[Boot].user /\ s = req[Boot].sub
    OBVIOUS
  <2>1. /\ step[Boot] = "createAccount" /\ ~Exists(u)
        /\ accounts' = [accounts EXCEPT ![u] = [sub |-> s, email |-> req[Boot].email]]
        /\ Goto(Boot, "migrate") /\ UNCHANGED <<trackers, hashes, legacy, wanted>>
    BY <1>2, <2>0 DEF CreateAccount, Proceed
  <2>2. Migrating
    BY <2>1 DEF Migrating
  <2>3. /\ u \in DOMAIN LegacyAccounts /\ s = LegacyAccounts[u].sub
        /\ "secret" \in legacy /\ Untouched /\ AllHere /\ Waiting = todo \cup {u}
    BY <2>0, <2>1, <2>2 DEF MigrationInv, Waiting
  <2>4. step'[Boot] = "migrate" /\ UNCHANGED <<todo, serving>>
    BY <1>t, <2>1, After DEF Goto
  <2>5. Migrating' /\ Waiting' = todo
    BY <2>4 DEF Migrating, Waiting
  <2>6. accounts'[u] = [sub |-> s, email |-> req[Boot].email]
        /\ \A v \in Usernames \ {u} : accounts'[v] = accounts[v]
    BY <1>t, <2>1, <2>3, UsersAssumption DEF SharedType
  <2>7. accounts'[u] # None
    <3>1. req[Boot].email \in Optional(Subs) /\ s \in Optional(Subs)
      BY <1>t, <2>0, FlowTypes, RequestFacts
    <3>2. [sub |-> s, email |-> req[Boot].email] \in Accounts
      BY <3>1 DEF Accounts
    <3>3. QED
      BY <2>6, <3>2, UsersAssumption
  <2>8. accounts'[u].sub = s
    BY <2>6
  <2>9. Untouched'
    <3>1. ASSUME NEW v \in Usernames, accounts'[v] # None
          PROVE  v \in DOMAIN LegacyAccounts /\ accounts'[v].sub = LegacyAccounts[v].sub
      BY <2>3, <2>6, <2>8, <3>1 DEF Untouched, Exists
    <3>2. QED
      BY <2>1, <2>3, <2>4, <2>5, <3>1 DEF Untouched, Exists
  <2>10. Carried(u)' /\ \A v \in Usernames \ {u} : Carried(v) => Carried(v)'
    BY <2>3, <2>6, <2>7, <2>8 DEF Carried, Exists
  <2>11. AllHere'
    <3>1. ASSUME NEW v \in DOMAIN LegacyAccounts PROVE Carried(v)' \/ v \in Waiting'
      BY <2>3, <2>5, <2>10, UsersAssumption DEF AllHere
    <3>2. ASSUME NEW x \in LegacyEntries \ LinkedInLegacy PROVE x \in trackers' \/ x \in Waiting'
      <4>1. x # u
        BY <2>3, UsersAssumption
      <4>2. QED
        BY <2>1, <2>3, <2>5, <4>1 DEF AllHere
    <3>3. QED
      BY <3>1, <3>2 DEF AllHere
  <2>12. QED
    BY <2>1, <2>3, <2>4, <2>5, <2>9, <2>11 DEF MigrationInv
<1>3. CASE CreateTracker(Boot) /\ ~(Ends(Boot) /\ UNCHANGED accounts)
  <2>1. /\ step[Boot] = "createTracker" /\ trackers' = trackers \cup {req[Boot].sub}
        /\ UNCHANGED <<accounts, hashes, legacy, wanted>> /\ Goto(Boot, "migrate")
    BY <1>3 DEF CreateTracker
  <2>2. step'[Boot] = "migrate" /\ UNCHANGED <<todo, serving>>
    BY <1>t, <2>1, After DEF Goto
  <2>3. Migrating /\ Waiting = todo \cup {req[Boot].sub} /\ req[Boot].sub \in Subs
    BY <1>t, <2>1 DEF Migrating, Waiting, FlowInv, Working, WorksAt
  <2>4. "secret" \in legacy /\ Untouched /\ AllHere
    BY <2>3 DEF MigrationInv
  <2>5. Migrating' /\ Waiting' = todo
    BY <2>2 DEF Migrating, Waiting
  <2>6. \A v : Exists(v)' = Exists(v) /\ Carried(v)' = Carried(v)
    BY <2>1 DEF Exists, Carried
  <2>7. Untouched'
    BY <2>1, <2>2, <2>4, <2>5, <2>6 DEF Untouched
  <2>8. AllHere'
    <3>1. ASSUME NEW v \in DOMAIN LegacyAccounts PROVE Carried(v)' \/ v \in Waiting'
      <4>1. v # req[Boot].sub
        BY <2>3, UsersAssumption
      <4>2. QED
        BY <2>3, <2>4, <2>5, <2>6, <4>1 DEF AllHere
    <3>2. QED
      BY <2>1, <2>3, <2>4, <2>5, <3>1 DEF AllHere
  <2>9. QED
    BY <2>1, <2>2, <2>4, <2>5, <2>7, <2>8 DEF MigrationInv
<1>4. QED
  BY <1>1, <1>2, <1>3

LEMMA MigrationHashes ==
  ASSUME FlowInv, MigrationInv, req[Boot].op = "migrate", ReadHashes(Boot) \/ WriteHashes(Boot)
  PROVE  MigrationInv'
<1> USE DEF stored, rest
<1>t. Boot \in Processes /\ SharedType
  BY FlowTypes
<1>1. step[Boot] \in {"readHashes", "writeHashes"} /\ Migrating /\ Waiting = {}
  BY DEF ReadHashes, WriteHashes, Migrating, Waiting
<1>2. "secret" \in legacy /\ Untouched /\ AllHere
  BY <1>1 DEF MigrationInv
<1>3. UNCHANGED <<accounts, trackers, legacy, wanted, serving>>
  <2>1. CASE ReadHashes(Boot)
    BY <2>1 DEF ReadHashes, Ends
  <2>2. CASE WriteHashes(Boot)
    BY <1>t, <1>1, <2>2, AfterHashesFacts DEF WriteHashes, Proceed, Goto, Ends
  <2>3. QED
    BY <2>1, <2>2
<1>4. \A v : Exists(v)' = Exists(v) /\ Carried(v)' = Carried(v) /\ Linked(v)' = Linked(v)
  BY <1>3 DEF Exists, Carried, Linked
<1>5. \/ step'[Boot] = "writeHashes" /\ req'[Boot].op = "migrate"
      \/ step'[Boot] = "deleteSecret" /\ WriteHashes(Boot)
  <2>1. CASE ReadHashes(Boot)
    BY <1>t, <2>1, After DEF ReadHashes
  <2>2. CASE WriteHashes(Boot)
    BY <1>t, <1>1, <2>2, After, AfterHashesFacts DEF WriteHashes, Proceed
  <2>3. QED
    BY <2>1, <2>2
<1>6. Migrating' /\ Waiting' = {}
  BY <1>5 DEF Migrating, Waiting
<1>7. Untouched'
  BY <1>2, <1>3, <1>4, <1>6 DEF Untouched
<1>8. AllHere'
  BY <1>1, <1>2, <1>3, <1>4, <1>6 DEF AllHere
<1>9. ASSUME step'[Boot] = "deleteSecret" PROVE Migrated'
  <2>1. hashes' = NewHashes(Boot)
    BY <1>5, <1>9 DEF WriteHashes
  <2>2. \A u \in DOMAIN LegacyAccounts : LegacyAccounts[u].password \in {None, hashes'[u]}
    BY <2>1, UsersAssumption DEF NewHashes
  <2>3. /\ \A u \in DOMAIN LegacyAccounts : Carried(u)
        /\ \A s \in LegacyEntries : s \in trackers \/ Linked(s) # {}
    BY <1>1, <1>2, NoneWaiting
  <2>4. QED
    BY <1>3, <1>4, <2>2, <2>3 DEF Migrated
<1>10. QED
  BY <1>2, <1>3, <1>5, <1>6, <1>7, <1>8, <1>9 DEF MigrationInv

LEMMA MigrationDeletes ==
  ASSUME FlowInv, Undisturbed, MigrationInv, DeleteSecret \/ DeleteConfigMap
  PROVE  MigrationInv'
<1>t. Boot \in Processes
  BY FlowTypes
<1>1. CASE DeleteSecret
  <2>1. legacy' = legacy \ {"secret"} /\ UNCHANGED <<accounts, trackers, hashes>>
    BY <1>1 DEF DeleteSecret, DeleteLegacy, Undisturbed
  <2>2. step[Boot] = "deleteSecret" /\ step'[Boot] = "deleteConfigMap"
    BY <1>1, <1>t, After DEF DeleteSecret, DeleteLegacy
  <2>3. Migrated'
    BY <2>1, <2>2 DEF MigrationInv, Migrated, Carried, Linked, Exists
  <2>4. QED
    BY <2>1, <2>2, <2>3 DEF MigrationInv, Migrating
<1>2. CASE DeleteConfigMap
  <2>1. step[Boot] = "deleteConfigMap" /\ step'[Boot] = "listAny" /\ legacy' \subseteq legacy
    BY <1>2, <1>t, After DEF DeleteConfigMap, DeleteLegacy
  <2>2. "secret" \notin legacy'
    BY <2>1, NotMigrating DEF Migrating
  <2>3. QED
    BY <2>1, <2>2, NoMigration DEF Migrating
<1>3. QED
  BY <1>1, <1>2

LEMMA MigrationOver ==
  ASSUME FlowInv, MigrationInv, ListAny \/ ListForPrune \/ Prune
  PROVE  MigrationInv'
<1> USE DEF stored
<1>t. Boot \in Processes
  BY FlowTypes
<1>1. step[Boot] \in {"listAny", "listForPrune", "prune"} /\ UNCHANGED legacy
  BY DEF ListAny, ListForPrune, Prune
<1>2. "secret" \notin legacy'
  BY <1>1, NotMigrating DEF Migrating
<1>3. step'[Boot] \in {"listForPrune", "getAccount", "prune", "idle"}
  <2>1. CASE ListAny
    BY <1>t, <2>1, After DEF ListAny
  <2>2. CASE ListForPrune \/ Prune
    BY <1>t, <1>1, <2>2, After DEF ListForPrune, Prune
  <2>3. QED
    BY <2>1, <2>2
<1>4. QED
  BY <1>2, <1>3, NoMigration DEF Migrating

LEMMA LegacyStays ==
  ASSUME NEW p \in Processes, Call(p) \/ CutOff(p)
  PROVE  UNCHANGED legacy
<1> USE DEF stored, rest
<1>1. CASE GetTracker(p) \/ GetAccount(p) \/ ListForLink(p) \/ CheckPassword(p) \/ ReadHashes(p)
  BY <1>1 DEF GetTracker, GetAccount, ListForLink, CheckPassword, ReadHashes
<1>2. CASE CreateAccount(p) \/ DeleteAccount(p) \/ DeleteSso(p) \/ WriteHashes(p) \/ DropTwin(p)
  BY <1>2 DEF CreateAccount, DeleteAccount, DeleteSso, WriteHashes, DropTwin
<1>3. CASE FindBySub(p) \/ FindByEmail(p) \/ PatchSub(p) \/ Track(p) \/ RefreshTracker(p)
           \/ CreateTracker(p)
  BY <1>3 DEF FindBySub, FindByEmail, PatchSub, Track, RefreshTracker, CreateTracker
<1>4. CASE CutOff(p)
  BY <1>4 DEF CutOff
<1>5. QED
  BY <1>1, <1>2, <1>3, <1>4 DEF Call

LEMMA MigrationStep ==
  ASSUME FlowInv, LoopInv, Undisturbed, MigrationInv, [Next]_vars
  PROVE  MigrationInv'
<1> USE DEF stored, rest
<1>t. Boot \in Processes /\ Boot \notin Handlers
  BY FlowTypes
<1>1. CASE \E h \in Handlers : Call(h) \/ CutOff(h) \/ Arrive(h)
  <2>1. PICK h \in Handlers : Call(h) \/ CutOff(h) \/ Arrive(h)
    BY <1>1
  <2>2. serving /\ Goes(h) /\ UNCHANGED legacy /\ h \in Processes
    <3>1. CASE Call(h) \/ CutOff(h)
      BY <3>1, CallFlow, CutOffFlow, LegacyStays, Busy DEF Called, Processes
    <3>2. CASE Arrive(h)
      BY <3>2, ArriveFlow DEF Arrive, Processes
    <3>3. QED
      BY <2>1, <3>1, <3>2
  <2>3. step'[Boot] = step[Boot] /\ step[Boot] = "idle"
    BY <1>t, <2>2, FlowTypes DEF Goes, FlowInv, Turns
  <2>4. QED
    BY <2>2, <2>3, MigrationServing
<1>2. CASE CutOff(Boot)
  BY <1>2, MigrationEnds DEF CutOff
<1>3. CASE Call(Boot)
  BY <1>3, BootCalls, MigrationBootstrap, MigrationCreates, MigrationHashes
<1>4. CASE ReadLegacy \/ Migrate \/ DeleteSecret \/ DeleteConfigMap \/ ListAny \/ ListForPrune \/ Prune
  BY <1>4, MigrationReads, MigrationLoop, MigrationDeletes, MigrationOver
<1>5. CASE Restart
  BY <1>t, <1>5, MigrationServing DEF Restart
<1>6. CASE UNCHANGED vars
  BY <1>6, MigrationUnchanged
<1>7. QED
  BY <1>1, <1>2, <1>3, <1>4, <1>5, <1>6 DEF Next, StartUp

----------------------------------------------------------------------------
(* Passwords *)

(* The steps that the passwords or the links depend on.                     *)
Watched == {"readHashes", "writeHashes", "createAccount", "findByEmail", "patchSub"}

QuietCall(p) ==
  \/ GetTracker(p) \/ DeleteSso(p) \/ DropTwin(p) \/ Track(p) \/ RefreshTracker(p)
  \/ CreateTracker(p) \/ CutOff(p)

QuietStart == ReadLegacy \/ DeleteSecret \/ DeleteConfigMap \/ ListAny \/ ListForPrune \/ Prune

LEMMA QuietSteps ==
  ASSUME FlowInv, NEW p \in Processes, QuietCall(p) \/ (p = Boot /\ QuietStart)
  PROVE  step'[p] \notin Watched /\ UNCHANGED <<accounts, hashes, wanted>>
<1> USE DEF stored, rest, Watched
<1>1. CASE GetTracker(p) \/ Track(p)
  BY <1>1, After DEF GetTracker, Track
<1>2. CASE DeleteSso(p) \/ DropTwin(p) \/ RefreshTracker(p) \/ CreateTracker(p) \/ CutOff(p)
  BY <1>2, After DEF DeleteSso, DropTwin, RefreshTracker, CreateTracker, CutOff
<1>3. CASE p = Boot /\ (ReadLegacy \/ DeleteSecret \/ DeleteConfigMap)
  BY <1>3, After DEF ReadLegacy, DeleteSecret, DeleteConfigMap, DeleteLegacy
<1>4. CASE p = Boot /\ (ListAny \/ ListForPrune)
  BY <1>4, After DEF ListAny, ListForPrune
<1>5. CASE p = Boot /\ Prune
  BY <1>5, After DEF Prune
<1>6. QED
  BY <1>1, <1>2, <1>3, <1>4, <1>5 DEF QuietCall, QuietStart

LEMMA PasswordMoves ==
  ASSUME FlowInv, Undisturbed, NEW p \in Processes, Called(p), WantedStored', HashesKnown(p)'
  PROVE  PasswordInv'
<1>1. \A q \in Processes \ {p} : step'[q] = "idle"
  BY Busy, StillAlone DEF Called
<1>2. \A q \in Processes : HashesKnown(q)'
  BY <1>1 DEF HashesKnown
<1>3. QED
  BY <1>2 DEF PasswordInv

LEMMA WantedSame ==
  ASSUME PasswordInv, UNCHANGED <<hashes, wanted>>, \A u \in Usernames : Exists(u) => Exists(u)'
  PROVE  WantedStored'
BY DEF PasswordInv, WantedStored

LEMMA NoHashesAt ==
  ASSUME NEW p \in Processes, step'[p] \notin {"readHashes", "writeHashes"}
  PROVE  HashesKnown(p)'
BY DEF HashesKnown

LEMMA PasswordReads ==
  ASSUME FlowInv, Undisturbed, PasswordInv, NEW p \in Processes, Called(p),
         GetAccount(p) \/ ListForLink(p) \/ CheckPassword(p) \/ ReadHashes(p)
         \/ FindBySub(p) \/ FindByEmail(p)
  PROVE  PasswordInv'
<1> USE DEF stored, rest
<1>1. UNCHANGED <<accounts, hashes, wanted>>
  BY DEF GetAccount, ListForLink, CheckPassword, ReadHashes, FindBySub, FindByEmail
<1>2. WantedStored'
  BY <1>1, WantedSame DEF Exists
<1>3. CASE GetAccount(p) \/ ListForLink(p)
  <2>1. step'[p] \notin {"readHashes", "writeHashes"}
    BY <1>3, After DEF GetAccount, ListForLink
  <2>2. QED
    BY <1>2, <2>1, NoHashesAt, PasswordMoves
<1>4. CASE FindBySub(p)
  <2>1. PICK s \in {"dropTwin", "end", "track", "findByEmail"} : Proceed(p, s)
    BY <1>4 DEF FindBySub
  <2>2. step'[p] \notin {"readHashes", "writeHashes"}
    BY <2>1, After DEF Proceed
  <2>3. QED
    BY <1>2, <2>2, NoHashesAt, PasswordMoves
<1>5. CASE FindByEmail(p)
  <2>1. step'[p] \notin {"readHashes", "writeHashes"}
    <3>1. Goto(p, "track") \/ Ends(p) \/ step' = [step EXCEPT ![p] = "patchSub"]
      BY <1>5 DEF FindByEmail
    <3>2. QED
      BY <3>1, After
  <2>2. QED
    BY <1>2, <2>1, NoHashesAt, PasswordMoves
<1>6. CASE CheckPassword(p)
  <2>1. req[p].op = "own"
    BY <1>6, Busy, OpsTable DEF CheckPassword
  <2>2. PICK s \in {"readHashes", "end"} : Proceed(p, s)
    BY <1>6 DEF CheckPassword
  <2>3. \/ step'[p] = "readHashes" /\ req'[p] = req[p]
        \/ step'[p] \notin {"readHashes", "writeHashes"}
    BY <2>2, After DEF Proceed
  <2>4. HashesKnown(p)'
    BY <2>1, <2>3 DEF HashesKnown
  <2>5. QED
    BY <1>2, <2>4, PasswordMoves
<1>7. CASE ReadHashes(p)
  <2>1. \/ step'[p] \notin {"readHashes", "writeHashes"}
        \/ step'[p] = "writeHashes" /\ req' = req /\ copy'[p] = hashes
    BY <1>7, After DEF ReadHashes
  <2>2. HashesKnown(p)
    BY DEF PasswordInv
  <2>3. HashesKnown(p)'
    BY <1>1, <1>7, <2>1, <2>2 DEF HashesKnown, ReadHashes, Exists
  <2>4. QED
    BY <1>2, <2>3, PasswordMoves
<1>8. QED
  BY <1>3, <1>4, <1>5, <1>6, <1>7

LEMMA PasswordAccounts ==
  ASSUME FlowInv, Undisturbed, PasswordInv, NEW p \in Processes, Called(p),
         CreateAccount(p) \/ DeleteAccount(p) \/ PatchSub(p)
  PROVE  PasswordInv'
<1> USE DEF stored, rest
<1>t. SharedType /\ SharedType'
  BY FlowTypes DEF Called
<1>1. CASE CreateAccount(p)
  <2>1. UNCHANGED <<hashes, wanted>>
    BY <1>1 DEF CreateAccount
  <2>2. /\ step[p] = "createAccount" /\ Proper(req[p]) /\ Working(p)
        /\ req[p].op \in {"create", "promote", "bootstrap", "migrate"}
    BY <1>1, Busy, OpsTable DEF CreateAccount, FlowInv
  <2>3. CASE Ends(p) /\ UNCHANGED accounts
    <3>1. step'[p] \notin {"readHashes", "writeHashes"}
      BY <2>3, After
    <3>2. WantedStored'
      BY <2>1, <2>3, WantedSame DEF Exists
    <3>3. QED
      BY <3>1, <3>2, NoHashesAt, PasswordMoves
  <2>4. CASE ~(Ends(p) /\ UNCHANGED accounts)
    <3>1. PICK u, r : /\ u = req[p].user /\ ~Exists(u) /\ accounts' = [accounts EXCEPT ![u] = r]
                      /\ r = [sub |-> req[p].sub, email |-> req[p].email]
      BY <1>1, <2>4 DEF CreateAccount
    <3>2. r # None
      <4>1. req[p].email \in Optional(Subs) /\ req[p].sub \in Optional(Subs)
        BY FlowTypes, RequestFacts
      <4>2. r \in Accounts
        BY <3>1, <4>1 DEF Accounts
      <4>3. QED
        BY <4>2, UsersAssumption
    <3>3. \A v \in Usernames : Exists(v) => Exists(v)'
      BY <1>t, <3>1, <3>2 DEF Exists, SharedType
    <3>4. WantedStored'
      BY <2>1, <3>3, WantedSame
    <3>5. PICK s : /\ s = IF req[p].op = "migrate" THEN "migrate"
                          ELSE IF req[p].password # None THEN "readHashes" ELSE AfterHashes(req[p])
                   /\ Proceed(p, s)
      BY <1>1, <2>4 DEF CreateAccount
    <3>6. s # "writeHashes" /\ (s = "readHashes" => req[p].op # "delete")
      BY <2>2, <3>5, AfterHashesFacts
    <3>7. \/ step'[p] = "readHashes" /\ req'[p] = req[p] /\ req[p].op # "delete"
          \/ step'[p] \notin {"readHashes", "writeHashes"}
      BY <3>5, <3>6, After DEF Proceed
    <3>8. req[p].op = "bootstrap" => wanted[req[p].user] = None
      BY <2>2, <3>1 DEF Proper, PasswordInv, WantedStored
    <3>9. HashesKnown(p)'
      BY <2>1, <3>7, <3>8 DEF HashesKnown
    <3>10. QED
      BY <3>4, <3>9, PasswordMoves
  <2>5. QED
    BY <2>3, <2>4
<1>2. CASE DeleteAccount(p)
  <2>1. req[p].op = "delete" /\ req[p].user \in Usernames
    BY <1>2, Busy, OpsTable DEF DeleteAccount, Proper
  <2>2. PICK u \in Usernames : u = req[p].user
    BY <2>1
  <2>3. /\ accounts' = [accounts EXCEPT ![u] = None] /\ wanted' = [wanted EXCEPT ![u] = None]
        /\ hashes' = hashes /\ step'[p] = "readHashes" /\ req'[p] = req[p]
    BY <1>2, <2>2, After DEF DeleteAccount
  <2>4. /\ ~Exists(u)' /\ wanted'[u] = None
        /\ \A v \in Usernames \ {u} : Exists(v)' = Exists(v) /\ wanted'[v] = wanted[v]
    BY <1>t, <2>3 DEF SharedType, Exists, Hashes
  <2>5. WantedStored'
    BY <2>3, <2>4 DEF PasswordInv, WantedStored
  <2>6. HashesKnown(p)'
    BY <2>1, <2>2, <2>3, <2>4 DEF HashesKnown
  <2>7. QED
    BY <2>5, <2>6, PasswordMoves
<1>3. CASE PatchSub(p)
  <2>1. UNCHANGED <<hashes, wanted>> /\ step'[p] \notin {"readHashes", "writeHashes"}
    BY <1>3, After DEF PatchSub, Proceed
  <2>2. \A v \in Usernames : Exists(v) => Exists(v)'
    <3>1. CASE UNCHANGED accounts
      BY <3>1 DEF Exists
    <3>2. CASE ~UNCHANGED accounts
      <4>1. PICK u, s : Exists(u) /\ accounts' = [accounts EXCEPT ![u].sub = s] /\ s = req[p].sub
        BY <1>3, <3>2 DEF PatchSub
      <4>2. s \in Optional(Subs)
        BY <4>1, FlowTypes, RequestFacts
      <4>3. u \in Usernames => [accounts[u] EXCEPT !.sub = s] \in Accounts
        BY <1>t, <4>1, <4>2 DEF SharedType, Exists, Accounts
      <4>4. QED
        BY <1>t, <4>1, <4>3, UsersAssumption DEF SharedType, Exists
    <3>3. QED
      BY <3>1, <3>2
  <2>3. QED
    BY <2>1, <2>2, WantedSame, NoHashesAt, PasswordMoves
<1>4. QED
  BY <1>1, <1>2, <1>3

LEMMA PasswordWrites ==
  ASSUME FlowInv, Undisturbed, MigrationInv, PasswordInv, NEW p \in Processes, Called(p), WriteHashes(p)
  PROVE  PasswordInv'
<1>t. SharedType /\ copy[p] \in Hashes
  BY FlowTypes
<1>1. /\ step[p] = "writeHashes" /\ copy[p] = hashes /\ Proper(req[p])
      /\ req[p].op \in {"create", "promote", "own", "reset", "delete", "bootstrap", "migrate"}
      /\ p = Boot <=> req[p].op \in BootOps
  BY Busy, OpsTable DEF WriteHashes, PasswordInv, HashesKnown
<1>2. step'[p] \notin {"readHashes", "writeHashes"}
  BY <1>1, After, AfterHashesFacts DEF WriteHashes, Proceed
<1>3. UNCHANGED accounts /\ hashes' = NewHashes(p)
  BY DEF WriteHashes
<1>4. CASE req[p].op = "migrate"
  <2>1. p = Boot /\ Migrating
    BY <1>1, <1>4 DEF Migrating, BootOps
  <2>2. wanted' = wanted /\ wanted = NoHashes
    BY <2>1 DEF WriteHashes, MigrationInv, Untouched
  <2>3. WantedStored'
    BY <2>2 DEF WantedStored, NoHashes
  <2>4. QED
    BY <1>2, <2>3, NoHashesAt, PasswordMoves
<1>5. CASE req[p].op # "migrate"
  <2>1. req[p].user \in Usernames
    BY <1>1, <1>5 DEF Proper
  <2>2. PICK u, pw : u \in Usernames /\ u = req[p].user /\ pw = req[p].password
    BY <2>1
  <2>3. hashes' = [hashes EXCEPT ![u] = pw]
    BY <1>1, <1>3, <1>5, <2>2 DEF NewHashes
  <2>4. hashes'[u] = pw /\ \A v \in Usernames \ {u} : hashes'[v] = hashes[v]
    BY <1>t, <2>2, <2>3 DEF SharedType, Hashes
  <2>5. \A v : Exists(v)' = Exists(v)
    BY <1>3 DEF Exists
  <2>6. CASE p # Boot /\ Exists(u)
    <3>1. wanted' = [wanted EXCEPT ![u] = pw]
      BY <2>2, <2>6 DEF WriteHashes
    <3>2. wanted'[u] = pw /\ \A v \in Usernames \ {u} : wanted'[v] = wanted[v]
      BY <1>t, <2>2, <3>1 DEF SharedType, Hashes
    <3>3. WantedStored'
      BY <2>4, <2>5, <2>6, <3>2 DEF PasswordInv, WantedStored
    <3>4. QED
      BY <1>2, <3>3, NoHashesAt, PasswordMoves
  <2>7. CASE ~(p # Boot /\ Exists(u))
    <3>1. wanted' = wanted
      BY <2>2, <2>7 DEF WriteHashes
    <3>2. wanted[u] = None
      <4>1. CASE p = Boot
        BY <1>1, <1>5, <2>2, <4>1 DEF BootOps, PasswordInv, HashesKnown
      <4>2. CASE ~Exists(u)
        BY <2>2, <4>2 DEF PasswordInv, WantedStored
      <4>3. QED
        BY <2>7, <4>1, <4>2
    <3>3. WantedStored'
      BY <2>4, <2>5, <3>1, <3>2 DEF PasswordInv, WantedStored
    <3>4. QED
      BY <1>2, <3>3, NoHashesAt, PasswordMoves
  <2>8. QED
    BY <2>6, <2>7
<1>6. QED
  BY <1>4, <1>5

LEMMA PasswordLoop ==
  ASSUME FlowInv, Undisturbed, PasswordInv, Called(Boot), Migrate
  PROVE  PasswordInv'
<1> USE DEF stored, rest
<1>t. Boot \in Processes
  BY FlowTypes
<1>1. WantedStored'
  BY WantedSame DEF Migrate, Exists
<1>2. CASE todo = {}
  <2>1. step'[Boot] \in {"readHashes", "deleteSecret"} /\ req'[Boot] = [NoRequest EXCEPT !.op = "migrate"]
    BY <1>t, <1>2, After DEF Migrate
  <2>2. req'[Boot].op = "migrate"
    BY <2>1 DEF NoRequest, Request
  <2>3. HashesKnown(Boot)'
    BY <2>1, <2>2 DEF HashesKnown
  <2>4. QED
    BY <1>t, <1>1, <2>3, PasswordMoves
<1>3. CASE todo # {}
  <2>1. PICK s \in {"migrate", "createAccount", "createTracker"} : step' = [step EXCEPT ![Boot] = s]
    BY <1>3 DEF Migrate
  <2>2. step'[Boot] \notin {"readHashes", "writeHashes"}
    BY <1>t, <2>1, After
  <2>3. QED
    BY <1>t, <1>1, <2>2, NoHashesAt, PasswordMoves
<1>4. QED
  BY <1>2, <1>3

LEMMA PasswordArrives ==
  ASSUME FlowInv, Undisturbed, PasswordInv, NEW h \in Handlers, Arrive(h)
  PROVE  PasswordInv'
<1>1. serving /\ Goes(h) /\ h \in Processes /\ h # Boot
  BY ArriveFlow, FlowTypes DEF Processes
<1>2. \A q \in Processes \ {h} : step'[q] = "idle"
  BY <1>1, StillAlone
<1>3. PICK r \in Submitted : req' = [req EXCEPT ![h] = r] /\ step' = [step EXCEPT ![h] = FirstStep(r.op)]
  BY DEF Arrive
<1>4. step'[h] = FirstStep(r.op) /\ req'[h] = r
  BY <1>1, <1>3, After
<1>5. step'[h] # "writeHashes" /\ (step'[h] = "readHashes" => r.op \notin {"delete", "bootstrap"})
  BY <1>4, SubmittedFacts DEF FirstStep, BootOps
<1>6. WantedStored'
  BY WantedSame DEF Arrive, stored, Exists
<1>7. \A q \in Processes : HashesKnown(q)'
  BY <1>2, <1>4, <1>5 DEF HashesKnown
<1>8. QED
  BY <1>6, <1>7 DEF PasswordInv

LEMMA PasswordStep ==
  ASSUME FlowInv, LoopInv, Undisturbed, MigrationInv, PasswordInv, [Next]_vars
  PROVE  PasswordInv'
<1>t. Boot \in Processes /\ Handlers \subseteq Processes
  BY FlowTypes DEF Processes
<1>1. CASE \E p \in Processes : Call(p) \/ CutOff(p)
  <2>1. PICK p \in Processes : Call(p) \/ CutOff(p)
    BY <1>1
  <2>2. Called(p)
    BY <2>1, CallFlow, CutOffFlow
  <2>3. CASE QuietCall(p)
    <3>1. step'[p] \notin Watched /\ UNCHANGED <<accounts, hashes, wanted>>
      BY <2>3, QuietSteps
    <3>2. WantedStored'
      BY <3>1, WantedSame DEF Exists
    <3>3. QED
      BY <2>2, <3>1, <3>2, NoHashesAt, PasswordMoves DEF Watched
  <2>4. QED
    BY <2>1, <2>2, <2>3, PasswordReads, PasswordAccounts, PasswordWrites DEF Call, QuietCall
<1>2. CASE QuietStart
  <2>1. step'[Boot] \notin Watched /\ UNCHANGED <<accounts, hashes, wanted>>
    BY <1>t, <1>2, QuietSteps
  <2>2. WantedStored' /\ Called(Boot)
    BY <1>2, <2>1, WantedSame, StartFlow DEF Exists, QuietStart
  <2>3. QED
    BY <1>t, <2>1, <2>2, NoHashesAt, PasswordMoves DEF Watched
<1>3. CASE Migrate
  BY <1>3, StartFlow, PasswordLoop
<1>4. CASE \E h \in Handlers : Arrive(h)
  BY <1>4, PasswordArrives
<1>5. CASE Restart
  <2>1. \A p \in Processes : step'[p] \in {"readLegacy", "idle"}
    BY <1>5 DEF Restart
  <2>2. WantedStored'
    BY <1>5, WantedSame DEF Restart, stored, Exists
  <2>3. QED
    BY <2>1, <2>2 DEF PasswordInv, HashesKnown
<1>6. CASE UNCHANGED vars
  BY <1>6 DEF vars, stored, local, PasswordInv, WantedStored, HashesKnown, Exists
<1>7. QED
  BY <1>t, <1>1, <1>2, <1>3, <1>4, <1>5, <1>6 DEF Next, StartUp, QuietStart

----------------------------------------------------------------------------
(* Links *)

LEMMA LinkMoves ==
  ASSUME FlowInv, Undisturbed, NEW p \in Processes, Called(p), OneEach', Unlinked(p)'
  PROVE  LinkInv'
<1>1. \A q \in Processes \ {p} : step'[q] = "idle"
  BY Busy, StillAlone DEF Called
<1>2. \A q \in Processes : Unlinked(q)'
  BY <1>1 DEF Unlinked
<1>3. QED
  BY <1>2 DEF LinkInv

LEMMA OneEachSame == ASSUME LinkInv, UNCHANGED accounts PROVE OneEach'
BY DEF LinkInv, OneEach, Exists

LEMMA NoLinkAt ==
  ASSUME NEW p \in Processes, step'[p] \notin {"createAccount", "findByEmail", "patchSub"}
  PROVE  Unlinked(p)'
BY DEF Unlinked

(* An account that gets a subject that has none is the only one with it.    *)
LEMMA OneMore ==
  ASSUME SharedType, OneEach, NEW u \in Usernames, NEW r \in Accounts,
         accounts' = [accounts EXCEPT ![u] = r], r.sub = None \/ Linked(r.sub) = {}
  PROVE  OneEach'
<1>1. accounts'[u] = r /\ \A v \in Usernames \ {u} : accounts'[v] = accounts[v]
  BY DEF SharedType
<1>2. ASSUME NEW v \in Usernames \ {u}, Exists(v), r.sub # None PROVE accounts[v].sub # r.sub
  BY <1>2 DEF Linked
<1>3. ASSUME NEW v \in Usernames, NEW w \in Usernames, accounts'[v] # None, accounts'[w] # None,
             accounts'[v].sub = accounts'[w].sub, accounts'[v].sub # None
      PROVE  v = w
  <2>1. CASE v = u /\ w # u
    BY <1>1, <1>2, <1>3, <2>1 DEF Exists
  <2>2. CASE v # u /\ w = u
    BY <1>1, <1>2, <1>3, <2>2 DEF Exists
  <2>3. CASE v # u /\ w # u
    BY <1>1, <1>3, <2>3 DEF OneEach, Exists
  <2>4. QED
    BY <2>1, <2>2, <2>3
<1>4. QED
  BY <1>3 DEF OneEach, Exists

LEMMA LinkReads ==
  ASSUME FlowInv, Undisturbed, LinkInv, NEW p \in Processes, Called(p),
         GetAccount(p) \/ ListForLink(p) \/ CheckPassword(p) \/ ReadHashes(p)
         \/ FindBySub(p) \/ FindByEmail(p)
  PROVE  LinkInv'
<1> USE DEF stored, rest
<1>1. UNCHANGED accounts
  BY DEF GetAccount, ListForLink, CheckPassword, ReadHashes, FindBySub, FindByEmail
<1>2. OneEach' /\ \A s : Linked(s)' = Linked(s)
  BY <1>1, OneEachSame DEF Linked, Exists
<1>3. CASE GetAccount(p)
  <2>1. \/ step'[p] \notin {"createAccount", "findByEmail", "patchSub"}
        \/ /\ step'[p] = "createAccount" /\ req'[p] = req[p]
           /\ req[p].op \in {"create", "bootstrap"}
    BY <1>3, After DEF GetAccount
  <2>2. Proper(req[p])
    BY <1>3, Busy DEF GetAccount
  <2>3. Unlinked(p)'
    BY <2>1, <2>2 DEF Unlinked, Proper
  <2>4. QED
    BY <1>2, <2>3, LinkMoves
<1>4. CASE ListForLink(p)
  <2>1. CASE Ends(p)
    <3>1. step'[p] \notin {"createAccount", "findByEmail", "patchSub"}
      BY <2>1, After
    <3>2. QED
      BY <1>2, <3>1, NoLinkAt, LinkMoves
  <2>2. CASE ~Ends(p)
    <3>1. PICK s, b : s = req[p].sub /\ b = (s \in trackers)
      OBVIOUS
    <3>2. Linked(s) = {} /\ req' = [req EXCEPT ![p].twin = b]
      BY <1>4, <2>2, <3>1 DEF ListForLink
    <3>3. req'[p].sub = s
      BY <3>1, <3>2, FlowTypes DEF Requests
    <3>4. Unlinked(p)'
      BY <1>2, <3>2, <3>3 DEF Unlinked
    <3>5. QED
      BY <1>2, <3>4, LinkMoves
  <2>3. QED
    BY <2>1, <2>2
<1>5. CASE CheckPassword(p) \/ ReadHashes(p)
  <2>1. step'[p] \notin {"createAccount", "findByEmail", "patchSub"}
    BY <1>5, After DEF CheckPassword, ReadHashes, Proceed
  <2>2. QED
    BY <1>2, <2>1, NoLinkAt, LinkMoves
<1>6. CASE FindBySub(p)
  <2>1. PICK s \in {"dropTwin", "end", "track", "findByEmail"} :
          Proceed(p, s) /\ (s = "findByEmail" => Linked(req[p].sub) = {})
    BY <1>6 DEF FindBySub
  <2>2. \/ step'[p] \notin {"createAccount", "findByEmail", "patchSub"}
        \/ step'[p] = "findByEmail" /\ req'[p] = req[p] /\ Linked(req[p].sub) = {}
    BY <2>1, After DEF Proceed
  <2>3. Unlinked(p)'
    BY <1>2, <2>2 DEF Unlinked
  <2>4. QED
    BY <1>2, <2>3, LinkMoves
<1>7. CASE FindByEmail(p)
  <2>1. CASE Goto(p, "track") \/ Ends(p)
    <3>1. step'[p] \notin {"createAccount", "findByEmail", "patchSub"}
      BY <2>1, After
    <3>2. QED
      BY <1>2, <3>1, NoLinkAt, LinkMoves
  <2>2. CASE ~(Goto(p, "track") \/ Ends(p))
    <3>1. PICK u, b : /\ b = (req[p].sub \in trackers)
                      /\ req' = [req EXCEPT ![p].user = u, ![p].twin = b]
      BY <1>7, <2>2 DEF FindByEmail
    <3>2. req'[p].sub = req[p].sub
      BY <3>1, FlowTypes DEF Requests
    <3>3. req[p].sub = None \/ Linked(req[p].sub) = {}
      BY <1>7 DEF FindByEmail, LinkInv, Unlinked
    <3>4. Unlinked(p)'
      BY <1>2, <3>2, <3>3 DEF Unlinked
    <3>5. QED
      BY <1>2, <3>4, LinkMoves
  <2>3. QED
    BY <2>1, <2>2
<1>8. QED
  BY <1>3, <1>4, <1>5, <1>6, <1>7

LEMMA LinkWrites ==
  ASSUME FlowInv, Undisturbed, LinkInv, NEW p \in Processes, Called(p),
         CreateAccount(p) \/ DeleteAccount(p) \/ WriteHashes(p) \/ PatchSub(p)
  PROVE  LinkInv'
<1> USE DEF stored, rest
<1>t. SharedType /\ OneEach /\ Unlinked(p) /\ Proper(req[p]) /\ Working(p) /\ step[p] # "idle"
  BY FlowTypes, Busy DEF Called, LinkInv, FlowInv
<1>a. req[p].sub \in Optional(Subs) /\ req[p].email \in Optional(Subs)
  BY FlowTypes, RequestFacts
<1>1. CASE CreateAccount(p)
  <2>1. CASE UNCHANGED accounts /\ Ends(p)
    <3>1. step'[p] \notin {"createAccount", "findByEmail", "patchSub"}
      BY <2>1, After
    <3>2. QED
      BY <2>1, <3>1, OneEachSame, NoLinkAt, LinkMoves
  <2>2. CASE ~(UNCHANGED accounts /\ Ends(p))
    <3>1. PICK u, r : /\ u = req[p].user /\ accounts' = [accounts EXCEPT ![u] = r]
                      /\ r = [sub |-> req[p].sub, email |-> req[p].email]
      BY <1>1, <2>2 DEF CreateAccount
    <3>2. r \in Accounts /\ r.sub = req[p].sub
      BY <1>a, <3>1 DEF Accounts
    <3>3. r.sub = None \/ Linked(r.sub) = {}
      BY <1>1, <1>t, <3>2 DEF Unlinked, CreateAccount
    <3>4. OneEach'
      <4>1. CASE u \in Usernames
        BY <1>t, <3>1, <3>2, <3>3, <4>1, OneMore
      <4>2. CASE u \notin Usernames
        <5>1. accounts' = accounts
          BY <1>t, <3>1, <4>2 DEF SharedType
        <5>2. QED
          BY <5>1, OneEachSame
      <4>3. QED
        BY <4>1, <4>2
    <3>5. PICK s : /\ s = IF req[p].op = "migrate" THEN "migrate"
                          ELSE IF req[p].password # None THEN "readHashes" ELSE AfterHashes(req[p])
                   /\ Proceed(p, s)
      BY <1>1, <2>2 DEF CreateAccount
    <3>6. s \notin {"createAccount", "findByEmail", "patchSub"}
      BY <1>t, <3>5, AfterHashesFacts
    <3>7. step'[p] \notin {"createAccount", "findByEmail", "patchSub"}
      BY <3>5, <3>6, After DEF Proceed
    <3>8. QED
      BY <3>4, <3>7, NoLinkAt, LinkMoves
  <2>3. QED
    BY <2>1, <2>2
<1>2. CASE DeleteAccount(p)
  <2>1. PICK u : accounts' = [accounts EXCEPT ![u] = None] /\ step'[p] = "readHashes"
    BY <1>2, After DEF DeleteAccount
  <2>2. \A v \in Usernames : accounts'[v] # None => accounts'[v] = accounts[v]
    BY <1>t, <2>1 DEF SharedType
  <2>3. OneEach'
    BY <1>t, <2>2 DEF OneEach, Exists
  <2>4. QED
    BY <2>1, <2>3, NoLinkAt, LinkMoves
<1>3. CASE WriteHashes(p)
  <2>1. OneEach'
    BY <1>3, OneEachSame DEF WriteHashes
  <2>2. step'[p] \notin {"createAccount", "findByEmail", "patchSub"}
    BY <1>3, <1>t, After, AfterHashesFacts DEF WriteHashes, Proceed
  <2>3. QED
    BY <2>1, <2>2, NoLinkAt, LinkMoves
<1>4. CASE PatchSub(p)
  <2>1. step'[p] \notin {"createAccount", "findByEmail", "patchSub"}
    BY <1>4, After DEF PatchSub, Proceed
  <2>2. OneEach'
    <3>1. CASE UNCHANGED accounts
      BY <3>1, OneEachSame
    <3>2. CASE ~UNCHANGED accounts
      <4>1. PICK u, s : /\ Exists(u) /\ accounts' = [accounts EXCEPT ![u].sub = s]
                        /\ s = req[p].sub /\ u = req[p].user
        BY <1>4, <3>2 DEF PatchSub
      <4>2. u \in Usernames /\ step[p] = "patchSub"
        BY <1>4, <1>t, <4>1 DEF PatchSub, Working, WorksAt
      <4>3. PICK r : r = [accounts[u] EXCEPT !.sub = s]
        OBVIOUS
      <4>4. accounts[u] \in Accounts
        BY <1>t, <4>1, <4>2 DEF SharedType, Exists
      <4>5. r \in Accounts /\ r.sub = s
        BY <1>a, <4>1, <4>3, <4>4 DEF Accounts
      <4>6. accounts' = [accounts EXCEPT ![u] = r]
        BY <4>1, <4>3
      <4>7. r.sub = None \/ Linked(r.sub) = {}
        BY <1>t, <4>1, <4>2, <4>5 DEF Unlinked
      <4>8. QED
        BY <1>t, <4>2, <4>5, <4>6, <4>7, OneMore
    <3>3. QED
      BY <3>1, <3>2
  <2>3. QED
    BY <2>1, <2>2, NoLinkAt, LinkMoves
<1>5. QED
  BY <1>1, <1>2, <1>3, <1>4

LEMMA LinkLoop ==
  ASSUME FlowInv, LoopInv, Undisturbed, LinkedOnce, MigrationInv, LinkInv, Called(Boot), Migrate
  PROVE  LinkInv'
<1> USE DEF stored, rest
<1>t. Boot \in Processes
  BY FlowTypes
<1>1. OneEach' /\ \A s : Linked(s)' = Linked(s)
  BY OneEachSame DEF Migrate, Linked, Exists
<1>2. CASE todo = {}
  <2>1. step'[Boot] \notin {"createAccount", "findByEmail", "patchSub"}
    BY <1>t, <1>2, After DEF Migrate
  <2>2. QED
    BY <1>t, <1>1, <2>1, NoLinkAt, LinkMoves
<1>3. CASE todo # {}
  <2>1. PICK x \in todo :
          /\ req' = [req EXCEPT ![Boot] = MigrationRequest(x)]
          /\ step' = [step EXCEPT ![Boot] =
               CASE There(x) -> "migrate"
                 [] ~There(x) -> IF x \in Usernames THEN "createAccount" ELSE "createTracker"]
    BY <1>3 DEF Migrate
  <2>2. x \in Usernames \cup Subs /\ (x \in Usernames => x \in DOMAIN LegacyAccounts)
    BY <2>1, FlowTypes DEF SharedType, LoopInv
  <2>3. req'[Boot] = MigrationRequest(x)
    BY <1>t, <2>1, After
  <2>4. CASE There(x) \/ x \notin Usernames
    <3>1. PICK s \in {"migrate", "createTracker"} : step' = [step EXCEPT ![Boot] = s]
      BY <2>1, <2>4
    <3>2. step'[Boot] \notin {"createAccount", "findByEmail", "patchSub"}
      BY <1>t, <3>1, After
    <3>3. QED
      BY <1>t, <1>1, <3>2, NoLinkAt, LinkMoves
  <2>5. CASE ~There(x) /\ x \in Usernames
    <3>1. req'[Boot].sub = LegacyAccounts[x].sub
      BY <2>2, <2>3, <2>5, MigrationFacts
    <3>2. Untouched
      BY DEF MigrationInv, Migrating, Migrate
    <3>3. ASSUME LegacyAccounts[x].sub # None, NEW v \in Usernames, Exists(v),
                 accounts[v].sub = LegacyAccounts[x].sub
          PROVE  FALSE
      <4>1. v \in DOMAIN LegacyAccounts /\ accounts[v].sub = LegacyAccounts[v].sub
        BY <3>2, <3>3 DEF Untouched
      <4>2. v = x
        BY <2>2, <2>5, <3>3, <4>1 DEF LinkedOnce
      <4>3. QED
        BY <2>5, <3>3, <4>2 DEF There
    <3>4. LegacyAccounts[x].sub = None \/ Linked(LegacyAccounts[x].sub) = {}
      BY <3>3 DEF Linked
    <3>5. Unlinked(Boot)'
      BY <1>1, <3>1, <3>4 DEF Unlinked
    <3>6. QED
      BY <1>t, <1>1, <3>5, LinkMoves
  <2>6. QED
    BY <2>4, <2>5
<1>4. QED
  BY <1>2, <1>3

LEMMA LinkStep ==
  ASSUME FlowInv, LoopInv, Undisturbed, LinkedOnce, MigrationInv, LinkInv, [Next]_vars
  PROVE  LinkInv'
<1>t. Boot \in Processes /\ Handlers \subseteq Processes
  BY FlowTypes DEF Processes
<1>1. CASE \E p \in Processes : Call(p) \/ CutOff(p)
  <2>1. PICK p \in Processes : Call(p) \/ CutOff(p)
    BY <1>1
  <2>2. Called(p)
    BY <2>1, CallFlow, CutOffFlow
  <2>3. CASE QuietCall(p)
    <3>1. step'[p] \notin Watched /\ UNCHANGED accounts
      BY <2>3, QuietSteps
    <3>2. QED
      BY <2>2, <3>1, OneEachSame, NoLinkAt, LinkMoves DEF Watched
  <2>4. QED
    BY <2>1, <2>2, <2>3, LinkReads, LinkWrites DEF Call, QuietCall
<1>2. CASE QuietStart
  <2>1. step'[Boot] \notin Watched /\ UNCHANGED accounts
    BY <1>t, <1>2, QuietSteps
  <2>2. Called(Boot)
    BY <1>2, StartFlow DEF QuietStart
  <2>3. QED
    BY <1>t, <2>1, <2>2, OneEachSame, NoLinkAt, LinkMoves DEF Watched
<1>3. CASE Migrate
  BY <1>3, StartFlow, LinkLoop
<1>4. CASE \E h \in Handlers : Arrive(h)
  <2>1. PICK h \in Handlers : Arrive(h)
    BY <1>4
  <2>2. serving /\ Goes(h) /\ h \in Processes /\ h # Boot
    BY <2>1, ArriveFlow, FlowTypes DEF Processes
  <2>3. \A q \in Processes \ {h} : step'[q] = "idle"
    BY <2>2, StillAlone
  <2>4. PICK r \in Submitted : step' = [step EXCEPT ![h] = FirstStep(r.op)]
    BY <2>1 DEF Arrive
  <2>5. step'[h] \notin {"createAccount", "findByEmail", "patchSub"}
    BY <2>2, <2>4, After, SubmittedFacts
  <2>6. \A q \in Processes : Unlinked(q)'
    BY <2>3, <2>5 DEF Unlinked
  <2>7. OneEach'
    BY <2>1, OneEachSame DEF Arrive, stored
  <2>8. QED
    BY <2>6, <2>7 DEF LinkInv
<1>5. CASE Restart
  <2>1. \A p \in Processes : step'[p] \in {"readLegacy", "idle"}
    BY <1>5 DEF Restart
  <2>2. OneEach'
    BY <1>5, OneEachSame DEF Restart, stored
  <2>3. QED
    BY <2>1, <2>2 DEF LinkInv, Unlinked
<1>6. CASE UNCHANGED vars
  BY <1>6 DEF vars, stored, local, LinkInv, OneEach, Unlinked, Linked, Exists
<1>7. QED
  BY <1>t, <1>1, <1>2, <1>3, <1>4, <1>5, <1>6 DEF Next, StartUp, QuietStart

----------------------------------------------------------------------------
(* Theorems *)

UserInv == FlowInv /\ LoopInv /\ MigrationInv /\ PasswordInv

LEMMA UserInit ==
  ASSUME Init
  PROVE  MigrationInv /\ PasswordInv /\ LinkInv
<1>t. Boot \in Processes /\ SharedType
  BY FlowInit, FlowTypes
<1>1. step[Boot] = "readLegacy" /\ \A p \in Processes : step[p] \in {"readLegacy", "idle"}
  BY <1>t DEF Init
<1>2. ASSUME trackers = {} PROVE \A u \in Usernames : ~Exists(u)
  BY <1>2 DEF Init
<1>3. MigrationInv
  <2>1. ASSUME "secret" \in legacy PROVE Untouched
    BY <1>1, <1>2, <2>1 DEF Init, Untouched
  <2>2. QED
    BY <1>1, <2>1 DEF MigrationInv, Migrating
<1>4. PasswordInv
  BY <1>1 DEF Init, NoHashes, PasswordInv, WantedStored, HashesKnown
<1>5. OneEach
  <2>1. \A u \in Usernames : Exists(u) => u = Admin
    BY DEF Init, Exists
  <2>2. QED
    BY <2>1 DEF OneEach
<1>6. QED
  BY <1>1, <1>3, <1>4, <1>5 DEF LinkInv, Unlinked

(* With one request at a time the flow of every request, the migration and  *)
(* the hashes that are written back are what the code takes them for, in    *)
(* spite of crashes, failing calls and restarts.                            *)
THEOREM UserInvariant == ASSUME Undisturbed PROVE Spec => []UserInv
<1>1. Init => UserInv
  BY FlowInit, UserInit DEF UserInv
<1>2. UserInv /\ [Next]_vars => UserInv'
  BY FlowStep, MigrationStep, PasswordStep DEF UserInv
<1>3. QED
  BY <1>1, <1>2, PTL DEF Spec

(* One Secret holds all hashes and is rewritten as a whole, and yet each    *)
(* password stays what it was last set to (PasswordStands).                 *)
THEOREM PasswordKept == ASSUME Undisturbed PROVE Spec => []PasswordStands
<1>1. UserInv => PasswordStands
  BY DEF UserInv, PasswordInv, WantedStored, PasswordStands
<1>2. QED
  BY <1>1, UserInvariant, PTL

(* The old store is deleted only once all it holds has been carried over:   *)
(* a migration that is cut off at any call loses nothing (LegacyOutlived).  *)
THEOREM LegacyKept == ASSUME Undisturbed PROVE Spec => LegacyOutlived
<1> DEFINE Kept ==
      legacy' # legacy =>
        /\ \A u \in DOMAIN LegacyAccounts :
             /\ Exists(u) /\ LegacyAccounts[u].sub \in {None, accounts[u].sub}
             /\ LegacyAccounts[u].password \in {None, hashes[u]}
        /\ \A s \in LegacyEntries : s \in trackers \/ Linked(s) # {}
<1>1. UserInv /\ [Next]_vars => [Kept]_vars
  <2> SUFFICES ASSUME UserInv, Next, legacy' # legacy PROVE Kept
    BY DEF vars, stored
  <2>1. DeleteSecret \/ DeleteConfigMap
    <3>1. ~(\E p \in Processes : Call(p) \/ CutOff(p))
      BY LegacyStays
    <3>2. ~(ReadLegacy \/ Migrate \/ ListAny \/ ListForPrune \/ Prune)
      BY DEF ReadLegacy, Migrate, ListAny, ListForPrune, Prune, stored
    <3>3. ~(Restart \/ \E h \in Handlers : Arrive(h))
      BY DEF Restart, Arrive, stored
    <3>4. QED
      BY <3>1, <3>2, <3>3 DEF Next, StartUp, Processes
  <2>2. Migrated
    BY <2>1 DEF UserInv, MigrationInv, DeleteSecret, DeleteConfigMap, DeleteLegacy
  <2>3. QED
    BY <2>2 DEF Migrated, Carried
<1>2. QED
  BY <1>1, UserInvariant, PTL DEF Spec, LegacyOutlived

(* A subject never belongs to two accounts, if the old store had it in one  *)
(* at most (OneAccountPerSub): the lists that are read before a link are    *)
(* still right when it is written.                                          *)
THEOREM OneAccount == ASSUME Undisturbed, LinkedOnce PROVE Spec => []OneAccountPerSub
<1>1. Init => LinkInv
  BY UserInit
<1>2. UserInv /\ LinkInv /\ [Next]_vars => LinkInv'
  BY LinkStep DEF UserInv
<1>3. LinkInv => OneAccountPerSub
  <2> SUFFICES ASSUME LinkInv, NEW s \in Subs PROVE Cardinality(Linked(s)) <= 1
    BY DEF OneAccountPerSub
  <2>1. \A u, v \in Linked(s) : u = v
    BY UsersAssumption DEF LinkInv, OneEach, Linked
  <2>2. CASE Linked(s) = {}
    BY <2>2, FS_EmptySet
  <2>3. CASE Linked(s) # {}
    <3>1. PICK u : Linked(s) = {u}
      BY <2>1, <2>3
    <3>2. Cardinality({u}) = 1
      BY FS_Singleton
    <3>3. QED
      BY <3>1, <3>2
  <2>4. QED
    BY <2>2, <2>3
<1>4. QED
  BY <1>1, <1>2, <1>3, UserInvariant, PTL DEF Spec
=============================================================================
