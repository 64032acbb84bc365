---------------------------- MODULE UserAccounts ----------------------------
(***************************************************************************)
(* Who can log in: packages/api/src/auth/user-store.ts, user-passwords.ts, *)
(* migrate-legacy-users.ts and bootstrap.ts, one action per API call, as   *)
(* called by the settings and login routes and at start-up (src/index.ts). *)
(*                                                                         *)
(* User objects are local-<username>, here accounts, or oidc-<sub>, here   *)
(* trackers; all password hashes share one Secret, here hashes.  An email  *)
(* is identified with the OIDC subject whose verified email claim it is.   *)
(* Roles, permissions, groups and display names are left out.              *)
(***************************************************************************)
EXTENDS Naturals, FiniteSets

CONSTANTS
  Usernames, Subs, Passwords,
  None,
  Admin,           \* BOOTSTRAP_ADMIN_USERNAME
  AdminPassword,   \* BOOTSTRAP_ADMIN_PASSWORD
  LegacyAccounts,  \* a5e-local-accounts: username -> linkedSub, email, password
  LegacyEntries,   \* a5e-oidc-user-roles: the subjects it lists
  Handlers,        \* slots for requests in flight; one means no two overlap
  Env,             \* "undeleted": the swallowed failure to delete the legacy store
  MaxFailures,     \* bound: calls that fail or requests that are cut off
  MaxRestarts      \* bound: restarts of the serving process

Boot == "boot"     \* the start-up sequence, a process like the handlers
Processes == Handlers \cup {Boot}

Optional(S) == S \cup {None}
Accounts == [sub: Optional(Subs), email: Optional(Subs)]
LegacyAccount == [sub: Optional(Subs), email: Optional(Subs), password: Optional(Passwords)]

ASSUME UsersAssumption ==
  /\ None \notin Usernames \cup Subs \cup Passwords \cup Accounts
  /\ Usernames \cap Subs = {}
  /\ Admin \in Usernames /\ AdminPassword \in Passwords
  /\ DOMAIN LegacyAccounts \subseteq Usernames /\ LegacyEntries \subseteq Subs
  /\ LegacyAccounts \in [DOMAIN LegacyAccounts -> LegacyAccount]
  /\ Boot \notin Handlers /\ Env \subseteq {"undeleted"}
  /\ MaxFailures \in Nat /\ MaxRestarts \in Nat

VARIABLES
  accounts,   \* per username its User object, None if there is none
  trackers,   \* the subjects with an oidc-<sub> object
  hashes,     \* per username the password stored for it
  legacy,     \* the legacy objects that are left
  serving,    \* start-up is over
  step, req,  \* per process: its next call, the request it handles
  copy,       \* per process: the hashes it read
  todo,       \* what a loop of start-up has still to visit
  wanted,     \* history: the password last set on request for an account
  failures, restarts

stored == <<accounts, trackers, hashes, legacy>>
local == <<step, req, copy, todo>>
vars == <<stored, serving, local, wanted, failures, restarts>>

----------------------------------------------------------------------------
Exists(u) == accounts[u] # None

Requests == [op: {"none", "create", "promote", "login", "own", "reset", "delete", "deleteSso",
                  "migrate", "bootstrap"},
             user: Optional(Usernames), sub: Optional(Subs), email: Optional(Subs),
             current: Optional(Passwords), password: Optional(Passwords),
             twin: BOOLEAN]         \* the tracker was in the list of users it read
Request(op, user, sub, email, current, password) ==
  [op |-> op, user |-> user, sub |-> sub, email |-> email, current |-> current,
   password |-> password, twin |-> FALSE]
NoRequest == Request("none", None, None, None, None, None)

Steps == {"idle", "getTracker", "getAccount", "check", "listForLink", "createAccount",
          "readHashes", "writeHashes", "dropTwin", "deleteAccount", "deleteSso",
          "findBySub", "findByEmail", "patchSub", "track", "refreshTracker", "createTracker",
          "readLegacy", "migrate", "deleteSecret", "deleteConfigMap",
          "listAny", "listForPrune", "prune"}

TypeOK ==
  /\ accounts \in [Usernames -> Accounts \cup {None}]
  /\ trackers \subseteq Subs
  /\ hashes \in [Usernames -> Optional(Passwords)]
  /\ legacy \subseteq {"secret", "configMap"}
  /\ serving \in BOOLEAN
  /\ step \in [Processes -> Steps]
  /\ req \in [Processes -> Requests]
  /\ copy \in [Processes -> [Usernames -> Optional(Passwords)]]
  /\ todo \subseteq Usernames \cup Subs
  /\ wanted \in [Usernames -> Optional(Passwords)]
  /\ failures \in 0..MaxFailures /\ restarts \in 0..MaxRestarts

NoHashes == [u \in Usernames |-> None]

(* A fresh install, one that still has the legacy store, or one from before *)
(* linking removed trackers.                                                *)
Init ==
  /\ accounts \in {[u \in Usernames |-> None]} \cup
       {[u \in Usernames |-> IF u = Admin THEN [sub |-> s, email |-> s] ELSE None] : s \in Subs}
  /\ hashes = [u \in Usernames |-> IF Exists(u) THEN AdminPassword ELSE None]
  /\ trackers = {accounts[u].sub : u \in {v \in Usernames : Exists(v)}}
  /\ legacy \in {{}, {"secret", "configMap"}} /\ (legacy # {} => trackers = {})
  /\ serving = FALSE
  /\ step = [p \in Processes |-> IF p = Boot THEN "readLegacy" ELSE "idle"]
  /\ req = [p \in Processes |-> NoRequest]
  /\ copy = [p \in Processes |-> NoHashes]
  /\ todo = {}
  /\ wanted = NoHashes
  /\ failures = 0 /\ restarts = 0

----------------------------------------------------------------------------
(* Requests and calls *)

(* What the routes let through.  Administrators and users may act on what   *)
(* they saw a while ago.                                                    *)
Submitted ==
  ({Request("create", u, None, e, None, pw) :
      u \in Usernames, e \in Optional(Subs), pw \in Optional(Passwords)}
     \ {Request("create", u, None, None, None, None) : u \in Usernames})
  \cup {Request("promote", u, s, None, None, pw) :
          u \in Usernames, s \in Subs, pw \in Optional(Passwords)}
  \cup {Request("login", None, s, e, None, None) :
          s \in Subs, e \in Optional(Subs)}      \* email: None unless verified
  \cup {Request("own", u, None, None, c, pw) :
          u \in Usernames, c \in Optional(Passwords), pw \in Passwords}
  \cup {Request("reset", u, None, None, None, pw) : u \in Usernames, pw \in Passwords}
  \cup {Request("delete", u, None, None, None, None) : u \in Usernames}
  \cup {Request("deleteSso", None, s, None, None, None) : s \in Subs}

FirstStep(op) ==
  CASE op \in {"create", "own"} -> "getAccount"
    [] op = "promote"   -> "getTracker"
    [] op = "login"     -> "findBySub"
    [] op = "reset"     -> "readHashes"
    [] op = "delete"    -> "deleteAccount"
    [] op = "deleteSso" -> "deleteSso"

Arrive(h) ==
  /\ serving /\ step[h] = "idle"
  /\ \E r \in Submitted :
       /\ r.op = "login" => r.email \in {None, r.sub}
       /\ req' = [req EXCEPT ![h] = r]
       /\ step' = [step EXCEPT ![h] = FirstStep(r.op)]
  /\ UNCHANGED <<stored, serving, copy, todo, wanted, failures, restarts>>

Goto(p, s) == step' = [step EXCEPT ![p] = s] /\ UNCHANGED <<req, copy, todo, serving>>

(* A request is answered.  Start-up that throws ends the process, which is  *)
(* started again.                                                           *)
Ends(p) ==
  /\ step' = [step EXCEPT ![p] = IF p = Boot THEN "readLegacy" ELSE "idle"]
  /\ req' = [req EXCEPT ![p] = NoRequest]
  /\ copy' = [copy EXCEPT ![p] = NoHashes]
  /\ todo' = IF p = Boot THEN {} ELSE todo
  /\ UNCHANGED serving

Serve ==
  /\ serving' = TRUE
  /\ step' = [step EXCEPT ![Boot] = "idle"]
  /\ req' = [req EXCEPT ![Boot] = NoRequest]
  /\ copy' = [copy EXCEPT ![Boot] = NoHashes]
  /\ todo' = {}

Fails == failures < MaxFailures /\ failures' = failures + 1

(* A call throws, its answer is lost, or the process dies: what was done    *)
(* before stays done.                                                       *)
CutOff(p) ==
  /\ step[p] # "idle" /\ Fails /\ Ends(p)
  /\ UNCHANGED <<stored, wanted, restarts>>

Restart ==
  /\ serving /\ restarts < MaxRestarts /\ restarts' = restarts + 1
  /\ serving' = FALSE
  /\ step' = [p \in Processes |-> IF p = Boot THEN "readLegacy" ELSE "idle"]
  /\ req' = [p \in Processes |-> NoRequest]
  /\ copy' = [p \in Processes |-> NoHashes]
  /\ UNCHANGED <<stored, todo, wanted, failures>>

rest == <<wanted, failures, restarts>>

----------------------------------------------------------------------------
(* user-store.ts: accounts *)

(* The account is linked to s. *)
Linked(s) == {u \in Usernames : Exists(u) /\ accounts[u].sub = s}

(* updateUser: a promotion takes the tracker's email along. *)
GetTracker(p) ==
  /\ step[p] = "getTracker"
  /\ req' = [req EXCEPT ![p].email = IF req[p].sub \in trackers THEN req[p].sub ELSE None]
  /\ step' = [step EXCEPT ![p] = "getAccount"]
  /\ UNCHANGED <<stored, serving, copy, todo, rest>>

(* The check before the create, or before the caller's own password. *)
GetAccount(p) ==
  /\ step[p] = "getAccount"
  /\ LET op == req[p].op IN
     \/ op = "own" /\ Exists(req[p].user) /\ Goto(p, "check")
     \/ op = "promote" /\ ~Exists(req[p].user) /\ Goto(p, "listForLink")
     \/ op \in {"create", "bootstrap"} /\ ~Exists(req[p].user) /\ Goto(p, "createAccount")
     \/ (op = "own") # Exists(req[p].user) /\ Ends(p)
  /\ UNCHANGED <<stored, rest>>

ListForLinkUnchecked(p) ==       \* mutant: the subject may be linked already
  /\ step[p] = "listForLink"
  /\ req' = [req EXCEPT ![p].twin = req[p].sub \in trackers]
  /\ step' = [step EXCEPT ![p] = "createAccount"] /\ UNCHANGED <<serving, copy, todo>>
  /\ UNCHANGED <<stored, rest>>

ListForLink(p) ==
  /\ step[p] = "listForLink"
  /\ \/ Linked(req[p].sub) # {} /\ Ends(p)
     \/ /\ Linked(req[p].sub) = {}
        /\ req' = [req EXCEPT ![p].twin = req[p].sub \in trackers]
        /\ step' = [step EXCEPT ![p] = "createAccount"] /\ UNCHANGED <<serving, copy, todo>>
  /\ UNCHANGED <<stored, rest>>

(* Where an operation goes on once the account and its hash are written. *)
AfterHashes(r) ==
  CASE r.op = "promote" /\ r.twin -> "dropTwin"
    [] r.op = "migrate"   -> "deleteSecret"
    [] r.op = "bootstrap" -> "listForPrune"
    [] OTHER -> "end"

Proceed(p, s) == IF s = "end" THEN Ends(p) ELSE Goto(p, s)

CreateAccount(p) ==
  /\ step[p] = "createAccount"
  /\ LET r == req[p] IN
     \/ Exists(r.user) /\ Ends(p) /\ UNCHANGED accounts
     \/ /\ ~Exists(r.user)
        /\ accounts' = [accounts EXCEPT ![r.user] = [sub |-> r.sub, email |-> r.email]]
        /\ Proceed(p, IF r.op = "migrate" THEN "migrate"
                      ELSE IF r.password # None THEN "readHashes" ELSE AfterHashes(r))
  /\ UNCHANGED <<trackers, hashes, legacy, rest>>

DeleteAccount(p) ==
  /\ step[p] = "deleteAccount"
  /\ accounts' = [accounts EXCEPT ![req[p].user] = None]
  /\ wanted' = [wanted EXCEPT ![req[p].user] = None]
  /\ Goto(p, "readHashes")
  /\ UNCHANGED <<trackers, hashes, legacy, failures, restarts>>

DeleteSso(p) ==
  /\ step[p] = "deleteSso"
  /\ trackers' = trackers \ {req[p].sub} /\ Ends(p)
  /\ UNCHANGED <<accounts, hashes, legacy, rest>>

----------------------------------------------------------------------------
(* user-passwords.ts *)

(* changeOwnPassword: the two reads of the Secret before the change. *)
CheckPassword(p) ==
  /\ step[p] = "check"
  /\ Proceed(p, IF hashes[req[p].user] \in {None, req[p].current} THEN "readHashes" ELSE "end")
  /\ UNCHANGED <<stored, rest>>

ReadHashes(p) ==
  /\ step[p] = "readHashes"
  /\ \/ req[p].op = "delete" /\ hashes[req[p].user] = None /\ Ends(p)
     \/ /\ req[p].op = "delete" => hashes[req[p].user] # None
        /\ copy' = [copy EXCEPT ![p] = hashes]
        /\ step' = [step EXCEPT ![p] = "writeHashes"]
        /\ UNCHANGED <<serving, req, todo>>
  /\ UNCHANGED <<stored, rest>>

NewHashesAlone(p) == [u \in Usernames |-> IF u = req[p].user THEN req[p].password ELSE None]

(* The whole map is written back, without a resourceVersion. *)
NewHashes(p) ==
  IF req[p].op = "migrate"
  THEN [u \in Usernames |-> IF u \in DOMAIN LegacyAccounts /\ LegacyAccounts[u].password # None
                            THEN LegacyAccounts[u].password ELSE copy[p][u]]
  ELSE [copy[p] EXCEPT ![req[p].user] = req[p].password]   \* None for a deleted one

WriteHashes(p) ==
  /\ step[p] = "writeHashes"
  /\ hashes' = NewHashes(p)
  /\ wanted' = IF p # Boot /\ Exists(req[p].user)
               THEN [wanted EXCEPT ![req[p].user] = req[p].password] ELSE wanted
  /\ Proceed(p, AfterHashes(req[p]))
  /\ UNCHANGED <<accounts, trackers, legacy, failures, restarts>>

----------------------------------------------------------------------------
(* user-store.ts: a login through OIDC *)

(* deleteTrackerFrom: what the list showed is deleted. *)
DropTwin(p) ==
  /\ step[p] = "dropTwin"
  /\ trackers' = trackers \ {req[p].sub} /\ Ends(p)
  /\ UNCHANGED <<accounts, hashes, legacy, rest>>

FindBySub(p) ==
  /\ step[p] = "findBySub"
  /\ LET s == req[p].sub IN
     Proceed(p, CASE Linked(s) # {} /\ s \in trackers -> "dropTwin"
                  [] Linked(s) # {} /\ s \notin trackers -> "end"
                  [] Linked(s) = {} -> IF req[p].email = None THEN "track" ELSE "findByEmail")
  /\ UNCHANGED <<stored, rest>>

(* linkAccountToSub: the first account with the email decides.              *)
FindByEmail(p) ==
  /\ step[p] = "findByEmail"
  /\ LET s == req[p].sub
         matches == {u \in Usernames : Exists(u) /\ accounts[u].email = req[p].email} IN
     \/ matches = {} /\ Goto(p, "track")
     \/ \E u \in matches :
          \/ accounts[u].sub = s /\ Ends(p)
          \/ accounts[u].sub \notin {s, None} /\ Goto(p, "track")
          \/ /\ accounts[u].sub = None
             /\ req' = [req EXCEPT ![p].user = u, ![p].twin = s \in trackers]
             /\ step' = [step EXCEPT ![p] = "patchSub"] /\ UNCHANGED <<serving, copy, todo>>
  /\ UNCHANGED <<stored, rest>>

PatchSub(p) ==
  /\ step[p] = "patchSub"
  /\ \/ ~Exists(req[p].user) /\ Ends(p) /\ UNCHANGED accounts
     \/ /\ Exists(req[p].user)
        /\ accounts' = [accounts EXCEPT ![req[p].user].sub = req[p].sub]
        /\ Proceed(p, IF req[p].twin THEN "dropTwin" ELSE "end")
  /\ UNCHANGED <<trackers, hashes, legacy, rest>>

(* trackOidcLogin.  The list of usernames that claimUsername reads is only  *)
(* a call more: the name it picks is for display.                           *)
Track(p) ==
  /\ step[p] = "track"
  /\ Goto(p, IF req[p].sub \in trackers THEN "refreshTracker" ELSE "createTracker")
  /\ UNCHANGED <<stored, rest>>

RefreshTracker(p) == step[p] = "refreshTracker" /\ Ends(p) /\ UNCHANGED <<stored, rest>>

CreateTracker(p) ==
  /\ step[p] = "createTracker"
  /\ trackers' = trackers \cup {req[p].sub}
  /\ IF req[p].op = "migrate" /\ req[p].sub \notin trackers THEN Goto(p, "migrate") ELSE Ends(p)
  /\ UNCHANGED <<accounts, hashes, legacy, rest>>

----------------------------------------------------------------------------
(* index.ts: migration, bootstrap, pruning *)

EmailInLegacy == {LegacyAccounts[u].email : u \in DOMAIN LegacyAccounts}  \* mutant

LinkedInLegacy == {LegacyAccounts[u].sub : u \in DOMAIN LegacyAccounts}

(* The two legacy objects are read; a fresh or migrated install has none. *)
ReadLegacy ==
  /\ step[Boot] = "readLegacy"
  /\ \/ "secret" \notin legacy /\ Goto(Boot, "listAny")
     \/ /\ "secret" \in legacy
        /\ todo' = DOMAIN LegacyAccounts \cup
             (IF "configMap" \in legacy THEN LegacyEntries \ LinkedInLegacy ELSE {})
        /\ step' = [step EXCEPT ![Boot] = "migrate"]
        /\ UNCHANGED <<serving, req, copy>>
  /\ UNCHANGED <<stored, rest>>

MigrationRequest(x) ==
  IF x \in Usernames
  THEN [NoRequest EXCEPT !.op = "migrate", !.user = x, !.sub = LegacyAccounts[x].sub,
                         !.email = LegacyAccounts[x].email]
  ELSE [NoRequest EXCEPT !.op = "migrate", !.sub = x]

ThereBlind(x) == FALSE           \* mutant: createUserCR without the check

There(x) == IF x \in Usernames THEN Exists(x) ELSE x \in trackers

(* createUserCRIfAbsent for the next account, and then the next entry. *)
Migrate ==
  /\ step[Boot] = "migrate"
  /\ \/ /\ todo = {}
        /\ req' = [req EXCEPT ![Boot] = [NoRequest EXCEPT !.op = "migrate"]]
        /\ step' = [step EXCEPT ![Boot] =
             IF \E u \in DOMAIN LegacyAccounts : LegacyAccounts[u].password # None
             THEN "readHashes" ELSE "deleteSecret"]
        /\ UNCHANGED todo
     \/ \E x \in todo :
          /\ todo \cap Usernames # {} => x \in Usernames
          /\ todo' = todo \ {x}
          /\ req' = [req EXCEPT ![Boot] = MigrationRequest(x)]
          /\ step' = [step EXCEPT ![Boot] =
               CASE There(x) -> "migrate"
                 [] ~There(x) -> IF x \in Usernames THEN "createAccount" ELSE "createTracker"]
  /\ UNCHANGED <<stored, serving, copy, rest>>

(* Failures of the two deletes are swallowed. *)
DeleteLegacy(object, here, then) ==
  /\ step[Boot] = here /\ Goto(Boot, then)
  /\ \/ legacy' = legacy \ {object} /\ UNCHANGED failures
     \/ "undeleted" \in Env /\ Fails /\ UNCHANGED legacy
  /\ UNCHANGED <<accounts, trackers, hashes, wanted, restarts>>

DeleteSecret == DeleteLegacy("secret", "deleteSecret", "deleteConfigMap")
DeleteConfigMap == DeleteLegacy("configMap", "deleteConfigMap", "listAny")

(* bootstrapAdminAccount: a list that fails counts as empty. *)
ListAny ==
  /\ step[Boot] = "listAny"
  /\ \/ /\ \E u \in Usernames : Exists(u)
        /\ Goto(Boot, "listForPrune") /\ UNCHANGED failures
     \/ /\ \/ (\A u \in Usernames : ~Exists(u)) /\ UNCHANGED failures
           \/ Fails
        /\ req' = [req EXCEPT ![Boot] = [NoRequest EXCEPT !.op = "bootstrap", !.user = Admin,
                                                          !.password = AdminPassword]]
        /\ step' = [step EXCEPT ![Boot] = "getAccount"]
        /\ UNCHANGED <<serving, copy, todo>>
  /\ UNCHANGED <<stored, wanted, restarts>>

Superseded == {s \in trackers : Linked(s) # {}}

(* pruneSupersededOidcIdentities; a failure is logged and start-up goes on. *)
ListForPrune ==
  /\ step[Boot] = "listForPrune"
  /\ \/ Superseded = {} /\ Serve /\ UNCHANGED failures
     \/ Fails /\ Serve
     \/ /\ Superseded # {} /\ todo' = Superseded
        /\ step' = [step EXCEPT ![Boot] = "prune"] /\ UNCHANGED <<serving, req, copy, failures>>
  /\ UNCHANGED <<stored, wanted, restarts>>

Prune ==
  /\ step[Boot] = "prune"
  /\ \/ \E s \in todo :
          /\ trackers' = trackers \ {s}
          /\ IF todo = {s} THEN Serve
             ELSE todo' = todo \ {s} /\ UNCHANGED <<serving, step, req, copy>>
          /\ UNCHANGED failures
     \/ Fails /\ Serve /\ UNCHANGED trackers
  /\ UNCHANGED <<accounts, hashes, legacy, wanted, restarts>>

----------------------------------------------------------------------------
Call(p) ==
  \/ GetTracker(p) \/ GetAccount(p) \/ ListForLink(p) \/ CreateAccount(p)
  \/ DeleteAccount(p) \/ DeleteSso(p) \/ CheckPassword(p) \/ ReadHashes(p) \/ WriteHashes(p)
  \/ DropTwin(p) \/ FindBySub(p) \/ FindByEmail(p) \/ PatchSub(p)
  \/ Track(p) \/ RefreshTracker(p) \/ CreateTracker(p)

StartUp ==
  \/ ReadLegacy \/ Migrate \/ DeleteSecret \/ DeleteConfigMap
  \/ ListAny \/ ListForPrune \/ Prune \/ Call(Boot)

Next ==
  \/ StartUp \/ Restart \/ CutOff(Boot)
  \/ \E h \in Handlers : Arrive(h) \/ Call(h) \/ CutOff(h)

Spec == Init /\ [][Next]_vars

(* A process that is started runs, and its calls are answered. *)
FairSpec == Spec /\ WF_vars(StartUp)

----------------------------------------------------------------------------
(* Properties *)

(* routes.ts: "one RBAC identity regardless of which login method was       *)
(* used": whatever is cut off, linked or promoted, a subject never belongs  *)
(* to two local accounts.                                                   *)
OneAccountPerSub == \A s \in Subs : Cardinality(Linked(s)) <= 1

(* user-passwords.ts: one Secret holds all hashes, and still each password  *)
(* stays what it was last set to, whatever is done to other accounts and    *)
(* however often the process starts.                                        *)
PasswordStands ==
  \A u \in Usernames : Exists(u) /\ wanted[u] # None => hashes[u] = wanted[u]

(* migrate-legacy-users.ts deletes the old store "once every account has a  *)
(* corresponding User CR", with its link and its password: no crash or      *)
(* failing call loses an account.                                           *)
LegacyOutlived ==
  [][legacy' # legacy =>
       /\ \A u \in DOMAIN LegacyAccounts :
            /\ Exists(u) /\ LegacyAccounts[u].sub \in {None, accounts[u].sub}
            /\ LegacyAccounts[u].password \in {None, hashes[u]}
       /\ \A s \in LegacyEntries : s \in trackers \/ Linked(s) # {}]_vars

(* "a retry after a partial failure (pod restart mid-migration, ...) just   *)
(* picks up where it left off rather than erroring": start-up completes.    *)
BootFinishes == <>[]serving
=============================================================================
