------------------------------ MODULE LoginFlow ------------------------------
(***************************************************************************)
(* Signing in and out: packages/api/src/auth/routes.ts with session-store, *)
(* oidc, authorize and roles, and the browser's side of it in packages/ui: *)
(* the router's guard, stores/auth.ts, AuthCallbackView and LoginView.     *)
(*                                                                         *)
(* Tabs of one browser share its cookie and its local storage; each keeps  *)
(* the token it loaded and the session it last saw.  What a login does to  *)
(* the users' objects is the module UserAccounts; here it finds one or     *)
(* makes one without a role.                                               *)
(***************************************************************************)
EXTENDS Naturals, FiniteSets

CONSTANTS
  Tabs, Browsers, Subs, Issuers, Absent,
  FirstConfig,  \* the identity provider configured at first, or Absent
  Places,       \* the ways tabs may be distributed over browsers
  FirstRoles,   \* the roles users may have at first; "gone": there is no such user
  MaxIssued,    \* bound: states and session tokens that are generated
  MaxMoves,     \* bound: what users and administrators do beside signing in
  MaxFaults     \* bound: restarts and failing calls

ASSUME LoginAssumption ==
  /\ FirstConfig \in Issuers \cup {Absent}
  /\ Places \subseteq [Tabs -> Browsers]
  /\ FirstRoles \subseteq [Subs -> {"gone", "none", "user", "admin"}]
  /\ Absent \notin Browsers \cup Subs \cup Issuers \cup Nat
  /\ MaxIssued \in Nat /\ MaxMoves \in Nat /\ MaxFaults \in Nat

VARIABLES
  browser,      \* the browser a tab belongs to
  tabs,
  cookie,       \* per browser: oidc_state
  stored,       \* per browser: the token in local storage
  config,       \* the identity provider that is configured, or Absent
  role,         \* per subject: the role of its user, "gone" without one
  pending,      \* pendingLogins: the states that can still be redeemed
  sessions,     \* the tokens that are good
  minted,       \* history: per token whose it is, and which browser set out for it
  begun,        \* history: per state the browser that set out with it
  spent,        \* the identity provider's codes that were redeemed
  moves, faults

serverVars == <<config, role, pending, sessions, minted, begun, spent>>
browserVars == <<browser, cookie, stored>>
loginVars == <<browserVars, tabs, serverVars, moves, faults>>

----------------------------------------------------------------------------
NoSession == [sub |-> Absent, role |-> "none"]
NoCode == [state |-> Absent, issuer |-> Absent, sub |-> Absent]

Issued == Cardinality(DOMAIN minted) + Cardinality(DOMAIN begun)
NextId == Issued + 1

(* A page load takes the token out of local storage and knows no session.   *)
(* "link" is the last callback link the tab was sent to.                    *)
Loaded(token, route, fragment, notice, link) ==
  [at |-> "routing", route |-> route, token |-> token, session |-> NoSession, checked |-> FALSE,
   fragment |-> fragment, notice |-> notice, link |-> link, issuer |-> Absent]

(* One session may be left from before, of any role.                        *)
LoginInit ==
  /\ browser \in Places /\ role \in FirstRoles
  /\ \E b \in {browser[t] : t \in Tabs} \cup {Absent}, s \in Subs :
       /\ role[s] # "gone"
       /\ stored = [c \in Browsers |-> IF c = b THEN 1 ELSE Absent]
       /\ minted = [n \in IF b = Absent THEN {} ELSE {1} |-> [sub |-> s, browser |-> b]]
  /\ sessions = DOMAIN minted
  /\ tabs = [t \in Tabs |-> Loaded(stored[browser[t]], "dashboard", Absent, "none", NoCode)]
  /\ cookie = [b \in Browsers |-> Absent]
  /\ config = FirstConfig /\ pending = {} /\ begun = <<>> /\ spent = {}
  /\ moves = 0 /\ faults = 0

Move == moves < MaxMoves /\ moves' = moves + 1
Fault == faults < MaxFaults /\ faults' = faults + 1

Become(t, tab) == tabs' = [tabs EXCEPT ![t] = tab]
Load(t, token, route, notice) == Become(t, Loaded(token, route, Absent, notice, tabs[t].link))

----------------------------------------------------------------------------
(* The guard of the router. *)

RoleOf(sub) == IF role[sub] = "gone" THEN "none" ELSE role[sub]

(* whoami: the session of a token, with the role its user has by now.       *)
Who(token) ==
  IF token \in sessions
  THEN [sub |-> minted[token].sub, role |-> RoleOf(minted[token].sub)] ELSE NoSession

HasSession(tab) == tab.session.sub # Absent
HasAccess(tab) == tab.session.role # "none"

PublicLogin == {"login"}             \* mutant: /auth/callback needs a session
Public == {"login", "auth-callback"}

Redirect(tab) ==
  IF tab.route \notin Public /\ ~HasSession(tab) THEN "login"
  ELSE IF tab.route \notin {"no-access", "account"} /\ HasSession(tab) /\ ~HasAccess(tab)
  THEN "no-access"
  ELSE IF tab.route = "settings" /\ tab.session.role # "admin" THEN "dashboard" ELSE tab.route

(* The first time, whoami is asked; a call that fails shows no session.     *)
Guard(t) ==
  /\ tabs[t].at = "routing"
  /\ \E s \in IF tabs[t].checked THEN {tabs[t].session} ELSE {Who(tabs[t].token), NoSession} :
       LET known == [tabs[t] EXCEPT !.at = "shown", !.session = s, !.checked = TRUE]
           to == Redirect(known)
       IN /\ IF tabs[t].checked \/ s = Who(tabs[t].token) THEN UNCHANGED faults ELSE Fault
          /\ Become(t, [known EXCEPT !.route = to, !.notice = IF to = "login" THEN @ ELSE "none"])
  /\ UNCHANGED <<browserVars, serverVars, moves>>

Shown(t, route) == tabs[t].at = "shown" /\ tabs[t].route = route

Navigate(t) ==
  /\ Move
  /\ tabs[t].at = "shown" /\ tabs[t].route # "auth-callback"
  /\ \E to \in {"dashboard", "account", "settings"} \ {tabs[t].route} :
       Become(t, [tabs[t] EXCEPT !.at = "routing", !.route = to, !.notice = "none"])
  /\ UNCHANGED <<browserVars, serverVars, faults>>

(* The page is reloaded, or the app opened from wherever the tab is.        *)
LoadAgain(t) ==
  /\ Move
  /\ tabs[t].at \in {"idp", "raw"} \/ (tabs[t].at = "shown" /\ tabs[t].route # "auth-callback")
  /\ Load(t, stored[browser[t]], "dashboard", "none")
  /\ UNCHANGED <<browserVars, serverVars, faults>>

----------------------------------------------------------------------------
(* Signing in at the identity provider. *)

(* redirectToLoginWithError: the app is loaded again, with a message.       *)
LoginError(t, message) == Load(t, stored[browser[t]], "login", message)

(* resolveOidcConfig: settings that cannot be read count for none.          *)
Unconfigured == IF config = Absent THEN UNCHANGED faults ELSE Fault

(* The button LoginView shows leaves the app, for a provider or an error.   *)
(* The state is put down twice, in a cookie and in memory.  Discovery is    *)
(* not in the try block: where it fails, the browser is left with an error. *)
Login(t) ==
  /\ Shown(t, "login") /\ Issued + 2 <= MaxIssued
  /\ \/ /\ Unconfigured /\ LoginError(t, "not configured")
        /\ UNCHANGED <<cookie, pending, begun>>
     \/ /\ config # Absent
        /\ begun' = [n \in DOMAIN begun \cup {NextId} |->
                       IF n = NextId THEN browser[t] ELSE begun[n]]
        /\ pending' = pending \cup {NextId}
        /\ cookie' = [cookie EXCEPT ![browser[t]] = NextId]
        /\ \/ /\ Become(t, [tabs[t] EXCEPT !.at = "idp", !.issuer = config,
                                           !.link = [NoCode EXCEPT !.state = NextId]])
              /\ UNCHANGED faults
           \/ Fault /\ Become(t, [tabs[t] EXCEPT !.at = "raw"])
  /\ UNCHANGED <<browser, stored, config, role, sessions, minted, spent, moves>>

(* Who has signed in there is sent back with a code; who declined, without. *)
Authenticate(t) ==
  /\ tabs[t].at = "idp"
  /\ \E s \in Subs \cup {Absent} :
       Become(t, [tabs[t] EXCEPT !.at = "return", !.link.sub = s,
                                 !.link.issuer = IF s = Absent THEN Absent ELSE tabs[t].issuer])
  /\ UNCHANGED <<browserVars, serverVars, moves, faults>>

(* A callback link is opened once more, in its tab or in another.           *)
Revisit(t) ==
  /\ Move
  /\ tabs[t].at = "shown" /\ tabs[t].route # "auth-callback"
  /\ \E u \in Tabs : /\ tabs[u].link.sub # Absent
                     /\ Become(t, [tabs[t] EXCEPT !.at = "return", !.link = tabs[u].link])
  /\ UNCHANGED <<browserVars, serverVars, faults>>

Redeem(t) ==                         \* consumePendingLogin
  LET state == tabs[t].link.state IN
  /\ pending' = pending \ {state}
  /\ \/ state \notin pending /\ LoginError(t, "expired")
     \/ state \in pending
          /\ Become(t, [tabs[t] EXCEPT !.at = "exchange", !.issuer = config])

CallbackAnyBrowser(t) ==             \* mutant: the cookie is not compared
  /\ tabs[t].at = "return"
  /\ \/ /\ Unconfigured \/ (tabs[t].link.sub = Absent /\ UNCHANGED faults)
        /\ LoginError(t, "no code") /\ UNCHANGED <<cookie, pending>>
     \/ /\ config # Absent /\ tabs[t].link.sub # Absent /\ UNCHANGED faults
        /\ cookie' = [cookie EXCEPT ![browser[t]] = Absent] /\ Redeem(t)
  /\ UNCHANGED <<browser, stored, config, role, sessions, minted, begun, spent, moves>>

(* /callback up to its first await: the state has to be the cookie's, which *)
(* is removed either way, and one that was not redeemed.                    *)
Callback(t) ==
  /\ tabs[t].at = "return"
  /\ \/ /\ Unconfigured \/ (tabs[t].link.sub = Absent /\ UNCHANGED faults)
        /\ LoginError(t, "no code") /\ UNCHANGED <<cookie, pending>>
     \/ /\ config # Absent /\ tabs[t].link.sub # Absent /\ UNCHANGED faults
        /\ cookie' = [cookie EXCEPT ![browser[t]] = Absent]
        /\ \/ cookie[browser[t]] # tabs[t].link.state
                /\ LoginError(t, "other browser") /\ UNCHANGED pending
           \/ cookie[browser[t]] = tabs[t].link.state /\ Redeem(t)
  /\ UNCHANGED <<browser, stored, config, role, sessions, minted, begun, spent, moves>>

Mint(s, b) ==
  /\ minted' = [n \in DOMAIN minted \cup {NextId} |->
                  IF n = NextId THEN [sub |-> s, browser |-> b] ELSE minted[n]]
  /\ sessions' = sessions \cup {NextId}

(* A code is good once, with the provider that gave it.                     *)
Accepted(tab) == tab.link.issuer = tab.issuer /\ tab.link.state \notin spent

(* The code is redeemed, the subject found or noted (findAccountBySub,      *)
(* linkAccountToSub, trackOidcLogin), and the app loaded with the token in  *)
(* its fragment.                                                            *)
Exchange(t) ==
  /\ tabs[t].at = "exchange"
  /\ LET link == tabs[t].link
     IN \/ /\ Accepted(tabs[t])
           /\ Mint(link.sub, begun[link.state])
           /\ spent' = spent \cup {link.state}
           /\ role' = [role EXCEPT ![link.sub] = IF @ = "gone" THEN "none" ELSE @]
           /\ Become(t, Loaded(stored[browser[t]], "auth-callback", NextId, "none", link))
           /\ UNCHANGED faults
        \/ /\ IF Accepted(tabs[t]) THEN Fault ELSE UNCHANGED faults
           /\ LoginError(t, "failed") /\ UNCHANGED <<minted, sessions, spent, role>>
  /\ UNCHANGED <<browserVars, config, pending, begun, moves>>

(* AuthCallbackView, and what localLogin does once it has its token.        *)
SetToken(t) ==
  /\ Shown(t, "auth-callback")
  /\ stored' = [stored EXCEPT ![browser[t]] = tabs[t].fragment]
  /\ Become(t, [tabs[t] EXCEPT !.at = "checking", !.token = tabs[t].fragment])
  /\ UNCHANGED <<browser, cookie, serverVars, moves, faults>>

Checked(t) ==
  /\ tabs[t].at = "checking"
  /\ \E s \in {Who(tabs[t].token), NoSession} :
       /\ IF s = Who(tabs[t].token) THEN UNCHANGED faults ELSE Fault
       /\ Become(t, [tabs[t] EXCEPT !.session = s, !.checked = TRUE, !.at = "routing",
            !.route = IF s = NoSession /\ @ = "auth-callback" THEN "login" ELSE "dashboard",
            !.notice = IF s = NoSession /\ tabs[t].route = "auth-callback"
                       THEN "no session" ELSE "none"])
  /\ UNCHANGED <<browserVars, serverVars, moves>>

LocalLogin(t) ==
  /\ Shown(t, "login") /\ Issued < MaxIssued
  /\ \E s \in Subs :
       /\ role[s] # "gone" /\ Mint(s, browser[t])
       /\ stored' = [stored EXCEPT ![browser[t]] = NextId]
       /\ Become(t, [tabs[t] EXCEPT !.at = "checking", !.token = NextId])
  /\ UNCHANGED <<browser, cookie, config, role, pending, begun, spent, moves, faults>>

Forget(token) == sessions' = sessions \ {token}

(* Whether or not the API hears of it, the browser forgets its token.       *)
Logout(t) ==
  /\ Move
  /\ tabs[t].at = "shown" /\ tabs[t].route \notin Public
  /\ \/ Forget(tabs[t].token) /\ UNCHANGED faults
     \/ Fault /\ UNCHANGED sessions
  /\ stored' = [stored EXCEPT ![browser[t]] = Absent]
  /\ Load(t, Absent, "login", "none")
  /\ UNCHANGED <<browser, cookie, config, role, pending, minted, begun, spent>>

----------------------------------------------------------------------------
(* What happens meanwhile. *)

(* Five minutes are over, for the API or for the cookie.                    *)
Expire ==
  /\ Move
  /\ \/ \E state \in pending : pending' = pending \ {state} /\ UNCHANGED cookie
     \/ \E b \in Browsers : /\ cookie[b] # Absent /\ cookie' = [cookie EXCEPT ![b] = Absent]
                            /\ UNCHANGED pending
  /\ UNCHANGED <<browser, stored, tabs, config, role, sessions, minted, begun, spent, faults>>

(* An administrator edits the settings (authorize asks for the role of now).*)
Administer ==
  /\ Move
  /\ \/ \E c \in Issuers \ {config} : config' = c /\ UNCHANGED role
     \/ \E s \in Subs, r \in {"gone", "none", "user", "admin"} :
          role[s] \notin {r, "gone"} /\ role' = [role EXCEPT ![s] = r] /\ UNCHANGED config
  /\ UNCHANGED <<browserVars, tabs, pending, sessions, minted, begun, spent, faults>>

(* Sessions and pending logins are only in memory.                          *)
Restart ==
  /\ Fault /\ pending' = {} /\ sessions' = {}
  /\ tabs' = [t \in Tabs |-> IF tabs[t].at = "exchange"
                             THEN [tabs[t] EXCEPT !.at = "raw"] ELSE tabs[t]]
  /\ UNCHANGED <<browserVars, config, role, minted, begun, spent, moves>>

Proceed(t) ==
  Guard(t) \/ Callback(t) \/ Exchange(t) \/ SetToken(t) \/ Checked(t)

LoginNext ==
  \/ \E t \in Tabs : \/ Proceed(t) \/ Navigate(t) \/ LoadAgain(t) \/ Login(t) \/ Authenticate(t)
                     \/ Revisit(t) \/ LocalLogin(t) \/ Logout(t)
  \/ Expire \/ Administer \/ Restart

LoginSpec == LoginInit /\ [][LoginNext]_loginVars

(* Requests are answered, pages run; nobody needs to sign in.               *)
FairLogin == LoginSpec /\ \A t \in Tabs : WF_loginVars(Proceed(t))

----------------------------------------------------------------------------
(* Properties *)

(* routes.ts: a state is good for the browser that started the flow only.   *)
(* So a browser holds only tokens of logins it set out for, whichever tab a *)
(* callback arrives in; and who a page says is signed in is whose token it  *)
(* sends.                                                                   *)
LoginStaysInBrowser ==
  /\ \A b \in Browsers : stored[b] # Absent => minted[stored[b]].browser = b
  /\ \A t \in Tabs : tabs[t].at = "shown" /\ HasSession(tabs[t]) =>
       /\ tabs[t].token # Absent
       /\ tabs[t].session.sub = minted[tabs[t].token].sub

(* routes.ts: the answer to a callback "has to be a redirect back into the  *)
(* app": whatever it meets (another tab's login, a restart, new settings),  *)
(* the tab ends up signed in as who came back, or with a message, or on an  *)
(* error page when the API went away; or it learns that the session it had  *)
(* before has no access.                                                    *)
LoginSettles ==
  \A t \in Tabs, s \in Subs :
    tabs[t].at \in {"return", "exchange"} /\ tabs[t].link.sub = s
      ~> \/ /\ tabs[t].at = "shown"
            /\ \/ tabs[t].session.sub = s
               \/ tabs[t].notice # "none"
               \/ tabs[t].route = "no-access"
         \/ tabs[t].at = "raw" /\ faults > 0
=============================================================================
