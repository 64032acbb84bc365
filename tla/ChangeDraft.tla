---------------------------- MODULE ChangeDraft ----------------------------
(***************************************************************************)
(* packages/ui/src/stores/changeRequestDraft.ts and what feeds it: the     *)
(* draft of one user's change request in the browser, its copy in          *)
(* localStorage, the interception of mutations in createResourceStore, the *)
(* offer made after a 403, and the submit of ChangeRequestDraftView; put   *)
(* together with the API's review of what is submitted.                    *)
(***************************************************************************)
EXTENDS ChangeRequest

CONSTANTS
  Author,           \* the user of this browser
  Direct,           \* names the author may change without a request
  MaxToggles,
  None

ASSUME DraftAssumption ==
  Author \in Users /\ None \notin Seq(Changes) /\ MaxToggles \in Nat

VARIABLES
  started, items,   \* the draft store
  envelope,         \* localStorage: the items of the saved draft, or None
  sending,          \* the changes of a create that was not answered yet, or None
  todo,             \* what the author has not done yet
  enabled,          \* the server's changeRequestsEnabled
  shown,            \* the page's copy of it
  toggles

draftVars == <<started, items, envelope>>
settingVars == <<enabled, shown, toggles>>
pageVars == <<draftVars, sending, todo, settingVars>>
vars == <<apiVars, pageVars>>

DraftInit ==
  /\ Init
  /\ started = FALSE /\ items = <<>> /\ envelope = None /\ sending = None
  /\ todo = Changes
  /\ enabled = TRUE /\ shown = TRUE /\ toggles = 0

----------------------------------------------------------------------------
isActive == started /\ shown

(* start, and "Start change request" in the header: saved while still empty. *)
Start ==
  /\ ~started /\ shown
  /\ started' = TRUE /\ envelope' = items
  /\ UNCHANGED <<apiVars, items, sending, todo, settingVars>>

AddItemUnsaved(c) ==                \* mutant: persist is forgotten
  /\ started' = TRUE /\ items' = Append(items, c) /\ UNCHANGED envelope

AddItem(c) ==
  /\ started' = TRUE /\ items' = Append(items, c) /\ envelope' = items'

(* create, update, patch and remove of a resource store: the interceptor    *)
(* stages the change, or the call is made; after a 403 the author may stage *)
(* it all the same, unless the page knows that requests are switched off.   *)
Mutate(c) ==
  /\ c \in todo /\ todo' = todo \ {c}
  /\ \/ isActive /\ AddItem(c) /\ UNCHANGED <<objects, effects>>
     \/ /\ ~isActive /\ c.name \in Direct /\ UNCHANGED draftVars
        /\ IF Possible(c) THEN TakeEffect(Outright, c) ELSE UNCHANGED <<objects, effects>>
     \/ /\ ~isActive /\ c.name \notin Direct /\ UNCHANGED <<objects, effects>>
        /\ shown /\ AddItem(c)
  /\ UNCHANGED <<requests, handlerVars, races, slips,
                 sending, settingVars>>

RemoveItem(i) ==
  /\ started /\ items' = RemoveAt(items, i) /\ envelope' = items'
  /\ UNCHANGED <<apiVars, started, sending, todo, settingVars>>

Clear == started' = FALSE /\ items' = <<>> /\ envelope' = None

(* cancelDraft; the buttons of the page stay usable while a submit is out. *)
Discard ==
  /\ started /\ Clear
  /\ UNCHANGED <<apiVars, sending, todo, settingVars>>

Submit ==
  /\ started /\ items # <<>> /\ sending = None
  /\ sending' = items
  /\ UNCHANGED <<apiVars, draftVars, todo, settingVars>>

Keep == UNCHANGED draftVars         \* mutant: a submitted draft is kept

Done == Clear

(* The request is created, or refused while the flow is switched off. *)
Submitted ==
  /\ sending # None /\ sending' = None
  /\ \/ enabled /\ Create(Author, sending) /\ Done /\ UNCHANGED slips
     \/ enabled /\ Create(Author, sending) /\ Slip /\ UNCHANGED draftVars
     \/ ~enabled /\ UNCHANGED <<requests, slips, draftVars>>
     \/ Slip /\ UNCHANGED <<requests, draftVars>>
  /\ UNCHANGED <<objects, handlerVars, effects, races,
                 todo, settingVars>>

(* The page is loaded again and the draft restored from localStorage; a     *)
(* create under way may still be carried out, and nobody hears of it.       *)
Reload ==
  /\ Slip
  /\ started' = (envelope # None)
  /\ items' = IF envelope = None THEN <<>> ELSE envelope
  /\ sending' = None
  /\ \/ UNCHANGED requests
     \/ sending # None /\ enabled /\ Create(Author, sending)
  /\ shown' = TRUE
  /\ UNCHANGED <<objects, handlerVars, effects, races,
                 envelope, todo, enabled, toggles>>

(* appSettings.load; until it is answered the flow counts as enabled. *)
LoadSettings ==
  /\ shown # enabled /\ shown' = enabled
  /\ UNCHANGED <<apiVars, draftVars, sending, todo, enabled, toggles>>

Toggle ==
  /\ toggles < MaxToggles /\ toggles' = toggles + 1
  /\ enabled' = ~enabled
  /\ UNCHANGED <<apiVars, draftVars, sending, todo, shown>>

Page ==
  \/ Start \/ Discard \/ Submit \/ Submitted \/ Reload \/ LoadSettings \/ Toggle
  \/ \E c \in Changes : Mutate(c)
  \/ \E i \in DOMAIN items : RemoveItem(i)

Next == Page \/ (ReviewNext /\ UNCHANGED pageVars)

Spec == DraftInit /\ [][Next]_vars

----------------------------------------------------------------------------
(* Properties *)

DraftTypeOK ==
  /\ ReviewTypeOK
  /\ started \in BOOLEAN /\ items \in Seq(Changes)
  /\ envelope = None \/ envelope \in Seq(Changes)
  /\ sending = None \/ sending \in Seq(Changes)
  /\ todo \subseteq Changes
  /\ enabled \in BOOLEAN /\ shown \in BOOLEAN
  /\ toggles \in 0..MaxToggles

Proposals(c) == {r \in DOMAIN requests : \E i \in DOMAIN requests[r].changes :
                                            requests[r].changes[i] = c}

(* ChangeRequestDraftView: "every create, update, or delete you make gets   *)
(* added here instead of applying immediately": what the author once did is *)
(* done at once or proposed in one request, again only after a failed call, *)
(* a reload over a submit or a restart, and a request takes effect once,    *)
(* again only for these and for every review that met another.              *)
EffectOnce ==
  \A c \in Changes :
    /\ effects[Outright][c] + Cardinality(Proposals(c)) <= 1 + slips
    /\ \A r \in DOMAIN requests : effects[r][c] <= 1 + slips + races[r]

(* "This draft survives a page reload": whatever happened to the draft, the *)
(* copy a reload would restore is the draft that is shown.                  *)
DraftSurvives == IF started THEN envelope = items ELSE envelope = None /\ items = <<>>
============================================================================
