------------------------------ MODULE Startup -------------------------------
(***************************************************************************)
(* The start of the process in detail: run loads and validates the         *)
(* configuration (main.go, internal/config) and provider.New resolves the  *)
(* view with one call of the Portal, which may hang until a signal cancels *)
(* it.  What follows is Lifecycle's, which this module implements.         *)
(***************************************************************************)
EXTENDS Lifecycle

CONSTANTS
  View,      \* views there may be
  Settings   \* configurations the environment may give

\* How UDDI_VIEW may be written: as a resource ID, as something under
\* dns/view/ that is none, or as a name (a bare UUID is a name nobody has).
Form == {"id", "malformed", "name"}

\* valid tells whether every other setting parses and is within its limits.
ASSUME SettingsAssumption ==
  Settings \subseteq [form : Form, view : View, valid : BOOLEAN]

VARIABLES
  settings,    \* the configuration
  views,       \* the views that exist
  readable,    \* those with cloud zones that the API key can read
  restricted,  \* the key belongs to an access view and lists no views
  loaded,      \* the configuration is accepted and the call under way
  viewID       \* the views Provider.viewID names, none before New

world == <<settings, views, readable, restricted>>
startVars == <<world, loaded, viewID>>
processVars == <<vars, startVars>>

StartupTypeOK ==
  /\ TypeOK
  /\ settings \in Settings
  /\ views \in SUBSET View /\ readable \in SUBSET views
  /\ restricted \in BOOLEAN /\ loaded \in BOOLEAN
  /\ viewID \in SUBSET View

StartupInit ==
  /\ Init
  /\ settings \in Settings
  /\ views \in SUBSET View /\ readable \in SUBSET views
  /\ restricted \in BOOLEAN
  /\ loaded = FALSE /\ viewID = {}

-----------------------------------------------------------------------------
\* Load accepts the configuration; New begins its call.
Load ==
  /\ At("init") /\ ~loaded
  /\ settings.valid
  /\ loaded' = TRUE
  /\ UNCHANGED <<vars, world, viewID>>

\* Faulty variant of LoadFails: the process ends with status 0.
LoadFailsCleanly ==
  /\ ~loaded /\ ~settings.valid
  /\ At("init")
  /\ exit' = "ok"
  /\ UNCHANGED <<main, ctxDone, runErr, healthVars, errCh, apiVars, watcher, ready>>
  /\ UNCHANGED startVars

LoadFails ==
  /\ ~loaded /\ ~settings.valid
  /\ InitialiseFails
  /\ UNCHANGED startVars

-----------------------------------------------------------------------------
(* resolveView.                                                            *)

\* Faulty variant of Accepted: an ID is taken on trust.
AcceptedOnTrust ==
  {v \in {settings.view} : \/ settings.form = "id"
                           \/ settings.form = "name" /\ ~restricted /\ v \in views}

\* The view a complete reply of the Portal makes New accept, if any: it lists
\* an unknown view as an empty one, and no views to a restricted key.
Accepted ==
  {v \in {settings.view} : \/ settings.form = "id" /\ v \in readable
                           \/ settings.form = "name" /\ ~restricted /\ v \in views}

ViewResolved ==
  /\ loaded /\ Accepted # {}
  /\ Initialise
  /\ viewID' = Accepted
  /\ UNCHANGED <<world, loaded>>

\* A malformed ID, an unknown view, or one without readable zones.
ViewRefused ==
  /\ loaded /\ Accepted = {}
  /\ InitialiseFails
  /\ UNCHANGED startVars

\* The call fails, or the signal cancels it.
CallFails ==
  /\ loaded /\ settings.form # "malformed"
  /\ InitialiseFails
  /\ UNCHANGED startVars

-----------------------------------------------------------------------------
Local == Load \/ LoadFails \/ (settings.form = "malformed" /\ ViewRefused)
Reply == ViewResolved \/ ViewRefused \/ CallFails

Afterwards == main # "init" /\ MainStep /\ UNCHANGED startVars
Beside ==
  /\ WatcherStep \/ APIListens \/ APIFatal \/ HealthFails \/ Connect \/ Disconnect \/ Signal
  /\ UNCHANGED startVars

StartupNext == Local \/ Reply \/ Afterwards \/ Beside

\* The Portal may never reply; a cancelled call returns.
StartupFairness ==
  /\ WF_processVars(Local)
  /\ WF_processVars(ctxDone /\ Reply)
  /\ WF_processVars(Afterwards)
  /\ WF_processVars(WatcherStep /\ UNCHANGED startVars)

StartupSpec == StartupInit /\ [][StartupNext]_processVars /\ StartupFairness

-----------------------------------------------------------------------------
\* Nothing listens before New has returned, and then for an existing view, the
\* one that was configured: "The API lists an unknown view ID as an empty view
\* instead of failing" (provider.go:114).
ServesRealView ==
  (health # "off" \/ api # "off" \/ ready) =>
    /\ viewID = {settings.view}
    /\ viewID \subseteq views

\* Start-up implements the process of Lifecycle: however it ends, it ends with
\* an error, and a signal ends it even while the Portal does not answer.
ImplementsLifecycle == Spec

\* Both follow from what New returned.
ResolvedOnce ==
  IF main = "init" THEN viewID = {} ELSE viewID = {settings.view} /\ viewID \subseteq views
NothingYet == main \in {"init", "bind"} => health = "off"

StartupIInv == StartupTypeOK /\ IInv /\ ResolvedOnce /\ NothingYet
=============================================================================
