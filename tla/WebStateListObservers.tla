----------------------- MODULE WebStateListObservers -----------------------
(***************************************************************************)
(* The observers that attach the rest of the browser to the tabs of a      *)
(* WebStateList, composed with the list:                                   *)
(*                                                                         *)
(*   "all"     AllWebStateObservationForwarder: observes every tab         *)
(*   "active"  ActiveWebStateObservationForwarder: observes the active tab *)
(*   "usage"   WebUsageEnablerBrowserAgent: sets web usage on every        *)
(*             realized tab                                                *)
(*   "deps"    WebStateDependencyInstallationObserver: installs a          *)
(*             dependency on every realized tab                            *)
(*                                                                         *)
(* Each call the list makes reaches the observers one after the other, in  *)
(* the order they registered in, and any of them may realize a WebState    *)
(* before the next one is told.  None of these four reads the state of     *)
(* another, so one order shows what every order does to each of them.      *)
(* Unrealized tabs are followed up by "usage" and "deps" when              *)
(* WebState::ForceRealized reports WebStateRealized.                       *)
(***************************************************************************)
EXTENDS WebStateList

CONSTANT Observers   \* the ones attached to this list, as they registered

ASSUME ObserversAssumption == Observers \in Seq({"all", "active", "usage", "deps"})

Attached(observer) == Contains(Observers, observer)

VARIABLES
  pending,             \* the observers still to be told of the current call
  all_observed,        \* web_state_observations_ of "all"
  active_observed,     \* web_state_observation_ of "active", or NoWebState
  web_usage_enabled,   \* web_usage_enabled_ of "usage"
  usage_observed,      \* web_state_observations_ of "usage"
  usage,               \* external: WebStates with web usage enabled
  deps_observed,       \* web_state_observations_ of "deps"
  installed            \* external: WebStates that have the dependency

observerVars == <<all_observed, active_observed, web_usage_enabled,
                  usage_observed, usage, deps_observed, installed>>
allVars == <<vars, pending, observerVars>>

----------------------------------------------------------------------------
(* What one observer does when the list calls it.                          *)

\* Mutant: a detached WebState is still observed.
AllForwarderKeepsDetached ==
  /\ all_observed' =
       CASE op.step = "WebStateInsertedAt" -> all_observed \cup {op.web_state}
         [] op.step = "WebStateReplacedAt" ->
              (all_observed \ {op.old_web_state}) \cup {op.web_state}
         [] OTHER -> all_observed
  /\ UNCHANGED <<active_observed, web_usage_enabled, usage_observed, usage,
                 deps_observed, installed>>

AllForwarderTold ==
  /\ all_observed' =
       CASE op.step = "WebStateInsertedAt" -> all_observed \cup {op.web_state}
         [] op.step = "WebStateReplacedAt" ->
              (all_observed \ {op.old_web_state}) \cup {op.web_state}
         [] op.step = "WebStateDetachedAt" -> all_observed \ {op.web_state}
         [] OTHER -> all_observed
  /\ UNCHANGED <<active_observed, web_usage_enabled, usage_observed, usage,
                 deps_observed, installed>>

\* Mutant: ignores that nothing is active any more.
ActiveForwarderIgnoresNull ==
  /\ active_observed' =
       IF op.step = "WebStateActivatedAt" /\ op.web_state # NoWebState
       THEN op.web_state ELSE active_observed
  /\ UNCHANGED <<all_observed, web_usage_enabled, usage_observed, usage,
                 deps_observed, installed>>

ActiveForwarderTold ==
  /\ active_observed' = IF op.step = "WebStateActivatedAt" THEN op.web_state
                                                           ELSE active_observed
  /\ UNCHANGED <<all_observed, web_usage_enabled, usage_observed, usage,
                 deps_observed, installed>>

\* Mutant: forgets to wait for the unrealized ones.
UpdateWebUsageWithoutWaiting(added, enabled, observed) ==
  /\ usage' = IF enabled THEN usage \cup (added \cap realized)
                         ELSE usage \ (added \cap realized)
  /\ usage_observed' = observed

\* UpdateWebUsageForAddedWebState: a realized WebState gets the setting, an
\* unrealized one is observed until it is realized.  The initial load it may
\* trigger is left out.
UpdateWebUsageForAddedWebStates(added, enabled, observed) ==
  /\ usage' = IF enabled THEN usage \cup (added \cap realized)
                         ELSE usage \ (added \cap realized)
  /\ usage_observed' = observed \cup (added \ realized)

WebUsageEnablerTold ==
  /\ CASE op.step = "WebStateInsertedAt" ->
            UpdateWebUsageForAddedWebStates({op.web_state}, web_usage_enabled,
                                            usage_observed)
       [] op.step = "WebStateReplacedAt" ->
            UpdateWebUsageForAddedWebStates({op.web_state}, web_usage_enabled,
                                            usage_observed \ {op.old_web_state})
       [] op.step = "WebStateDetachedAt" ->
            /\ usage_observed' = usage_observed \ {op.web_state}
            /\ UNCHANGED usage
       [] OTHER -> UNCHANGED <<usage, usage_observed>>
  /\ UNCHANGED <<all_observed, active_observed, web_usage_enabled,
                 deps_observed, installed>>

\* Mutant: goes on observing an unrealized WebState that leaves.
OnWebStatesKeepingObservation(added, removed) ==
  /\ installed' = (installed \ (removed \cap realized))
                    \cup (added \cap realized)
  /\ deps_observed' = deps_observed \cup (added \ realized)

\* OnWebStateAdded and OnWebStateRemoved: install on, or uninstall from, a
\* realized WebState; observe, or stop observing, an unrealized one.
OnWebStates(added, removed) ==
  /\ installed' = (installed \ (removed \cap realized))
                    \cup (added \cap realized)
  /\ deps_observed' = (deps_observed \ (removed \ realized))
                        \cup (added \ realized)

DependencyInstallerTold ==
  /\ CASE op.step = "WebStateInsertedAt" -> OnWebStates({op.web_state}, {})
       [] op.step = "WebStateReplacedAt" ->
            OnWebStates({op.web_state}, {op.old_web_state})
       [] op.step = "WebStateDetachedAt" -> OnWebStates({}, {op.web_state})
       [] OTHER -> UNCHANGED <<installed, deps_observed>>
  /\ UNCHANGED <<all_observed, active_observed, web_usage_enabled,
                 usage_observed, usage>>

\* The loop over observers_ reaches one more of them.
TellNext ==
  /\ pending # <<>>
  /\ pending' = Tail(pending)
  /\ CASE Head(pending) = "all" -> AllForwarderTold
       [] Head(pending) = "active" -> ActiveForwarderTold
       [] Head(pending) = "usage" -> WebUsageEnablerTold
       [] Head(pending) = "deps" -> DependencyInstallerTold
  /\ UNCHANGED vars

----------------------------------------------------------------------------
(* What the observers of a WebState do when it is realized or destroyed.   *)

\* WebStateRealized reaches "usage" and "deps" if they observe the WebState.
WebStatesRealized(new) ==
  /\ usage' = IF web_usage_enabled THEN usage \cup (new \cap usage_observed)
                                   ELSE usage \ (new \cap usage_observed)
  /\ usage_observed' = usage_observed \ new
  /\ installed' = installed \cup (new \cap deps_observed)
  /\ deps_observed' = deps_observed \ new
  /\ UNCHANGED <<all_observed, active_observed, web_usage_enabled>>

\* A destroyed WebState takes its web usage and its dependency with it.
\* WebStateDestroyed reaches "usage" and "deps" if they observe it; the
\* forwarders have no such handler.
WebStateDestroyed(web_state) ==
  /\ usage' = usage \ {web_state}
  /\ usage_observed' = usage_observed \ {web_state}
  /\ installed' = installed \ {web_state}
  /\ deps_observed' = deps_observed \ {web_state}
  /\ UNCHANGED <<all_observed, active_observed, web_usage_enabled>>

----------------------------------------------------------------------------
\* A step of the list: it goes on once every observer has been told, and
\* tells them all anew if it makes another call.
ListStep ==
  /\ pending = <<>>
  /\ Mutate \/ Continue
  /\ pending' = IF op' # op /\ op'.step # "Idle" THEN Observers ELSE <<>>
  /\ IF op.step = "WillCloseWebStateAt"
     THEN WebStateDestroyed(op.web_state)
     ELSE WebStatesRealized(realized' \ realized)

\* Somebody realizes a WebState, possibly while the observers are being told.
RealizeStep ==
  /\ \E w \in WebStates : ForceRealized(w)
  /\ WebStatesRealized(realized' \ realized)
  /\ UNCHANGED pending

\* A page is committed, which no observer of this module is told of.
NavigateStep ==
  /\ \E w \in WebStates, n \in NavigationIndexes : Navigate(w, n)
  /\ UNCHANGED <<pending, observerVars>>

SetWebUsageEnabled ==
  /\ Attached("usage")
  /\ ~IsMutating
  /\ web_usage_enabled' = ~web_usage_enabled
  /\ UpdateWebUsageForAddedWebStates(InList(web_state_wrappers),
                                     ~web_usage_enabled, usage_observed)
  /\ UNCHANGED <<vars, pending, all_observed, active_observed, deps_observed,
                 installed>>

ObserversInit ==
  /\ Init
  /\ pending = <<>>
  /\ all_observed = {}
  /\ active_observed = NoWebState
  /\ web_usage_enabled = FALSE
  /\ usage_observed = {}
  /\ usage = {}
  /\ deps_observed = {}
  /\ installed = {}

ObserversNext ==
  \/ ListStep
  \/ TellNext
  \/ RealizeStep
  \/ NavigateStep
  \/ SetWebUsageEnabled

ObserversSpec == ObserversInit /\ [][ObserversNext]_allVars

----------------------------------------------------------------------------
(* Properties.                                                             *)

\* Once the list is idle the forwarders observe exactly the tabs of the list
\* and its active tab, whatever sequence of calls they were told.
ForwardersFollowList ==
  ~IsMutating =>
    /\ Attached("all") => all_observed = InList(web_state_wrappers)
    /\ Attached("active") => active_observed = GetActiveWebState

\* When a closed WebState is about to be destroyed nobody observes it any
\* more: the forwarders, which do not handle WebStateDestroyed, are not left
\* with a dangling pointer.
NobodyObservesDestroyed ==
  (op.step = "WillCloseWebStateAt" /\ pending = <<>>) =>
    op.web_state \notin all_observed \cup {active_observed} \cup usage_observed
                        \cup deps_observed \cup installed

\* Every realized tab of the list has the web usage of the window, whether it
\* was realized before it was inserted, while the observers were being told,
\* or long after.
WebUsageFollowsSetting ==
  (Attached("usage") /\ ~Contains(pending, "usage")) =>
    \A w \in InList(web_state_wrappers) :
      IF w \in realized THEN (w \in usage) = web_usage_enabled
                        ELSE w \in usage_observed

\* The dependency is installed on exactly the realized tabs of the list.
InstalledOnRealizedTabs ==
  (Attached("deps") /\ ~Contains(pending, "deps")) =>
    /\ installed = realized \cap InList(web_state_wrappers)
    /\ deps_observed = InList(web_state_wrappers) \ realized

=============================================================================
