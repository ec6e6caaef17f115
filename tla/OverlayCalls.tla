---------------------------- MODULE OverlayCalls ----------------------------
(***************************************************************************)
(* The state of the overlay system of one window, at one modality:         *)
(*                                                                         *)
(*   chrome/browser/overlays/overlay_request_queue_impl.mm      (queues)   *)
(*   chrome/browser/overlays/overlay_presenter_impl.mm          (presenter)*)
(*   chrome/browser/ui/overlays/overlay_presentation_context_impl.mm       *)
(*   chrome/browser/ui/overlays/overlay_request_ui_state.mm     (context)  *)
(*   chrome/browser/ui/overlays/overlay_container_coordinator.mm           *)
(*   chrome/browser/ui/overlays/overlay_presentation_context_coordinator.mm*)
(*                                                            (container)  *)
(*                                                                         *)
(* These classes call one another back and forth, and re-enter one another *)
(* before the first call has returned.  `calls' is the stack: the calls    *)
(* still to be made, the next one first.  A method is an action that takes *)
(* its call off the stack, changes the state of its class and puts the     *)
(* calls it makes in its place; what a method does after a call is a call  *)
(* of its own, named after the method with "Then".  A call from outside (a *)
(* tab event, a UIKit completion, the user) comes when the stack is empty. *)
(***************************************************************************)
EXTENDS Naturals, Sequences, SequencesExt

CONSTANTS WebStates,   \* the tabs; an identity is used once
          Requests,    \* the overlay requests; an identity is used once
          Null,        \* the null pointer
          UIKinds      \* how the coordinators of the modality may show their
                       \* UI: "contained", "presented" or either

ASSUME NullAssumption == Null \notin WebStates /\ Null \notin Requests
ASSUME WebStatesAssumption == IsFiniteSet(WebStates)
ASSUME UIKindsAssumption == UIKinds \subseteq {"contained", "presented"}

VARIABLES
  calls,       \* the call stack
  phase,       \* external: where each WebState is in its life
  queues,      \* request_storages_ of each WebState's OverlayRequestQueue
  delegate,    \* delegate_ of each queue: "presenter", "other" or "none"
  owner,       \* queue_web_state_ of each request, Null before it is queued
  presenter,   \* the fields of OverlayPresenterImpl
  context,     \* the fields of OverlayPresentationContextImpl
  container    \* the two coordinators that serve the context

vars == <<calls, phase, queues, delegate, owner, presenter, context, container>>

----------------------------------------------------------------------------
\* A call of method f; r is its request, w its WebState, x its other argument.
Call(f, r, w, x) == [f |-> f, r |-> r, w |-> w, x |-> x]

Do(f) == Call(f, Null, Null, "none")
OnRequest(f, r) == Call(f, r, Null, "none")
OnWebState(f, w) == Call(f, Null, w, "none")
With(f, x) == Call(f, Null, Null, x)

\* A Boolean argument (or a pointer that may be null) and its reading.
Flag(b) == IF b THEN "true" ELSE "false"

\* The call at the top of the stack is one of f.
Running(f) == calls # <<>> /\ calls[1].f = f

arg == calls[1]
argFlag == arg.x = "true"

\* The running method returns after making the calls in `made'.
Making(made) == calls' = made \o Tail(calls)

Returning == Making(<<>>)

\* The call in a sequence of its own if `test', else no call.
When(test, call) == IF test THEN <<call>> ELSE <<>>

\* A call from outside.
Entering(made) == calls = <<>> /\ calls' = made

----------------------------------------------------------------------------
(* Queries.                                                                *)

\* How the coordinators of this modality show their UI, which never changes
\* (showsOverlayUsingChildViewController).
UIKind == container.ui_kind

Tabs == {w \in WebStates : phase[w] = "tab"}

\* GetFrontRequestForWebState.
FrontRequest(w) ==
  IF w = Null \/ queues[w] = <<>> THEN Null ELSE queues[w][1]

\* GetActiveRequest.
ActiveRequest == FrontRequest(presenter.active_web_state)

\* The WebState whose queue holds r.
Holders(r) == {w \in WebStates : \E i \in 1..Len(queues[w]) : queues[w][i] = r}

\* CanShowUIForRequest: every request of the modality needs the same
\* capability.
CanShowUI == context.capable

\* GetRequestUIState is not null.
HasState(r) == r # Null /\ context.states[r].exists

\* IsShowingOverlayUI.
IsShowingOverlayUI ==
  HasState(context.request) /\ context.states[context.request].has_callback

DismissalReasons == {"kUserInteraction", "kHiding", "kCancellation"}

\* OverlayRequestUIState; coordinator is the state of the coordinator it owns:
\* "started", "dismissing" (stopAnimated: has been called, the dismissal is
\* not finished) or "stopped".
UIStates == [exists : BOOLEAN, has_callback : BOOLEAN,
             dismissal_reason : DismissalReasons,
             queue : WebStates \cup {Null},
             coordinator : {"started", "dismissing", "stopped"}]
\* Mutant: dismissal_reason_ has no initial value.
UninitializedUIState ==
  [exists |-> FALSE, has_callback |-> FALSE, dismissal_reason |-> "none",
   queue |-> Null, coordinator |-> "stopped"]

NoUIState == [exists |-> FALSE, has_callback |-> FALSE,
              dismissal_reason |-> "kUserInteraction", queue |-> Null,
              coordinator |-> "stopped"]

=============================================================================
