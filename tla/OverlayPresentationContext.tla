--------------------- MODULE OverlayPresentationContext ---------------------
(***************************************************************************)
(* OverlayPresentationContextImpl, which shows the UI of one request at a  *)
(* time; the UI state it keeps for each request; the coordinators that     *)
(* show and dismiss the UI; and OverlayContainerCoordinator with its       *)
(* OverlayPresentationContextCoordinator, which give the context the view  *)
(* controller it presents on.                                              *)
(*                                                                         *)
(* A "contained" UI (alerts) is a child view controller: stopping it       *)
(* without animation dismisses it within the call.  A "presented" UI       *)
(* (infobar banners and modals) is dismissed by UIKit, which reports the   *)
(* end later, whether animated or not.  The user's own dismissals are      *)
(* animated.                                                               *)
(***************************************************************************)
EXTENDS OverlayCalls

otherThanContext == <<phase, queues, delegate, owner, presenter>>

----------------------------------------------------------------------------
(* OverlayPresentationContextImpl and OverlayRequestUIState.               *)

\* DismissPresentedUI, on the context's own request_.  A coordinator that has
\* been stopped already ignores the call, but the reason is overwritten.
DismissPresentedUI(reason) ==
  LET r    == context.request
      sync == UIKind = "contained" /\ reason # "kUserInteraction"
  IN  IF context.states[r].coordinator # "started"
      THEN /\ context' = [context EXCEPT !.states[r].dismissal_reason = reason]
           /\ Returning
      ELSE /\ context' = [context EXCEPT
                            !.states[r].dismissal_reason = reason,
                            !.states[r].coordinator =
                              IF sync THEN "stopped" ELSE "dismissing"]
           /\ Making(When(sync, OnRequest("OverlayUIDidFinishDismissal", r)))

\* HideOverlayUI; in an optimised build its DCHECKs are not compiled, and the
\* request is not looked at.
HideOverlayUI ==
  /\ Running("HideOverlayUI")
  /\ HasState(context.request)
  /\ DismissPresentedUI("kHiding")
  /\ UNCHANGED <<container, otherThanContext>>

CancelOverlayUI ==
  /\ Running("CancelOverlayUI")
  /\ \/ /\ ~HasState(arg.r)
        /\ Returning
        /\ UNCHANGED context
     \/ /\ HasState(arg.r)
        /\ ~context.states[arg.r].has_callback
        /\ context' = [context EXCEPT !.states[arg.r] = NoUIState]
        /\ Returning
     \/ /\ HasState(arg.r)
        /\ context.states[arg.r].has_callback
        /\ DismissPresentedUI("kCancellation")
  /\ UNCHANGED <<container, otherThanContext>>

\* SetRequest forgets the UI state of the request it replaces if its UI will
\* not be shown again.
StatesAfterLeaving(old, states) ==
  IF old # Null /\ states[old].dismissal_reason # "kHiding"
  THEN [states EXCEPT ![old] = NoUIState]
  ELSE states

\* ShowOverlayUI, SetRequest and ShowUIForPresentedRequest: the coordinator is
\* started, and starting a started coordinator does nothing.  arg.w is the
\* queue bound into the dismissal callback.
ShowOverlayUI ==
  LET requested == [context.states EXCEPT
                      ![arg.r].exists = TRUE,
                      ![arg.r].has_callback = TRUE,
                      ![arg.r].queue = arg.w,
                      ![arg.r].dismissal_reason = "kUserInteraction"]
  IN  /\ Running("ShowOverlayUI")
      /\ \/ /\ context.request = arg.r
            /\ context' = [context EXCEPT !.states = requested]
         \/ /\ context.request # arg.r
            /\ context' =
                 [context EXCEPT
                    !.request = arg.r,
                    !.states = [StatesAfterLeaving(context.request, requested)
                                  EXCEPT ![arg.r].coordinator = "started"]]
      /\ Returning
      /\ UNCHANGED <<container, otherThanContext>>

\* OverlayUIDidFinishDismissal, from the coordinator of arg.r: the dismissal
\* callback runs, and request_ is reset afterwards unless the callback has
\* presented another request.
OverlayUIDidFinishDismissal ==
  LET r == context.request IN
  /\ Running("OverlayUIDidFinishDismissal")
  /\ HasState(r)
  /\ context' = [context EXCEPT !.states[r].has_callback = FALSE]
  /\ Making(<<Call("OverlayWasDismissed", r, context.states[r].queue,
                   context.states[r].dismissal_reason),
              OnRequest("OverlayUIWasDismissedThen", r)>>)
  /\ UNCHANGED <<container, otherThanContext>>
\* Mutant: the UI state is forgotten but request_ is not reset.
DismissedRequestKept ==
  /\ Running("OverlayUIWasDismissedThen")
  /\ \/ /\ context.request # arg.r
        /\ Returning
        /\ UNCHANGED context
     \/ /\ context.request = arg.r
        /\ context' = [context EXCEPT
                         !.states = StatesAfterLeaving(arg.r, context.states)]
        /\ Making(When(context.has_delegate,
                       With("updatePresentationContext", "kNone")))
  /\ UNCHANGED <<container, otherThanContext>>

OverlayUIWasDismissedThen ==
  /\ Running("OverlayUIWasDismissedThen")
  /\ \/ /\ context.request # arg.r
        /\ Returning
        /\ UNCHANGED context
     \/ /\ context.request = arg.r
        /\ context' = [context EXCEPT
                         !.request = Null,
                         !.states = StatesAfterLeaving(arg.r, context.states)]
        /\ Making(When(context.has_delegate,
                       With("updatePresentationContext", "kNone")))
  /\ UNCHANGED <<container, otherThanContext>>

\* PrepareToShowOverlayUI; its early return is the caller's test.
PrepareToShowOverlayUI ==
  /\ Running("PrepareToShowOverlayUI")
  /\ Making(When(context.has_delegate,
                 With("updatePresentationContext", "required")))
  /\ UNCHANGED <<context, container, otherThanContext>>

\* SetContainerViewController or SetPresentationContextViewController.
SetViewController ==
  /\ Running("SetViewController")
  /\ context' = [context EXCEPT !.view_controller = argFlag]
  /\ Making(When(context.view_controller # argFlag,
                 Do("UpdatePresentationCapabilities")))
  /\ UNCHANGED <<container, otherThanContext>>

\* UpdatePresentationCapabilities with ConstructPresentationCapabilities.  The
\* new value is computed before the observers hear of it and assigned after,
\* whatever they did.  The presenter observes the context while it has it.
UpdatePresentationCapabilities ==
  LET capabilities == context.view_controller /\ ~context.ui_disabled IN
  /\ Running("UpdatePresentationCapabilities")
  /\ Making(IF capabilities = context.capable
            THEN <<>>
            ELSE When(presenter.has_context,
                      With("WillChangePresentationCapabilities",
                           Flag(capabilities)))
                 \o <<With("UpdatePresentationCapabilitiesThen",
                           Flag(capabilities))>>)
  /\ UNCHANGED <<context, container, otherThanContext>>

UpdatePresentationCapabilitiesThen ==
  /\ Running("UpdatePresentationCapabilitiesThen")
  /\ context' = [context EXCEPT !.capable = argFlag]
  /\ Making(When(presenter.has_context,
                 Do("DidChangePresentationCapabilities")))
  /\ UNCHANGED <<container, otherThanContext>>

\* SetUIDisabled: the thumb strip opens or closes.
SetUIDisabled(disabled) ==
  /\ context.ui_disabled # disabled
  /\ context' = [context EXCEPT !.ui_disabled = disabled]
  /\ Entering(<<Do("UpdatePresentationCapabilities")>>
              \o When(~disabled /\ presenter.has_context,
                      Do("OverlayPresentationContextDidEnableUI")))
  /\ UNCHANGED <<container, otherThanContext>>

\* SetWindow: the container's view enters or leaves a window.
SetWindow(window) ==
  /\ container.window # window
  /\ container.started
  /\ container' = [container EXCEPT !.window = window]
  /\ Entering(When(presenter.has_context /\ window, Do("DidMoveToWindow")))
  /\ UNCHANGED <<context, otherThanContext>>

\* SetDelegate of the context.
SetContextDelegateThen ==
  /\ Running("SetContextDelegateThen")
  /\ context' = [context EXCEPT !.has_delegate = argFlag]
  /\ Making(<<With("SetPresentationContext", arg.x)>>)
  /\ UNCHANGED <<container, otherThanContext>>

----------------------------------------------------------------------------
(* OverlayContainerCoordinator and OverlayPresentationContextCoordinator.  *)

\* -start and -stop up to SetDelegate, which first drops the view controllers
\* and updates the capabilities, with the old delegate still in place.  A
\* container is not started again.
StartOrStopContainer(start) ==
  /\ container.started # start
  /\ ~container.stopped
  /\ container' = [container EXCEPT !.started = start, !.stopped = ~start]
  /\ context' = [context EXCEPT !.view_controller = FALSE]
  /\ Entering(<<Do("UpdatePresentationCapabilities"),
                With("SetContextDelegateThen", Flag(start))>>
              \o When(~start, Do("StopContainerThen")))
  /\ UNCHANGED otherThanContext

\* The end of -stop: the presentation context coordinator is stopped and
\* released, and the container's view leaves its window.
StopContainerThen ==
  /\ Running("StopContainerThen")
  /\ container' = [container EXCEPT !.window = FALSE, !.pc_started = FALSE,
                                    !.pc_view_controller = FALSE]
  /\ Making(When(container.pc_started, With("SetViewController", "false")))
  /\ UNCHANGED <<context, otherThanContext>>

\* -updatePresentationContext:forPresentationCapabilities:.  A contained UI
\* needs the container's view controller; a presented one needs that of the
\* presentation context coordinator, which is started or stopped.
UpdatePresentationContext ==
  LET needed == arg.x # "kNone" IN
  /\ Running("updatePresentationContext")
  /\ \/ /\ UIKind = "contained"
        /\ Making(<<With("SetViewController", Flag(needed))>>)
        /\ UNCHANGED container
     \/ /\ UIKind = "presented" /\ needed
        /\ container' = IF container.window /\ ~container.pc_started
                        THEN [container EXCEPT !.pc_started = TRUE,
                                               !.pc_view_controller = TRUE,
                                               !.pc_presenting = TRUE]
                        ELSE container
        /\ Returning
     \/ /\ UIKind = "presented" /\ ~needed
        /\ container' = [container EXCEPT !.pc_started = FALSE]
        /\ Making(IF container.pc_started
                  THEN <<With("SetViewController", "false"),
                         Do("StopPresentationContextThen")>>
                  ELSE <<>>)
  /\ UNCHANGED <<context, otherThanContext>>

\* The end of -stop: the view controller is dismissed and forgotten.
StopPresentationContextThen ==
  /\ Running("StopPresentationContextThen")
  /\ container' = [container EXCEPT !.pc_view_controller = FALSE]
  /\ Returning
  /\ UNCHANGED <<context, otherThanContext>>

\* The completion block of -start, which UIKit runs once the view controller
\* is presented: it hands over the one the coordinator has by then.
PresentationContextPresented ==
  /\ container.pc_presenting
  /\ container' = [container EXCEPT !.pc_presenting = FALSE]
  /\ Entering(When(~container.stopped,
                   With("SetViewController", Flag(container.pc_view_controller))))
  /\ UNCHANGED <<context, otherThanContext>>

----------------------------------------------------------------------------
(* The coordinator of the request that is shown.                           *)

\* The user, or the timeout of a banner, stops it: -stopAnimated:YES.
UserDismisses(r) ==
  /\ calls = <<>>
  /\ context.states[r].coordinator = "started"
  /\ context' = [context EXCEPT !.states[r].coordinator = "dismissing"]
  /\ UNCHANGED <<calls, container, otherThanContext>>

\* UIKit reports the end of the dismissal.
DismissalFinishes(r) ==
  /\ context.states[r].coordinator = "dismissing"
  /\ context' = [context EXCEPT !.states[r].coordinator = "stopped"]
  /\ Entering(<<OnRequest("OverlayUIDidFinishDismissal", r)>>)
  /\ UNCHANGED <<container, otherThanContext>>

ContextCalls ==
  \/ HideOverlayUI
  \/ CancelOverlayUI
  \/ ShowOverlayUI
  \/ OverlayUIDidFinishDismissal
  \/ OverlayUIWasDismissedThen
  \/ PrepareToShowOverlayUI
  \/ SetViewController
  \/ UpdatePresentationCapabilities
  \/ UpdatePresentationCapabilitiesThen
  \/ SetContextDelegateThen
  \/ StopContainerThen
  \/ UpdatePresentationContext
  \/ StopPresentationContextThen

=============================================================================
