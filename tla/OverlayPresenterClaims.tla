----------------------- MODULE OverlayPresenterClaims -----------------------
(***************************************************************************)
(* What comments and assertions of the overlay classes claim, and what the *)
(* code does not keep when the dismissal of one overlay is still running   *)
(* while the tabs or the queues change.                                    *)
(***************************************************************************)
EXTENDS MCOverlayPresenter

\* overlay_presentation_context_impl.mm, SetRequest: a request that was
\* cancelled "will never be shown again", so its UI state is destroyed.  A
\* cancellation that HideOverlayUI overtakes keeps it.
UIStatesHaveRequests ==
  Quiet => \A r \in Requests :
             context.states[r].exists
               => Alive(r) \/ context.states[r].has_callback

\* overlay_presenter_impl.mm, OverlayRequestQueueWillReplaceDelegate: "If
\* |presented_request_| is in the queue that is replacing this presenter as the
\* delegate", it is given up "while it is still valid".  The code gives it up
\* only if it is the front request of that queue.
PresentedRequestIsKept ==
  Quiet /\ presenter.presented_request # Null
    => Alive(presenter.presented_request)

=============================================================================
