-------------------------- MODULE OverlayPresenter --------------------------
(***************************************************************************)
(* OverlayPresenterImpl, composed with the request queues of the tabs and  *)
(* with the presentation context, and driven by the tabs of its window,    *)
(* the clients that queue and cancel requests, the user and UIKit.         *)
(***************************************************************************)
EXTENDS OverlayRequestQueue, OverlayPresentationContext

otherThanPresenter == <<phase, queues, delegate, owner, context, container>>

----------------------------------------------------------------------------
(* Presentation and dismissal.                                             *)
PresentOverlayForActiveRequest ==
  LET request == ActiveRequest IN
  /\ Running("PresentOverlayForActiveRequest")
  /\ \/ /\ ~presenter.has_context \/ IsShowingOverlayUI \/ request = Null
        /\ Returning
        /\ UNCHANGED presenter
     \/ /\ presenter.has_context /\ ~IsShowingOverlayUI /\ request # Null
        /\ ~CanShowUI
        /\ Making(<<Do("PrepareToShowOverlayUI")>>)
        /\ UNCHANGED presenter
     \/ /\ presenter.has_context /\ ~IsShowingOverlayUI /\ request # Null
        /\ CanShowUI
        /\ presenter' = [presenter EXCEPT
                           !.presenting = TRUE,
                           !.presented_request = request,
                           !.previously_presented = @ \cup {request}]
        /\ Making(<<Call("ShowOverlayUI", request, presenter.active_web_state,
                         "none")>>)
  /\ UNCHANGED otherThanPresenter
\* Mutant: the front request is popped whatever the reason of the dismissal.
OverlayWasDismissedForAnyReason ==
  /\ Running("OverlayWasDismissed")
  /\ \/ /\ ~presenter.has_context
        /\ Returning
        /\ UNCHANGED presenter
     \/ /\ presenter.has_context /\ presenter.queue_replaced_delegate
        /\ presenter' = [presenter EXCEPT !.presenting = FALSE,
                                          !.queue_replaced_delegate = FALSE]
        /\ Making(When(ActiveRequest # Null,
                       Do("PresentOverlayForActiveRequest")))
     \/ /\ presenter.has_context /\ ~presenter.queue_replaced_delegate
        /\ Making(When(/\ phase[arg.w] # "destroyed"
                       /\ arg.r # presenter.removed_request,
                       OnWebState("PopFrontRequest", arg.w))
                  \o <<OnRequest("OverlayWasDismissedThen", arg.r)>>)
        /\ UNCHANGED presenter
  /\ UNCHANGED otherThanPresenter

\* The dismissal callback of the UI of arg.r, whose queue was arg.w's.
OverlayWasDismissed ==
  /\ Running("OverlayWasDismissed")
  /\ \/ /\ ~presenter.has_context
        /\ Returning
        /\ UNCHANGED presenter
     \/ /\ presenter.has_context /\ presenter.queue_replaced_delegate
        /\ presenter' = [presenter EXCEPT !.presenting = FALSE,
                                          !.queue_replaced_delegate = FALSE]
        /\ Making(When(ActiveRequest # Null,
                       Do("PresentOverlayForActiveRequest")))
     \/ /\ presenter.has_context /\ ~presenter.queue_replaced_delegate
        /\ Making(When(/\ arg.x = "kUserInteraction"
                       /\ phase[arg.w] # "destroyed"
                       /\ arg.r # presenter.removed_request,
                       OnWebState("PopFrontRequest", arg.w))
                  \o <<OnRequest("OverlayWasDismissedThen", arg.r)>>)
        /\ UNCHANGED presenter
  /\ UNCHANGED otherThanPresenter
\* Mutant: presenting_ is not reset.
DismissedButPresenting ==
  /\ Running("OverlayWasDismissedThen")
  /\ presenter' = [presenter EXCEPT !.presented_request = Null,
                                    !.detached_queue = Null,
                                    !.removed_request = Null]
  /\ Making(When(presenter.removed_request # Null,
                 OnRequest("DestroyRequest", presenter.removed_request))
            \o When(ActiveRequest # arg.r,
                    Do("PresentOverlayForActiveRequest")))
  /\ UNCHANGED otherThanPresenter

\* Mutant: detached_presenting_request_queue_ is not reset.
DismissedButDetached ==
  /\ Running("OverlayWasDismissedThen")
  /\ presenter' = [presenter EXCEPT !.presenting = FALSE,
                                    !.presented_request = Null,
                                    !.removed_request = Null]
  /\ Making(When(presenter.removed_request # Null,
                 OnRequest("DestroyRequest", presenter.removed_request))
            \o When(ActiveRequest # arg.r,
                    Do("PresentOverlayForActiveRequest")))
  /\ UNCHANGED otherThanPresenter

\* The rest of OverlayWasDismissed: removed_request_awaiting_dismissal_ is
\* destroyed, which runs its completion callbacks, and the next overlay is
\* shown if the active request is another one.
OverlayWasDismissedThen ==
  /\ Running("OverlayWasDismissedThen")
  /\ presenter' = [presenter EXCEPT
                     !.presenting = FALSE,
                     !.presented_request = Null,
                     !.detached_queue = Null,
                     !.removed_request = Null]
  /\ Making(When(presenter.removed_request # Null,
                 OnRequest("DestroyRequest", presenter.removed_request))
            \o When(ActiveRequest # arg.r,
                    Do("PresentOverlayForActiveRequest")))
  /\ UNCHANGED otherThanPresenter

\* ~OverlayRequestImpl runs the completion callbacks; the presenter's own is
\* OverlayWasCompleted.
DestroyRequest ==
  /\ Running("DestroyRequest")
  /\ presenter' = [presenter EXCEPT !.previously_presented = @ \ {arg.r}]
  /\ Returning
  /\ UNCHANGED otherThanPresenter

\* CancelOverlayUIForRequest.
CancelUI(r) ==
  When(presenter.has_context /\ r # Null, OnRequest("CancelOverlayUI", r))

\* SetPresentationContext; the old context, if any, is the same object.
SetPresentationContext ==
  /\ Running("SetPresentationContext")
  /\ \E order \in SetToSeqs(Tabs) :
       Making((IF presenter.has_context
               THEN [i \in 1..Len(order) |->
                       OnWebState("CancelFrontRequestUI", order[i])]
               ELSE <<>>)
              \o <<With("SetPresentationContextThen", arg.x)>>)
  /\ UNCHANGED <<presenter, otherThanPresenter>>

\* One iteration of CancelAllOverlayUI.
CancelFrontRequestUI ==
  /\ Running("CancelFrontRequestUI")
  /\ Making(CancelUI(FrontRequest(arg.w)))
  /\ UNCHANGED <<presenter, otherThanPresenter>>

SetPresentationContextThen ==
  /\ Running("SetPresentationContextThen")
  /\ presenter' = [presenter EXCEPT
                     !.has_context = argFlag,
                     !.presenting = FALSE,
                     !.presented_request = Null,
                     !.previously_presented = {}]
  /\ Making(When(argFlag, Do("PresentOverlayForActiveRequest")))
  /\ UNCHANGED otherThanPresenter

----------------------------------------------------------------------------
(* Called by the list of tabs.                                             *)

SetActiveWebState ==
  LET previously_active == IF presenter.removed_request # Null
                           THEN presenter.removed_request
                           ELSE ActiveRequest
      should_cancel == arg.x = "Replaced" \/ presenter.detaching
  IN  /\ Running("SetActiveWebState")
      /\ \/ /\ presenter.active_web_state = arg.w
            /\ Returning
            /\ UNCHANGED presenter
         \/ /\ presenter.active_web_state # arg.w
            /\ presenter' = [presenter EXCEPT !.active_web_state = arg.w,
                                              !.detaching = FALSE]
            /\ Making(IF ~presenter.has_context THEN <<>>
                      ELSE IF ~presenter.presenting
                      THEN <<Do("PresentOverlayForActiveRequest")>>
                      ELSE IF previously_active = Null THEN <<>>
                      ELSE IF should_cancel THEN CancelUI(previously_active)
                      ELSE <<OnRequest("HideOverlayUI", previously_active)>>)
      /\ UNCHANGED otherThanPresenter

\* The UI of arg.w's request is being presented or dismissed.
PresentsFor(w) ==
  presenter.presented_request # Null /\ owner[presenter.presented_request] = w

WebStateAddedToBrowser ==
  /\ Running("WebStateAddedToBrowser")
  /\ Making(<<Call("SetDelegate", Null, arg.w, "presenter")>>)
  /\ UNCHANGED <<presenter, otherThanPresenter>>

\* WebStateRemovedFromBrowser: the presenter stays the delegate of the queue
\* whose request it presents, to take over that request should it be removed
\* before its UI is dismissed.
WebStateRemovedFromBrowser ==
  /\ Running("WebStateRemovedFromBrowser")
  /\ \/ /\ PresentsFor(arg.w)
        /\ presenter' = [presenter EXCEPT !.detached_queue = arg.w]
        /\ Returning
     \/ /\ ~PresentsFor(arg.w)
        /\ Making(<<Call("SetDelegate", Null, arg.w, "none")>>
                  \o CancelUI(FrontRequest(arg.w)))
        /\ UNCHANGED presenter
  /\ UNCHANGED otherThanPresenter

WillDetachWebStateAt ==
  /\ Running("WillDetachWebStateAt")
  /\ presenter' = [presenter EXCEPT !.detaching = PresentsFor(arg.w)]
  /\ Making(<<OnWebState("WebStateRemovedFromBrowser", arg.w)>>)
  /\ UNCHANGED otherThanPresenter

----------------------------------------------------------------------------
(* Called by the queues and by the context.                                *)
\* Mutant: a request inserted in front becomes the presented one at once.
RequestAddedTakesOver ==
  LET presented == presenter.presented_request
      inserted_before_presented ==
        /\ presented # Null
        /\ Len(queues[arg.w]) > 1
        /\ queues[arg.w][2] = presented
      hides == /\ arg.r = ActiveRequest
               /\ presenter.presenting
               /\ inserted_before_presented
  IN  /\ Running("RequestAddedToQueue")
      /\ presenter' = IF hides THEN [presenter EXCEPT !.presented_request = arg.r]
                      ELSE presenter
      /\ Making(IF arg.r # ActiveRequest THEN <<>>
                ELSE IF ~presenter.presenting
                THEN <<Do("PresentOverlayForActiveRequest")>>
                ELSE When(hides, OnRequest("HideOverlayUI", presented)))
      /\ UNCHANGED otherThanPresenter

RequestAddedToQueue ==
  LET presented == presenter.presented_request
      inserted_before_presented ==
        /\ presented # Null
        /\ Len(queues[arg.w]) > 1
        /\ queues[arg.w][2] = presented
  IN  /\ Running("RequestAddedToQueue")
      /\ Making(IF arg.r # ActiveRequest THEN <<>>
                ELSE IF ~presenter.presenting
                THEN <<Do("PresentOverlayForActiveRequest")>>
                ELSE When(inserted_before_presented,
                          OnRequest("HideOverlayUI", presented)))
      /\ UNCHANGED <<presenter, otherThanPresenter>>
\* Mutant: the presented request is destroyed like any other.
OverlayRequestRemovedAtOnce ==
  LET detached == /\ presenter.presented_request = arg.r
                  /\ presenter.detached_queue # Null
  IN  /\ Running("OverlayRequestRemoved")
      /\ presenter' = [presenter EXCEPT
                         !.detached_queue = IF detached THEN Null ELSE @]
      /\ Making(When(detached, Call("SetDelegate", Null, arg.w, "none"))
                \o (IF arg.x = "cancelled" THEN CancelUI(arg.r) ELSE <<>>)
                \o <<OnRequest("DestroyRequest", arg.r)>>)
      /\ UNCHANGED otherThanPresenter

\* The presented request is kept until its UI is dismissed; any other is
\* destroyed when this returns.
OverlayRequestRemoved ==
  LET kept     == presenter.presented_request = arg.r
      detached == kept /\ presenter.detached_queue # Null
  IN  /\ Running("OverlayRequestRemoved")
      /\ presenter' = [presenter EXCEPT
                         !.removed_request = IF kept THEN arg.r ELSE @,
                         !.detached_queue = IF detached THEN Null ELSE @]
      /\ Making(When(detached, Call("SetDelegate", Null, arg.w, "none"))
                \o (IF arg.x = "cancelled" THEN CancelUI(arg.r) ELSE <<>>)
                \o When(~kept, OnRequest("DestroyRequest", arg.r)))
      /\ UNCHANGED otherThanPresenter
\* Mutant: detached_queue_replaced_delegate_ is not set.
QueueReplacesDelegateUnnoticed ==
  LET lost == /\ presenter.presented_request # Null
              /\ presenter.presented_request = FrontRequest(arg.w)
  IN  /\ Running("QueueWillReplaceDelegate")
      /\ presenter' = IF lost
                      THEN [presenter EXCEPT !.presented_request = Null,
                                             !.detached_queue = Null]
                      ELSE presenter
      /\ Returning
      /\ UNCHANGED otherThanPresenter

\* OverlayRequestQueueWillReplaceDelegate.
QueueWillReplaceDelegate ==
  LET lost == /\ presenter.presented_request # Null
              /\ presenter.presented_request = FrontRequest(arg.w)
  IN  /\ Running("QueueWillReplaceDelegate")
      /\ presenter' = IF lost
                      THEN [presenter EXCEPT !.presented_request = Null,
                                             !.detached_queue = Null,
                                             !.queue_replaced_delegate = TRUE]
                      ELSE presenter
      /\ Returning
      /\ UNCHANGED otherThanPresenter

WillChangePresentationCapabilities ==
  /\ Running("WillChangePresentationCapabilities")
  /\ Making(When(presenter.presented_request # Null /\ ~argFlag,
                 OnRequest("HideOverlayUI", presenter.presented_request)))
  /\ UNCHANGED <<presenter, otherThanPresenter>>
\* Mutant: the presenter does not react to what the context can do now.
IgnoreNewCapabilities ==
  /\ \/ Running("DidChangePresentationCapabilities")
     \/ Running("OverlayPresentationContextDidEnableUI")
     \/ Running("DidMoveToWindow")
  /\ Returning
  /\ UNCHANGED <<presenter, otherThanPresenter>>

\* OverlayPresentationContextDidChangePresentationCapabilities, DidEnableUI
\* and DidMoveToWindow.
PresentUnlessPresenting ==
  /\ \/ Running("DidChangePresentationCapabilities")
     \/ Running("OverlayPresentationContextDidEnableUI")
     \/ Running("DidMoveToWindow")
  /\ Making(When(~presenter.presenting, Do("PresentOverlayForActiveRequest")))
  /\ UNCHANGED <<presenter, otherThanPresenter>>

PresenterCalls ==
  \/ PresentOverlayForActiveRequest
  \/ OverlayWasDismissed
  \/ OverlayWasDismissedThen
  \/ DestroyRequest
  \/ SetPresentationContext
  \/ CancelFrontRequestUI
  \/ SetPresentationContextThen
  \/ SetActiveWebState
  \/ WebStateAddedToBrowser
  \/ WebStateRemovedFromBrowser
  \/ WillDetachWebStateAt
  \/ RequestAddedToQueue
  \/ OverlayRequestRemoved
  \/ QueueWillReplaceDelegate
  \/ WillChangePresentationCapabilities
  \/ PresentUnlessPresenting

----------------------------------------------------------------------------
(* The tabs: what WebStateList tells the presenter (see WebStateList).     *)

exceptCallsAndPhase == <<queues, delegate, owner, presenter, context, container>>

\* The next active tab when w goes: another tab, none only if w is the last.
Successors(w) == IF Tabs = {w} THEN {Null} ELSE Tabs \ {w}

InsertTab(w, activating) ==
  /\ phase[w] = "new"
  /\ phase' = [phase EXCEPT ![w] = "tab"]
  /\ Entering(<<OnWebState("WebStateAddedToBrowser", w)>>
              \o When(activating, Call("SetActiveWebState", Null, w, "Inserted")))
  /\ UNCHANGED exceptCallsAndPhase

ActivateTab(w) ==
  /\ w \in Tabs \ {presenter.active_web_state}
  /\ Entering(<<Call("SetActiveWebState", Null, w, "Activated")>>)
  /\ UNCHANGED <<phase, exceptCallsAndPhase>>

\* DetachWebStateAt: WillDetachWebStateAt, and WebStateActivatedAt if w was
\* active.  The tab is then closed, that is destroyed, or inserted in another
\* window, whose presenter becomes the delegate of its queue.
DetachTab(w, then) ==
  /\ w \in Tabs
  /\ phase' = [phase EXCEPT ![w] = "detached"]
  /\ \E next \in Successors(w) :
       Entering(<<OnWebState("WillDetachWebStateAt", w)>>
                \o When(w = presenter.active_web_state,
                        Call("SetActiveWebState", Null, next, "Closed"))
                \o <<IF then = "close" THEN OnWebState("DestroyQueue", w)
                     ELSE Call("SetDelegate", Null, w, "other")>>)
  /\ UNCHANGED exceptCallsAndPhase

\* A tab that went to another window is closed there.
CloseMovedTab(w) ==
  /\ phase[w] = "detached"
  /\ Entering(<<OnWebState("DestroyQueue", w)>>)
  /\ UNCHANGED <<phase, exceptCallsAndPhase>>

\* ReplaceWebStateAt on the active tab, as every caller does; the old one is
\* destroyed.
ReplaceActiveTab(new) ==
  LET old == presenter.active_web_state IN
  /\ old # Null
  /\ phase[new] = "new"
  /\ phase' = [phase EXCEPT ![old] = "detached", ![new] = "tab"]
  /\ Entering(<<OnWebState("WebStateRemovedFromBrowser", old),
                OnWebState("WebStateAddedToBrowser", new),
                Call("SetActiveWebState", Null, new, "Replaced"),
                OnWebState("DestroyQueue", old)>>)
  /\ UNCHANGED exceptCallsAndPhase

----------------------------------------------------------------------------
Init ==
  /\ calls = <<>>
  /\ phase = [w \in WebStates |-> "new"]
  /\ queues = [w \in WebStates |-> <<>>]
  /\ delegate = [w \in WebStates |-> "none"]
  /\ owner = [r \in Requests |-> Null]
  /\ presenter = [has_context |-> TRUE, presenting |-> FALSE,
                  presented_request |-> Null, removed_request |-> Null,
                  previously_presented |-> {}, active_web_state |-> Null,
                  detaching |-> FALSE, detached_queue |-> Null,
                  queue_replaced_delegate |-> FALSE]
  /\ context = [request |-> Null, states |-> [r \in Requests |-> NoUIState],
                capable |-> FALSE, view_controller |-> FALSE,
                ui_disabled |-> FALSE, has_delegate |-> FALSE]
  /\ container \in [ui_kind : UIKinds, started : {FALSE}, stopped : {FALSE},
                    window : {FALSE}, pc_started : {FALSE},
                    pc_view_controller : {FALSE}, pc_presenting : {FALSE}]

TabEvents ==
  \/ \E w \in WebStates, activating \in BOOLEAN : InsertTab(w, activating)
  \/ \E w \in WebStates : ActivateTab(w) \/ CloseMovedTab(w)
  \/ \E w \in WebStates, then \in {"close", "move"} : DetachTab(w, then)
  \/ \E w \in WebStates : ReplaceActiveTab(w)

RequestEvents ==
  \/ \E w \in WebStates, r \in Requests :
       \E index \in 1..(Len(queues[w]) + 1) : InsertRequest(w, r, index)
  \/ \E w \in WebStates, r \in Requests : CancelRequest(w, r)

UIEvents ==
  \/ \E r \in Requests : UserDismisses(r)
  \/ \E b \in BOOLEAN : SetUIDisabled(b) \/ SetWindow(b) \/ StartOrStopContainer(b)

UIKitCompletions ==
  \/ \E r \in Requests : DismissalFinishes(r)
  \/ PresentationContextPresented

Calls == QueueCalls \/ ContextCalls \/ PresenterCalls

Next == TabEvents \/ RequestEvents \/ UIEvents \/ UIKitCompletions \/ Calls

Spec == Init /\ [][Next]_vars

\* The calls run to their end, and UIKit reports the end of every presentation
\* and every dismissal it was asked for.  Nothing is assumed of the user, of
\* the tabs and of the clients.
FairSpec ==
  /\ Spec
  /\ WF_vars(Calls)
  /\ WF_vars(PresentationContextPresented)
  /\ \A r \in Requests : WF_vars(DismissalFinishes(r))

----------------------------------------------------------------------------
(* Properties.                                                             *)

Methods ==
  {"RequestAddedToQueue", "RemoveRequest", "OverlayRequestRemoved",
   "DestroyRequest", "PopFrontRequest", "DestroyQueue", "SetDelegate",
   "QueueWillReplaceDelegate", "HideOverlayUI", "CancelOverlayUI",
   "ShowOverlayUI", "OverlayUIDidFinishDismissal", "OverlayWasDismissed",
   "OverlayUIWasDismissedThen", "updatePresentationContext",
   "PrepareToShowOverlayUI", "SetViewController",
   "UpdatePresentationCapabilities", "WillChangePresentationCapabilities",
   "UpdatePresentationCapabilitiesThen", "DidChangePresentationCapabilities",
   "OverlayPresentationContextDidEnableUI", "DidMoveToWindow",
   "SetContextDelegateThen", "StopContainerThen", "SetPresentationContext",
   "StopPresentationContextThen", "PresentOverlayForActiveRequest",
   "OverlayWasDismissedThen", "CancelFrontRequestUI",
   "SetPresentationContextThen", "SetActiveWebState",
   "WebStateAddedToBrowser", "WebStateRemovedFromBrowser",
   "WillDetachWebStateAt"}

\* The types of the variables.
TypeOK ==
  /\ \A i \in DOMAIN calls :
       /\ calls[i].f \in Methods
       /\ calls[i].r \in Requests \cup {Null}
       /\ calls[i].w \in WebStates \cup {Null}
  /\ phase \in [WebStates -> {"new", "tab", "detached", "destroyed"}]
  /\ \A w \in WebStates : \A i \in DOMAIN queues[w] : queues[w][i] \in Requests
  /\ delegate \in [WebStates -> {"presenter", "other", "none"}]
  /\ owner \in [Requests -> WebStates \cup {Null}]
  /\ presenter \in
       [has_context : BOOLEAN, presenting : BOOLEAN,
        presented_request : Requests \cup {Null},
        removed_request : Requests \cup {Null},
        previously_presented : SUBSET Requests,
        active_web_state : WebStates \cup {Null}, detaching : BOOLEAN,
        detached_queue : WebStates \cup {Null},
        queue_replaced_delegate : BOOLEAN]
  /\ context \in
       [request : Requests \cup {Null}, states : [Requests -> UIStates],
        capable : BOOLEAN, view_controller : BOOLEAN, ui_disabled : BOOLEAN,
        has_delegate : BOOLEAN]
  /\ container \in
       [ui_kind : UIKinds, started : BOOLEAN, stopped : BOOLEAN, window : BOOLEAN,
        pc_started : BOOLEAN, pc_view_controller : BOOLEAN,
        pc_presenting : BOOLEAN]

\* No call is running.
Quiet == calls = <<>>

\* The request has not been destroyed: a queue owns it, or the presenter does
\* until its UI is dismissed.
Alive(r) == Holders(r) # {} \/ presenter.removed_request = r

\* presenting_ and the context agree: between calls the presenter believes that
\* UI is shown exactly when the context has UI whose dismissal callback has not
\* run, however presentations and dismissals overlapped.
PresentingAgreesWithContext ==
  Quiet /\ presenter.has_context => (presenter.presenting <=> IsShowingOverlayUI)

\* The raw pointers of the presenter, presented_request_ and the members of
\* previously_presented_requests_, never outlive their requests, whether those
\* are cancelled, answered, or lose their tab while their UI is being dismissed.
\* One case is excepted: presented_request_ when the queue of the request has
\* become another presenter's, which the run overlay_dangling is about.
NoDanglingRequest ==
  Quiet => \A r \in Requests :
             \/ r \in presenter.previously_presented
             \/ r = presenter.presented_request /\ delegate[owner[r]] # "other"
             => Alive(r)

\* presented_request_ is set while presenting_ is, and is null during a
\* presentation only after the queue has gone to another presenter
\* (detached_queue_replaced_delegate_).
PresentedWhilePresenting ==
  Quiet =>
    /\ presenter.presented_request # Null => presenter.presenting
    /\ presenter.presenting /\ presenter.presented_request = Null
         => presenter.queue_replaced_delegate

\* The queue of a tab of the window always hands its removed requests to the
\* presenter: detached_presenting_request_queue_, which makes
\* OverlayRequestRemoved give up a queue, never outlives its purpose.
TabsKeepTheirDelegate ==
  Quiet => \A w \in Tabs : delegate[w] = "presenter"

\* The DCHECK of HideOverlayUI, and of the OverlayUIState it looks up: it is
\* called only while the context shows UI whose dismissal is still to be
\* reported, although the tab switch, the new front request or the loss of a
\* capability that asks for it may come during an earlier dismissal.
HidesUIThatIsShown ==
  Running("HideOverlayUI") => IsShowingOverlayUI

\* The DCHECK of OverlayWasDismissed: the UI whose dismissal ends is the one
\* the presenter presented.
DismissalIsOfPresentedRequest ==
  Running("OverlayWasDismissed")
  /\ presenter.has_context /\ ~presenter.queue_replaced_delegate
    => arg.r = presenter.presented_request

\* The DCHECK after PopFrontRequest: what the user dismissed is what is popped,
\* although requests may have been inserted in front of it meanwhile.
PopsWhatWasDismissed ==
  Running("RemoveRequest") /\ arg.x = "popped"
    => arg.r # Null /\ arg.r = presenter.presented_request

\* The context keeps a UI state for request_, no other UI state waits for a
\* dismissal, and what it waits for can still come: the coordinator has been
\* started and has not reported its dismissal.
OnlyCurrentRequestAwaitsDismissal ==
  Quiet =>
    /\ context.request # Null => HasState(context.request)
    /\ \A r \in Requests :
         context.states[r].has_callback
           => context.request = r /\ context.states[r].coordinator # "stopped"

\* The window, the delegate and the settings let the context show UI.
CanPresent ==
  /\ presenter.has_context
  /\ context.has_delegate
  /\ container.window
  /\ ~context.ui_disabled

\* The front request of the active tab is presented in the end, unless it stops
\* being that or the window stops being able to show UI: no order of tab
\* switches, insertions and dismissals loses the call that presents it.
ActiveRequestIsPresented ==
  \A r \in Requests :
    (CanPresent /\ ActiveRequest = r)
      ~> (presenter.presented_request = r \/ ActiveRequest # r \/ ~CanPresent)

=============================================================================
