------------------------ MODULE OverlayRequestQueue ------------------------
(***************************************************************************)
(* OverlayRequestQueueImpl: the requests of one WebState, front first, and *)
(* the delegate that takes over a removed request.                         *)
(***************************************************************************)
EXTENDS OverlayCalls

otherThanQueues == <<presenter, context, container>>

\* InsertRequest (AddRequest when index is past the end).  The presenter is
\* an observer of the queues of the tabs of its window, and of no other: a tab
\* that is "detached" between calls is in another window.
InsertRequest(w, r, index) ==
  /\ phase[w] \in {"tab", "detached"}
  /\ owner[r] = Null
  /\ owner' = [owner EXCEPT ![r] = w]
  /\ queues' = [queues EXCEPT ![w] = InsertAt(queues[w], index, r)]
  /\ Entering(When(phase[w] = "tab", Call("RequestAddedToQueue", r, w, "none")))
  /\ UNCHANGED <<phase, delegate, otherThanQueues>>

\* CancelRequest, as a cancel handler calls it (a navigation, a renderer that
\* is gone, an infobar that is removed), whichever window the tab is in.  In
\* another window a request may also be answered and popped: this presenter
\* cannot tell the difference.
CancelRequest(w, r) ==
  /\ w \in Holders(r)
  /\ Entering(<<Call("RemoveRequest", r, w, "cancelled")>>)
  /\ UNCHANGED <<phase, queues, delegate, owner, otherThanQueues>>

\* RemoveRequest.  Without a delegate the request is destroyed here, and the
\* presenter of another window keeps it no longer than the UI it shows itself.
RemoveRequest ==
  /\ Running("RemoveRequest")
  /\ \E index \in 1..Len(queues[arg.w]) :
       /\ queues[arg.w][index] = arg.r
       /\ queues' = [queues EXCEPT ![arg.w] = RemoveAt(@, index)]
  /\ Making(<<IF delegate[arg.w] = "presenter"
              THEN Call("OverlayRequestRemoved", arg.r, arg.w, arg.x)
              ELSE OnRequest("DestroyRequest", arg.r)>>)
  /\ UNCHANGED <<phase, delegate, owner, otherThanQueues>>

PopFrontRequest ==
  /\ Running("PopFrontRequest")
  /\ Making(<<Call("RemoveRequest", FrontRequest(arg.w), arg.w, "popped")>>)
  /\ UNCHANGED <<phase, queues, delegate, owner, otherThanQueues>>

\* The destruction of a WebState.  The cancel handlers of its requests hear of
\* it first, in the order they were created in, then the queue's destructor
\* cancels what is left from the back: any order is possible.
DestroyQueue ==
  /\ Running("DestroyQueue")
  /\ \/ /\ queues[arg.w] = <<>>
        /\ phase' = [phase EXCEPT ![arg.w] = "destroyed"]
        /\ Returning
     \/ /\ \E i \in 1..Len(queues[arg.w]) :
             Making(<<Call("RemoveRequest", queues[arg.w][i], arg.w, "cancelled"),
                      arg>>)
        /\ UNCHANGED phase
  /\ UNCHANGED <<queues, delegate, owner, otherThanQueues>>

\* SetDelegate.  The delegate that is replaced is told before delegate_ is
\* assigned; it does not look at it.
SetDelegate ==
  /\ Running("SetDelegate")
  /\ \/ /\ delegate[arg.w] = arg.x
        /\ Returning
        /\ UNCHANGED delegate
     \/ /\ delegate[arg.w] # arg.x
        /\ delegate' = [delegate EXCEPT ![arg.w] = arg.x]
        /\ Making(When(delegate[arg.w] = "presenter",
                       OnWebState("QueueWillReplaceDelegate", arg.w)))
  /\ UNCHANGED <<phase, queues, owner, otherThanQueues>>

QueueCalls ==
  \/ RemoveRequest
  \/ PopFrontRequest
  \/ DestroyQueue
  \/ SetDelegate

=============================================================================
