----------------------- MODULE OverlayPresenter_proof -----------------------
(***************************************************************************)
(* Proofs about OverlayPresenter, for any number of tabs and requests and  *)
(* for both kinds of UI.                                                   *)
(*                                                                         *)
(* The methods re-enter one another, so an invariant has to say what each  *)
(* call that is still on the stack knows of the state (CallOK), and which  *)
(* calls may be made before another one returns (MayRunBefore).  The other *)
(* parts say what the presenter, the context and the queues know of one    *)
(* another at every moment.                                                *)
(***************************************************************************)
EXTENDS OverlayPresenter, ListLemmas, FiniteSetTheorems

----------------------------------------------------------------------------
(* The stack.                                                              *)

\* The values of the argument x.
Words == {"none", "true", "false", "popped", "cancelled", "presenter", "other",
          "Replaced", "Inserted", "Activated", "Closed", "required", "kNone"}
           \cup DismissalReasons

Delegates == {"presenter", "other", "none"}

CallRecords ==
  {c \in [f : Methods, r : Requests \cup {Null}, w : WebStates \cup {Null},
          x : Words] : c.f = "SetDelegate" => c.x \in Delegates}

\* The calls in a sequence of calls, the calls on the stack, and those under
\* the one that runs.
CallsIn(s) == {s[i] : i \in 1..Len(s)}

Stack == CallsIn(calls)

Waiting == {calls[i] : i \in 2..Len(calls)}

\* Calls that run as soon as they are made.
Immediate ==
  {"ShowOverlayUI", "OverlayUIDidFinishDismissal", "OverlayWasDismissed",
   "PrepareToShowOverlayUI", "updatePresentationContext", "SetViewController",
   "UpdatePresentationCapabilities", "WillChangePresentationCapabilities",
   "DidChangePresentationCapabilities", "HideOverlayUI", "RemoveRequest",
   "PopFrontRequest", "OverlayRequestRemoved", "QueueWillReplaceDelegate"}

\* The calls by which a dismissal removes the request the user has answered.
IsPopping(c) ==
  \/ c.f \in {"PopFrontRequest", "QueueWillReplaceDelegate", "DestroyRequest"}
  \/ c.f \in {"RemoveRequest", "OverlayRequestRemoved"} /\ c.x = "popped"
  \/ c.f = "SetDelegate" /\ c.x = "none"

\* The calls by which a dismissal presents the next request.
IsPresenting(c) ==
  \/ c.f \in {"PresentOverlayForActiveRequest", "ShowOverlayUI",
              "PrepareToShowOverlayUI", "UpdatePresentationCapabilities",
              "DidChangePresentationCapabilities"}
  \/ c.f = "updatePresentationContext" /\ c.x = "required"
  \/ /\ c.f \in {"SetViewController", "WillChangePresentationCapabilities",
                 "UpdatePresentationCapabilitiesThen"}
     /\ c.x = "true"

\* The two halves of the dismissal callback.
IsDismissal(c) == c.f \in {"OverlayWasDismissed", "OverlayWasDismissedThen"}

\* The calls that give the context to the presenter, or take it away.
ChangesContext(c) ==
  c.f \in {"SetContextDelegateThen", "SetPresentationContext",
           "SetPresentationContextThen"}

GivesContext(c) == ChangesContext(c) /\ c.x = "true"

\* Call a may run while call c waits for it to return.
MayRunBefore(a, c) ==
  /\ c.f \notin Immediate
  /\ c.f = "SetDelegate" => c.x = "other"
  /\ c.f = "SetActiveWebState" => ~(a.f = "SetDelegate" /\ a.x = "other")
  /\ c.f = "OverlayWasDismissedThen" => IsPopping(a)
  /\ c.f = "OverlayUIWasDismissedThen" =>
       IsPopping(a) \/ IsPresenting(a) \/ (IsDismissal(a) /\ a.r = c.r)
  /\ c.f = "PresentOverlayForActiveRequest" => a.f = "DestroyRequest"
  /\ c.f = "UpdatePresentationCapabilitiesThen" /\ c.x = "true"
       => a.f = "WillChangePresentationCapabilities" /\ a.x = "true"
  /\ GivesContext(c) =>
       a.f \in {"UpdatePresentationCapabilities", "CancelFrontRequestUI",
                "CancelOverlayUI"}

StackOrdered ==
  \A i, j \in 1..Len(calls) : i < j => MayRunBefore(calls[i], calls[j])

----------------------------------------------------------------------------
(* What the components know of one another.                                *)

\* The tab has left the window.
Left(w) == w \in WebStates /\ phase[w] \in {"detached", "destroyed"}

Callback(r) == context.states[r].has_callback

\* The presented request is the front request of w.
PresentedInFront(w) ==
  presenter.presented_request # Null /\ presenter.presented_request = FrontRequest(w)

\* What a call on the stack knows of the tabs.
TabsKnownTo(c) ==
  /\ c.f \in {"RemoveRequest", "PopFrontRequest", "OverlayWasDismissed", "ShowOverlayUI"}
       => c.w \in WebStates
  /\ c.f = "SetActiveWebState" => c.w = Null \/ phase[c.w] = "tab"
  /\ c.f = "DestroyQueue" => Left(c.w)
  /\ c.f = "SetDelegate" /\ c.x = "other" =>
       /\ Left(c.w)
       /\ presenter.active_web_state = c.w => \E a \in Stack : a.f = "SetActiveWebState"

\* What a call that runs at once knows of the queues.
QueuesKnownTo(c) ==
  /\ c.f = "SetDelegate" /\ c.x = "none" => ~PresentedInFront(c.w)
  /\ c.f = "QueueWillReplaceDelegate" /\ PresentedInFront(c.w) =>
       /\ Left(c.w)
       /\ presenter.active_web_state # c.w
       /\ \A a \in Stack : a.f # "OverlayWasDismissedThen"
  /\ c.f = "OverlayRequestRemoved" =>
       \A w \in WebStates : \A i \in 1..Len(queues[w]) : queues[w][i] # c.r

\* What the calls that show, hide and dismiss know of request_ and its callback.
UIKnownTo(c) ==
  /\ c.f = "ShowOverlayUI" =>
       /\ c.r # Null /\ c.r = ActiveRequest /\ c.r = presenter.presented_request
       /\ presenter.has_context
       /\ ~IsShowingOverlayUI /\ CanShowUI
  /\ c.f = "OverlayUIDidFinishDismissal" =>
       /\ c.r # Null /\ c.r = context.request
       /\ Callback(c.r) /\ context.states[c.r].coordinator = "stopped"
  /\ c.f = "HideOverlayUI" => IsShowingOverlayUI

\* What a call that waits knows of the dismissal it belongs to.
DismissalKnownTo(c) ==
  /\ IsDismissal(c) => c.r # Null /\ c.r = context.request /\ ~Callback(c.r)
  /\ c.f = "OverlayWasDismissedThen" =>
       presenter.has_context /\ ~presenter.queue_replaced_delegate
  /\ c.f = "OverlayUIWasDismissedThen" =>
       c.r # Null /\ (c.r = context.request => ~Callback(c.r))
  /\ GivesContext(c) => context.request = Null /\ presenter.has_context

\* What it knows of the container.
ContainerKnownTo(c) ==
  /\ \/ ChangesContext(c) /\ c.x # "true"
     \/ c.f = "StopContainerThen"
     => container.stopped
  /\ c.f \in {"SetViewController", "updatePresentationContext",
              "UpdatePresentationCapabilitiesThen"} \/ ChangesContext(c)
       => container.started \/ container.stopped

\* A dismissal presents a request other than the one whose UI it dismissed, and
\* asks for more capabilities only if the context lacks them; so does -start.
PresentationKnownTo(a) ==
  \A c \in Stack :
    /\ c.f = "OverlayUIWasDismissedThen" /\ IsPresenting(a) => ActiveRequest # c.r
    /\ /\ c.f = "OverlayUIWasDismissedThen"
       /\ a.f \in {"PrepareToShowOverlayUI", "updatePresentationContext",
                   "SetViewController", "UpdatePresentationCapabilities"}
       => ~context.capable
    /\ GivesContext(c) /\ a.f = "UpdatePresentationCapabilities"
       => ~context.capable /\ ~context.view_controller

CallOK(c) ==
  /\ TabsKnownTo(c)
  /\ QueuesKnownTo(c)
  /\ UIKnownTo(c)
  /\ DismissalKnownTo(c)
  /\ ContainerKnownTo(c)
  /\ PresentationKnownTo(c)

CallsOK == \A c \in Stack : CallOK(c)

\* Before the container is started the context can show nothing.
UnstartedOK ==
  ~container.started /\ ~container.stopped =>
    /\ context.request = Null /\ presenter.has_context
    /\ ~context.capable /\ ~context.view_controller /\ ~context.has_delegate
    /\ ~container.pc_presenting

\* Requests are in the queue of their tab, once.
QueuesOK ==
  \A w \in WebStates : \A i \in 1..Len(queues[w]) :
    /\ owner[queues[w][i]] = w
    /\ \A j \in 1..Len(queues[w]) : queues[w][i] = queues[w][j] => i = j

\* The callbacks and the coordinators of the context belong to request_; its
\* callback is gone only while it is being run.
ContextOK ==
  /\ \A r \in Requests :
       /\ context.states[r].coordinator # "stopped" => Callback(r)
       /\ Callback(r) =>
            /\ context.request = r /\ context.states[r].exists
            /\ context.states[r].queue \in WebStates
            /\ \/ context.states[r].coordinator # "stopped"
               \/ \E c \in Stack : c.f = "OverlayUIDidFinishDismissal"
  /\ context.request # Null =>
       /\ context.states[context.request].exists
       /\ \/ Callback(context.request)
          \/ \E c \in Stack : /\ c.f = "OverlayUIWasDismissedThen"
                              /\ c.r = context.request

\* presenting_ and presented_request_ and the context.
PresenterOK ==
  /\ presenter.has_context =>
       (presenter.presenting
          <=> \/ IsShowingOverlayUI
              \/ \E c \in Stack : c.f = "ShowOverlayUI" \/ IsDismissal(c))
  /\ presenter.presented_request # Null => presenter.presenting
  /\ presenter.presenting /\ presenter.presented_request = Null
       => presenter.queue_replaced_delegate
  /\ presenter.has_context /\ presenter.presented_request # Null
       => \/ presenter.presented_request = context.request
          \/ \E c \in Stack : c.f = "ShowOverlayUI"
  /\ ~presenter.has_context
       => presenter.presented_request = Null /\ ~presenter.presenting
  /\ presenter.has_context /\ presenter.queue_replaced_delegate =>
       /\ presenter.presenting /\ presenter.presented_request = Null
       /\ Left(owner[context.request])
       /\ presenter.active_web_state # owner[context.request]
  /\ presenter.active_web_state # Null =>
       \/ Left(presenter.active_web_state)
       \/ phase[presenter.active_web_state] = "tab"

PresenterRecords ==
  [has_context : BOOLEAN, presenting : BOOLEAN,
   presented_request : Requests \cup {Null},
   removed_request : Requests \cup {Null},
   previously_presented : SUBSET Requests,
   active_web_state : WebStates \cup {Null}, detaching : BOOLEAN,
   detached_queue : WebStates \cup {Null}, queue_replaced_delegate : BOOLEAN]

ContextRecords ==
  [request : Requests \cup {Null}, states : [Requests -> UIStates],
   capable : BOOLEAN, view_controller : BOOLEAN, ui_disabled : BOOLEAN,
   has_delegate : BOOLEAN]

ContainerRecords ==
  [ui_kind : UIKinds, started : BOOLEAN, stopped : BOOLEAN, window : BOOLEAN,
   pc_started : BOOLEAN, pc_view_controller : BOOLEAN, pc_presenting : BOOLEAN]

Types ==
  /\ calls \in Seq(CallRecords)
  /\ phase \in [WebStates -> {"new", "tab", "detached", "destroyed"}]
  /\ queues \in [WebStates -> Seq(Requests)]
  /\ delegate \in [WebStates -> Delegates]
  /\ owner \in [Requests -> WebStates \cup {Null}]
  /\ presenter \in PresenterRecords
  /\ context \in ContextRecords
  /\ container \in ContainerRecords

Inv ==
  /\ Types
  /\ StackOrdered
  /\ CallsOK
  /\ UnstartedOK
  /\ QueuesOK
  /\ ContextOK
  /\ PresenterOK

----------------------------------------------------------------------------
(* Lemmas about the stack.                                                 *)

\* The calls of a sequence may run one after the other.
Ordered(s) == \A i, j \in 1..Len(s) : i < j => MayRunBefore(s[i], s[j])

LEMMA ShortSequences ==
  ASSUME NEW a \in CallRecords, NEW b \in CallRecords
  PROVE  /\ << >> \in Seq(CallRecords) /\ CallsIn(<< >>) = {} /\ Ordered(<< >>)
         /\ <<a>> \in Seq(CallRecords) /\ CallsIn(<<a>>) = {a} /\ Ordered(<<a>>)
         /\ <<a, b>> \in Seq(CallRecords) /\ CallsIn(<<a, b>>) = {a, b}
         /\ MayRunBefore(a, b) => Ordered(<<a, b>>)
<1>1. /\ << >> \in Seq(CallRecords) /\ Len(<< >>) = 0
      /\ <<a>> \in Seq(CallRecords) /\ Len(<<a>>) = 1 /\ <<a>>[1] = a
      /\ <<a, b>> \in Seq(CallRecords) /\ Len(<<a, b>>) = 2
      /\ <<a, b>>[1] = a /\ <<a, b>>[2] = b
  OBVIOUS
<1>2. CallsIn(<< >>) = {} /\ Ordered(<< >>)
  BY <1>1 DEF CallsIn, Ordered
<1>3. CallsIn(<<a>>) = {a} /\ Ordered(<<a>>)
  BY <1>1 DEF CallsIn, Ordered
<1>4. CallsIn(<<a, b>>) = {a, b}
  BY <1>1 DEF CallsIn
<1>5. MayRunBefore(a, b) => Ordered(<<a, b>>)
  BY <1>1 DEF Ordered
<1> QED
  BY <1>1, <1>2, <1>3, <1>4, <1>5

LEMMA WhenCalls ==
  ASSUME NEW test \in BOOLEAN, NEW a, test => a \in CallRecords
  PROVE  /\ When(test, a) \in Seq(CallRecords)
         /\ CallsIn(When(test, a)) = {c \in {a} : test}
         /\ Ordered(When(test, a))
<1>1. CASE test
  BY <1>1, ShortSequences DEF When
<1>2. CASE ~test
  <2>1. When(test, a) = << >>
    BY <1>2 DEF When
  <2>2. /\ << >> \in Seq(CallRecords) /\ Len(<< >>) = 0
    OBVIOUS
  <2> QED
    BY <1>2, <2>1, <2>2 DEF CallsIn, Ordered
<1> QED
  BY <1>1, <1>2

LEMMA ConcatCalls ==
  ASSUME NEW s \in Seq(CallRecords), NEW t \in Seq(CallRecords)
  PROVE  /\ s \o t \in Seq(CallRecords)
         /\ CallsIn(s \o t) = CallsIn(s) \cup CallsIn(t)
         /\ /\ Ordered(s) /\ Ordered(t)
            /\ \A a \in CallsIn(s), c \in CallsIn(t) : MayRunBefore(a, c)
            => Ordered(s \o t)
<1>1. /\ s \o t \in Seq(CallRecords) /\ Len(s \o t) = Len(s) + Len(t)
      /\ \A i \in 1..Len(s) : (s \o t)[i] = s[i]
      /\ \A i \in 1..Len(t) : (s \o t)[Len(s) + i] = t[i]
      /\ \A i \in 1..(Len(s) + Len(t)) :
           i <= Len(s) \/ (i - Len(s) \in 1..Len(t) /\ (s \o t)[i] = t[i - Len(s)])
  BY ConcatProperties
<1> DEFINE u == s \o t
<1> HIDE DEF u
<1>2. /\ Len(u) = Len(s) + Len(t)
      /\ \A i \in 1..Len(s) : u[i] = s[i]
      /\ \A i \in 1..Len(t) : u[Len(s) + i] = t[i]
      /\ \A i \in 1..(Len(s) + Len(t)) :
           i <= Len(s) \/ (i - Len(s) \in 1..Len(t) /\ u[i] = t[i - Len(s)])
  BY <1>1 DEF u
<1>3. CallsIn(u) = CallsIn(s) \cup CallsIn(t)
  <2>1. \A i \in 1..Len(s) : i \in 1..Len(u) /\ u[i] = s[i]
    BY <1>2
  <2>2. \A i \in 1..Len(t) : Len(s) + i \in 1..Len(u) /\ u[Len(s) + i] = t[i]
    BY <1>2
  <2>3. \A i \in 1..Len(u) : \/ i \in 1..Len(s) /\ u[i] = s[i]
                             \/ i - Len(s) \in 1..Len(t) /\ u[i] = t[i - Len(s)]
    BY <1>2
  <2>4. ASSUME NEW c PROVE c \in CallsIn(u) => c \in CallsIn(s) \cup CallsIn(t)
    BY <2>3 DEF CallsIn
  <2>5. ASSUME NEW c PROVE c \in CallsIn(s) \cup CallsIn(t) => c \in CallsIn(u)
    BY <2>1, <2>2 DEF CallsIn
  <2> QED
    BY <2>4, <2>5
<1>4. ASSUME Ordered(s), Ordered(t),
             \A a \in CallsIn(s), c \in CallsIn(t) : MayRunBefore(a, c),
             NEW i \in 1..Len(u), NEW j \in 1..Len(u), i < j
      PROVE  MayRunBefore(u[i], u[j])
  <2>1. CASE j <= Len(s)
    BY <1>2, <1>4, <2>1 DEF Ordered
  <2>2. CASE i <= Len(s) /\ j > Len(s)
    BY <1>2, <1>4, <2>2 DEF CallsIn
  <2>3. CASE i > Len(s)
    <3>1. /\ i - Len(s) \in 1..Len(t) /\ j - Len(s) \in 1..Len(t)
          /\ i - Len(s) < j - Len(s)
          /\ u[i] = t[i - Len(s)] /\ u[j] = t[j - Len(s)]
      BY <1>2, <1>4, <2>3
    <3> QED
      BY <1>4, <3>1 DEF Ordered
  <2> QED
    BY <2>1, <2>2, <2>3, LenProperties
<1> QED
  BY <1>1, <1>3, <1>4 DEF Ordered, u

\* A method that runs and makes the calls in made.
LEMMA Pushed ==
  ASSUME calls \in Seq(CallRecords), calls # << >>,
         NEW made \in Seq(CallRecords), Making(made)
  PROVE  /\ arg \in CallRecords
         /\ Stack = {arg} \cup Waiting
         /\ calls' \in Seq(CallRecords)
         /\ Stack' = CallsIn(made) \cup Waiting
         /\ /\ StackOrdered /\ Ordered(made)
            /\ \A a \in CallsIn(made), c \in Waiting : MayRunBefore(a, c)
            => StackOrdered'
<1>1. /\ Len(calls) \in Nat /\ Len(calls) > 0 /\ arg \in CallRecords
      /\ Tail(calls) \in Seq(CallRecords) /\ Len(Tail(calls)) = Len(calls) - 1
      /\ \A i \in 1..(Len(calls) - 1) : Tail(calls)[i] = calls[i + 1]
  BY EmptySeq, HeadTailProperties DEF arg
<1> DEFINE rest == Tail(calls)
<1>2. CallsIn(rest) = Waiting
  <2>1. \A i \in 1..Len(rest) : i + 1 \in 2..Len(calls) /\ rest[i] = calls[i + 1]
    BY <1>1
  <2>2. \A i \in 2..Len(calls) : i - 1 \in 1..Len(rest) /\ rest[i - 1] = calls[i]
    BY <1>1
  <2> HIDE DEF rest
  <2>3. ASSUME NEW c PROVE c \in CallsIn(rest) => c \in Waiting
    BY <2>1 DEF CallsIn, Waiting
  <2>4. ASSUME NEW c PROVE c \in Waiting => c \in CallsIn(rest)
    BY <2>2 DEF CallsIn, Waiting
  <2> QED
    BY <2>3, <2>4
<1>3. Stack = {arg} \cup Waiting
  <2>1. 1..Len(calls) = {1} \cup 2..Len(calls)
    BY <1>1
  <2> QED
    BY <2>1 DEF Stack, CallsIn, Waiting, arg
<1>4. calls' = made \o rest
  BY DEF Making
<1>5. StackOrdered => Ordered(rest)
  BY <1>1 DEF StackOrdered, Ordered
<1> HIDE DEF rest
<1>6. rest \in Seq(CallRecords)
  BY <1>1 DEF rest
<1>7. calls' \in Seq(CallRecords) /\ Stack' = CallsIn(made) \cup Waiting
  BY <1>2, <1>4, <1>6, ConcatCalls DEF Stack
<1>8. Ordered(calls') => StackOrdered'
  BY DEF Ordered, StackOrdered
<1> QED
  BY <1>1, <1>2, <1>3, <1>4, <1>5, <1>6, <1>7, <1>8, ConcatCalls

----------------------------------------------------------------------------
(* Lemmas about the calls that wait.                                       *)

LEMMA NewCall ==
  ASSUME NEW f \in Methods, NEW r \in Requests \cup {Null},
         NEW w \in WebStates \cup {Null}, NEW x \in Words,
         f = "SetDelegate" => x \in Delegates
  PROVE  /\ Call(f, r, w, x) \in CallRecords
         /\ Call(f, r, w, x).f = f /\ Call(f, r, w, x).r = r
         /\ Call(f, r, w, x).w = w /\ Call(f, r, w, x).x = x
  BY DEF Call, CallRecords

LEMMA DoCall ==
  ASSUME NEW f \in Methods, f # "SetDelegate"
  PROVE  Do(f) \in CallRecords /\ Do(f).f = f /\ Do(f).x = "none"
  BY NewCall DEF Do, Words

LEMMA RequestCall ==
  ASSUME NEW f \in Methods, f # "SetDelegate", NEW r \in Requests \cup {Null}
  PROVE  /\ OnRequest(f, r) \in CallRecords /\ OnRequest(f, r).f = f
         /\ OnRequest(f, r).r = r /\ OnRequest(f, r).x = "none"
  BY NewCall DEF OnRequest, Words

LEMMA WebStateCall ==
  ASSUME NEW f \in Methods, f # "SetDelegate", NEW w \in WebStates \cup {Null}
  PROVE  /\ OnWebState(f, w) \in CallRecords /\ OnWebState(f, w).f = f
         /\ OnWebState(f, w).w = w /\ OnWebState(f, w).x = "none"
  BY NewCall DEF OnWebState, Words

LEMMA WithCall ==
  ASSUME NEW f \in Methods, f # "SetDelegate", NEW x \in Words
  PROVE  With(f, x) \in CallRecords /\ With(f, x).f = f /\ With(f, x).x = x
  BY NewCall DEF With

LEMMA WaitingFacts ==
  ASSUME Types, calls # << >>, StackOrdered
  PROVE  /\ arg \in CallRecords /\ arg \in Stack
         /\ Waiting \subseteq CallRecords
         /\ Stack = {arg} \cup Waiting
         /\ \A c \in Waiting : MayRunBefore(arg, c)
<1>1. /\ Len(calls) \in Nat /\ Len(calls) > 0
      /\ \A i \in 1..Len(calls) : calls[i] \in CallRecords
  BY EmptySeq DEF Types
<1>2. 1..Len(calls) = {1} \cup 2..Len(calls)
  BY <1>1
<1>3. Stack = {arg} \cup Waiting
  BY <1>2 DEF Stack, CallsIn, Waiting, arg
<1> QED
  BY <1>1, <1>3 DEF Waiting, StackOrdered, arg

LEMMA WaitingIsNotImmediate ==
  ASSUME NEW a, NEW c, MayRunBefore(a, c)
  PROVE  QueuesKnownTo(c)' /\ UIKnownTo(c)'
<1>1. c.f \notin Immediate /\ (c.f = "SetDelegate" => c.x = "other")
  BY DEF MayRunBefore
<1>2. QueuesKnownTo(c)'
  BY <1>1 DEF Immediate, QueuesKnownTo
<1>3. UIKnownTo(c)'
  BY <1>1 DEF Immediate, UIKnownTo
<1> QED
  BY <1>2, <1>3

LEMMA TabsStayKnown ==
  ASSUME NEW c \in CallRecords, TabsKnownTo(c),
         \A w \in WebStates : /\ Left(w) => Left(w)'
                              /\ phase[w] = "tab" => phase'[w] = "tab",
         UNCHANGED presenter.active_web_state,
         \A a \in Stack : a.f = "SetActiveWebState" => a \in Stack'
  PROVE  TabsKnownTo(c)'
<1>1. c.w \in WebStates \cup {Null} /\ (Left(c.w) => c.w \in WebStates)
  BY DEF CallRecords, Left
<1> QED
  BY <1>1 DEF TabsKnownTo

LEMMA DismissalStaysKnown ==
  ASSUME NEW c, DismissalKnownTo(c),
         UNCHANGED presenter.has_context, UNCHANGED presenter.queue_replaced_delegate,
         UNCHANGED context.request, c.r # Null => Callback(c.r)' = Callback(c.r)
  PROVE  DismissalKnownTo(c)'
  BY DEF DismissalKnownTo

LEMMA ContainerStaysKnown ==
  ASSUME NEW c, ContainerKnownTo(c),
         UNCHANGED container.started, UNCHANGED container.stopped
  PROVE  ContainerKnownTo(c)'
  BY DEF ContainerKnownTo

\* A call that waits knows of presentations only which request they present.
LEMMA PresentationStaysKnown ==
  ASSUME NEW a, NEW c, MayRunBefore(a, c), PresentationKnownTo(c),
         UNCHANGED ActiveRequest,
         \A b \in Stack' : b.f = "OverlayUIWasDismissedThen" => b \in Stack
  PROVE  PresentationKnownTo(c)'
<1>1. c.f \notin {"PrepareToShowOverlayUI", "updatePresentationContext",
                 "SetViewController", "UpdatePresentationCapabilities"}
  BY DEF MayRunBefore, Immediate
<1> QED
  BY <1>1 DEF PresentationKnownTo

LEMMA ContextStaysOK ==
  ASSUME ContextOK, UNCHANGED context.request, UNCHANGED context.states,
         \A c \in Stack : c.f \in {"OverlayUIDidFinishDismissal", "OverlayUIWasDismissedThen"}
                            => c \in Stack'
  PROVE  ContextOK'
  BY DEF ContextOK, Callback

LEMMA PresenterStaysOK ==
  ASSUME PresenterOK, UNCHANGED owner,
         \A w \in WebStates : /\ Left(w) => Left(w)'
                              /\ phase[w] = "tab" => phase'[w] = "tab",
         presenter.active_web_state \in WebStates \cup {Null},
         UNCHANGED context.request, UNCHANGED context.states,
         UNCHANGED presenter.has_context, UNCHANGED presenter.presenting,
         UNCHANGED presenter.presented_request, UNCHANGED presenter.active_web_state,
         UNCHANGED presenter.queue_replaced_delegate,
         \A c : c.f = "ShowOverlayUI" \/ IsDismissal(c) => (c \in Stack <=> c \in Stack')
  PROVE  PresenterOK'
<1>1. IsShowingOverlayUI' = IsShowingOverlayUI
  BY DEF IsShowingOverlayUI, HasState
<1>2. \A w : Left(w) => Left(w)'
  BY DEF Left
<1>3. (\E c \in Stack : c.f = "ShowOverlayUI" \/ IsDismissal(c))
        <=> (\E c \in Stack' : c.f = "ShowOverlayUI" \/ IsDismissal(c))
  OBVIOUS
<1>4. (\E c \in Stack : c.f = "ShowOverlayUI") <=> (\E c \in Stack' : c.f = "ShowOverlayUI")
  OBVIOUS
<1> QED
  BY <1>1, <1>2, <1>3, <1>4 DEF PresenterOK, IsDismissal

\* Calls whose being on the stack another part of the state relies on.
Significant ==
  {"SetActiveWebState", "ShowOverlayUI", "OverlayUIDidFinishDismissal",
   "OverlayUIWasDismissedThen", "OverlayWasDismissed", "OverlayWasDismissedThen"}

\* The call a may be made in place of the one that runs.
Fits(a) == a \in CallRecords /\ \A c \in Waiting : MayRunBefore(a, c)

\* The step changes nothing that the calls that wait know of.
KeepsKnown ==
  /\ UNCHANGED queues
  /\ \A w \in WebStates : /\ Left(w) => Left(w)'
                          /\ phase[w] = "tab" => phase'[w] = "tab"
  /\ UNCHANGED context.request
  /\ \A r \in Requests : Callback(r)' = Callback(r)
  /\ UNCHANGED presenter.has_context
  /\ UNCHANGED presenter.active_web_state
  /\ UNCHANGED presenter.queue_replaced_delegate
  /\ UNCHANGED container.started
  /\ UNCHANGED container.stopped

\* The step changes nothing that the invariant speaks of.
KeepsState ==
  /\ KeepsKnown
  /\ UNCHANGED owner
  /\ UNCHANGED context.states
  /\ UNCHANGED presenter.presenting
  /\ UNCHANGED presenter.presented_request
  /\ UnstartedOK'
  /\ (phase \in [WebStates -> {"new", "tab", "detached", "destroyed"}])'
  /\ (delegate \in [WebStates -> Delegates])'
  /\ (presenter \in PresenterRecords)'
  /\ (context \in ContextRecords)'
  /\ (container \in ContainerRecords)'

LEMMA NothingChanges ==
  ASSUME Inv, UNCHANGED <<phase, queues, delegate, owner, presenter, context, container>>
  PROVE  KeepsState
  BY DEF KeepsState, KeepsKnown, Callback, Inv, Types, UnstartedOK, Left

\* The calls that wait keep what they know in such a step.
LEMMA WaitingStaysOK ==
  ASSUME Inv, calls # << >>, KeepsKnown,
         arg.f # "SetActiveWebState", Waiting \subseteq Stack',
         \A b \in Stack' : b.f = "OverlayUIWasDismissedThen" => b \in Stack,
         NEW c \in Waiting
  PROVE  CallOK(c)'
<1>1. /\ MayRunBefore(arg, c) /\ c \in Stack /\ CallOK(c) /\ c \in CallRecords
      /\ \A a \in Stack : a.f = "SetActiveWebState" => a \in Stack'
  BY WaitingFacts DEF Inv, CallsOK
<1>2. TabsKnownTo(c)'
  BY <1>1, TabsStayKnown DEF CallOK, KeepsKnown
<1>3. QueuesKnownTo(c)' /\ UIKnownTo(c)'
  BY <1>1, WaitingIsNotImmediate
<1>4. DismissalKnownTo(c)'
  <2>1. c.r # Null => c.r \in Requests
    BY <1>1 DEF CallRecords
  <2> QED
    BY <1>1, <2>1, DismissalStaysKnown DEF CallOK, KeepsKnown
<1>5. ContainerKnownTo(c)'
  BY <1>1, ContainerStaysKnown DEF CallOK, KeepsKnown
<1>6. ActiveRequest' = ActiveRequest
  BY DEF ActiveRequest, FrontRequest, KeepsKnown
<1>7. PresentationKnownTo(c)'
  BY <1>1, <1>6, PresentationStaysKnown DEF CallOK
<1> QED
  BY <1>2, <1>3, <1>4, <1>5, <1>7 DEF CallOK

\* A method that only makes calls.
LEMMA CallsOnly ==
  ASSUME Inv, calls # << >>, NEW made \in Seq(CallRecords), Making(made),
         KeepsState, arg.f \notin Significant, Ordered(made),
         \A a \in CallsIn(made) : a.f \notin Significant /\ Fits(a) /\ CallOK(a)'
  PROVE  Inv'
<1>1. Types /\ StackOrdered /\ CallsOK /\ UnstartedOK /\ QueuesOK /\ ContextOK /\ PresenterOK
  BY DEF Inv
<1>2. /\ Stack = {arg} \cup Waiting /\ Stack' = CallsIn(made) \cup Waiting
      /\ calls' \in Seq(CallRecords) /\ StackOrdered'
  BY <1>1, Pushed DEF Types, Fits
<1>3. Types'
  BY <1>1, <1>2 DEF Types, KeepsState, KeepsKnown
<1>4. CallsOK'
  <2> SUFFICES ASSUME NEW c \in Stack' PROVE CallOK(c)'
    BY DEF CallsOK
  <2>1. CASE c \in CallsIn(made)
    BY <2>1
  <2>2. CASE c \in Waiting
    <3>1. /\ Waiting \subseteq Stack' /\ arg.f # "SetActiveWebState"
          /\ \A b \in Stack' : b.f = "OverlayUIWasDismissedThen" => b \in Stack
      BY <1>2 DEF Significant
    <3> QED
      BY <2>2, <3>1, WaitingStaysOK DEF KeepsState
  <2> QED
    BY <1>2, <2>1, <2>2
<1>5. UnstartedOK'
  BY DEF KeepsState, KeepsKnown
<1>6. QueuesOK'
  BY <1>1 DEF QueuesOK, KeepsState, KeepsKnown
<1>7. ContextOK'
  <2>1. \A c \in Stack : c.f \in {"OverlayUIDidFinishDismissal", "OverlayUIWasDismissedThen"}
                           => c \in Stack'
    BY <1>2 DEF Significant
  <2> QED
    BY <1>1, <2>1, ContextStaysOK DEF KeepsState, KeepsKnown
<1>8. PresenterOK'
  <2>1. \A c : c.f = "ShowOverlayUI" \/ IsDismissal(c) => (c \in Stack <=> c \in Stack')
    BY <1>2 DEF Significant, IsDismissal
  <2>2. presenter.active_web_state \in WebStates \cup {Null}
    BY <1>1 DEF Types, PresenterRecords
  <2> QED
    BY <1>1, <2>1, <2>2, PresenterStaysOK DEF KeepsState, KeepsKnown
<1> QED
  BY <1>1, <1>2, <1>3, <1>4, <1>5, <1>6, <1>7, <1>8 DEF Inv

\* A method that makes one call, perhaps.
LEMMA OneCall ==
  ASSUME Inv, calls # << >>, KeepsState, arg.f \notin Significant,
         NEW test \in BOOLEAN, NEW a, Making(When(test, a)),
         test => a.f \notin Significant /\ Fits(a) /\ CallOK(a)'
  PROVE  Inv'
<1> DEFINE made == When(test, a)
<1>1. test => a \in CallRecords
  BY DEF Fits
<1>2. made \in Seq(CallRecords) /\ CallsIn(made) = {c \in {a} : test} /\ Ordered(made)
  BY <1>1, WhenCalls
<1> HIDE DEF made
<1>3. \A c \in CallsIn(made) : c.f \notin Significant /\ Fits(c) /\ CallOK(c)'
  BY <1>2
<1> QED
  BY <1>2, <1>3, CallsOnly DEF made

LEMMA NoCall ==
  ASSUME Inv, calls # << >>, KeepsState, arg.f \notin Significant, Returning
  PROVE  Inv'
<1>1. /\ << >> \in Seq(CallRecords) /\ CallsIn(<< >>) = {} /\ Ordered(<< >>)
  <2>1. << >> \in Seq(CallRecords) /\ Len(<< >>) = 0
    OBVIOUS
  <2> QED
    BY <2>1 DEF CallsIn, Ordered
<1> QED
  BY <1>1, CallsOnly DEF Returning

\* Calls that rely on nothing.
Plain ==
  {"DestroyRequest", "CancelOverlayUI", "CancelFrontRequestUI",
   "WebStateAddedToBrowser", "WebStateRemovedFromBrowser",
   "WillDetachWebStateAt", "RequestAddedToQueue", "OverlayPresentationContextDidEnableUI",
   "DidMoveToWindow", "StopPresentationContextThen"}

\* What each part of CallOK is about.
LEMMA CallParts ==
  ASSUME NEW a
  PROVE  /\ a.f \notin {"SetActiveWebState", "DestroyQueue", "SetDelegate", "RemoveRequest",
                        "PopFrontRequest", "OverlayWasDismissed", "ShowOverlayUI"}
              => TabsKnownTo(a)'
         /\ a.f \notin {"SetDelegate", "QueueWillReplaceDelegate", "OverlayRequestRemoved"}
              => QueuesKnownTo(a)'
         /\ a.f \notin {"ShowOverlayUI", "HideOverlayUI", "OverlayUIDidFinishDismissal"}
              => UIKnownTo(a)'
         /\ a.f \notin {"OverlayWasDismissed", "OverlayWasDismissedThen",
                        "OverlayUIWasDismissedThen", "SetContextDelegateThen",
                        "SetPresentationContext", "SetPresentationContextThen"}
              => DismissalKnownTo(a)'
         /\ a.f \notin {"SetContextDelegateThen", "SetPresentationContext",
                        "SetPresentationContextThen", "StopContainerThen", "SetViewController",
                        "updatePresentationContext", "UpdatePresentationCapabilitiesThen"}
              => ContainerKnownTo(a)'
         /\ a.f \notin {"PresentOverlayForActiveRequest", "ShowOverlayUI",
                        "PrepareToShowOverlayUI", "UpdatePresentationCapabilities",
                        "DidChangePresentationCapabilities", "updatePresentationContext",
                        "SetViewController", "WillChangePresentationCapabilities",
                        "UpdatePresentationCapabilitiesThen"}
              => PresentationKnownTo(a)'
  BY
     DEF TabsKnownTo, QueuesKnownTo, UIKnownTo, DismissalKnownTo, IsDismissal, GivesContext,
         ChangesContext, ContainerKnownTo, PresentationKnownTo, IsPresenting

LEMMA PlainCall ==
  ASSUME NEW a, a.f \in Plain
  PROVE  CallOK(a)' /\ a.f \notin Significant
  BY CallParts DEF Plain, Significant, CallOK

\* A method that makes one call.
LEMMA SingleCall ==
  ASSUME Inv, calls # << >>, KeepsState, arg.f \notin Significant,
         NEW a, Making(<<a>>), a.f \notin Significant, Fits(a), CallOK(a)'
  PROVE  Inv'
<1>1. <<a>> \in Seq(CallRecords) /\ CallsIn(<<a>>) = {a} /\ Ordered(<<a>>)
  BY ShortSequences DEF Fits
<1>2. \A c \in CallsIn(<<a>>) : c.f \notin Significant /\ Fits(c) /\ CallOK(c)'
  BY <1>1
<1> QED
  BY <1>1, <1>2, CallsOnly

LEMMA RunningFacts ==
  ASSUME Inv, NEW f, Running(f)
  PROVE  /\ calls # << >> /\ arg.f = f /\ arg \in CallRecords
         /\ arg.r \in Requests \cup {Null} /\ arg.w \in WebStates \cup {Null}
         /\ arg.x \in Words
         /\ CallOK(arg)
         /\ Stack = {arg} \cup Waiting
         /\ \A c \in Waiting : c \in CallRecords /\ MayRunBefore(arg, c) /\ CallOK(c)
<1>1. calls # << >> /\ arg.f = f
  BY DEF Running, arg
<1>2. /\ arg \in CallRecords /\ Stack = {arg} \cup Waiting /\ Waiting \subseteq CallRecords
      /\ \A c \in Waiting : MayRunBefore(arg, c)
  BY <1>1, WaitingFacts DEF Inv
<1>3. \A c \in Stack : CallOK(c)
  BY DEF Inv, CallsOK
<1>4. arg.r \in Requests \cup {Null} /\ arg.w \in WebStates \cup {Null} /\ arg.x \in Words
  BY <1>2 DEF CallRecords
<1> QED
  BY <1>1, <1>2, <1>3, <1>4

LEMMA FrontRequestTyped ==
  ASSUME Inv, NEW w \in WebStates \cup {Null}
  PROVE  FrontRequest(w) \in Requests \cup {Null}
<1>1. CASE w = Null \/ queues[w] = << >>
  BY <1>1 DEF FrontRequest
<1>2. CASE w \in WebStates /\ queues[w] # << >>
  <2>1. queues[w] \in Seq(Requests)
    BY <1>2 DEF Inv, Types
  <2>2. queues[w][1] \in Requests
    BY <1>2, <2>1
  <2> QED
    BY <2>2 DEF FrontRequest
<1> QED
  BY <1>1, <1>2

\* Whoever is in front belongs to the queue.
LEMMA FrontRequestOwner ==
  ASSUME Inv, NEW w \in WebStates, FrontRequest(w) # Null
  PROVE  FrontRequest(w) \in Requests /\ owner[FrontRequest(w)] = w
<1>1. queues[w] \in Seq(Requests) /\ queues[w] # << >> /\ FrontRequest(w) = queues[w][1]
  BY NullAssumption DEF FrontRequest, Inv, Types
<1>2. 1 \in 1..Len(queues[w])
  BY <1>1
<1> QED
  BY <1>1, <1>2 DEF Inv, QueuesOK

LEMMA ActiveRequestOwner ==
  ASSUME Inv
  PROVE  /\ ActiveRequest \in Requests \cup {Null}
         /\ ActiveRequest # Null => /\ presenter.active_web_state \in WebStates
                                    /\ owner[ActiveRequest] = presenter.active_web_state
<1>1. presenter.active_web_state \in WebStates \cup {Null}
  BY DEF Inv, Types, PresenterRecords
<1>2. presenter.active_web_state = Null => ActiveRequest = Null
  BY DEF ActiveRequest, FrontRequest
<1> QED
  BY <1>1, <1>2, FrontRequestTyped, FrontRequestOwner DEF ActiveRequest

----------------------------------------------------------------------------
(* The queues.                                                             *)

LEMMA PopFrontRequestKeeps ==
  ASSUME Inv, PopFrontRequest
  PROVE  Inv'
<1>1. Running("PopFrontRequest") /\ KeepsState
  BY NothingChanges DEF PopFrontRequest, otherThanQueues
<1>2. PICK a : a = Call("RemoveRequest", FrontRequest(arg.w), arg.w, "popped")
  OBVIOUS
<1>3. /\ a \in CallRecords /\ a.f = "RemoveRequest" /\ a.x = "popped"
      /\ a.w \in WebStates
  <2>1. "RemoveRequest" \in Methods /\ "popped" \in Words
    BY DEF Methods, Words
  <2>2. arg.w \in WebStates /\ FrontRequest(arg.w) \in Requests \cup {Null}
    BY <1>1, RunningFacts, FrontRequestTyped DEF CallOK, TabsKnownTo
  <2> QED
    BY <1>2, <2>1, <2>2, NewCall
<1>4. Making(<<a>>)
  BY <1>2 DEF PopFrontRequest
<1>5. Fits(a)
  BY <1>1, <1>3, RunningFacts
     DEF Fits, MayRunBefore, IsPopping, IsPresenting, IsDismissal, GivesContext, ChangesContext
<1>6. CallOK(a)' /\ a.f \notin Significant
  <2>1. TabsKnownTo(a)'
    BY <1>3 DEF TabsKnownTo
  <2> QED
    BY <1>3, <2>1, CallParts DEF CallOK, Significant
<1>7. calls # << >> /\ arg.f \notin Significant
  BY <1>1, RunningFacts DEF Significant
<1> QED
  BY <1>1, <1>4, <1>5, <1>6, <1>7, SingleCall

LEMMA SetDelegateKeeps ==
  ASSUME Inv, SetDelegate
  PROVE  Inv'
<1>1. Running("SetDelegate")
  BY DEF SetDelegate
<1>2. KeepsState
  <2>1. UNCHANGED <<phase, queues, owner, presenter, context, container>>
    BY DEF SetDelegate, otherThanQueues
  <2>2. (delegate \in [WebStates -> Delegates])'
    BY <1>1, RunningFacts DEF SetDelegate, Inv, Types, CallRecords
  <2> QED
    BY <2>1, <2>2 DEF KeepsState, KeepsKnown, Callback, Inv, Types, UnstartedOK, Left
<1>3. calls # << >> /\ arg.f = "SetDelegate" /\ arg.f \notin Significant /\ arg.x \in Delegates
  BY <1>1, RunningFacts DEF Significant, CallRecords
<1>4. CASE delegate[arg.w] = arg.x
  BY <1>2, <1>3, <1>4, NoCall DEF SetDelegate
<1>5. CASE delegate[arg.w] # arg.x
  <2>1. PICK a : a = Call("QueueWillReplaceDelegate", Null, arg.w, "none")
    OBVIOUS
  <2>2. PICK test \in BOOLEAN : test <=> delegate[arg.w] = "presenter"
    OBVIOUS
  <2>3. a \in CallRecords /\ a.f = "QueueWillReplaceDelegate" /\ a.w = arg.w
    BY <1>1, <2>1, NewCall, RunningFacts, SMTT(30) DEF Methods, Words
  <2>4. Making(When(test, a))
    BY <1>5, <2>1, <2>2 DEF SetDelegate, OnWebState, When
  <2>5. test => Fits(a)
    BY <1>1, <1>3, <1>5, <2>2, <2>3, RunningFacts
       DEF Delegates, Fits, MayRunBefore, IsPopping, IsPresenting, IsDismissal, GivesContext,
           ChangesContext
  <2>6. ASSUME test PROVE CallOK(a)'
    <3>1. arg.x \in {"other", "none"}
      BY <1>3, <1>5, <2>2, <2>6 DEF Delegates
    <3>2. CallsIn(When(test, a)) = {a} /\ When(test, a) \in Seq(CallRecords)
      BY <2>3, <2>6, WhenCalls, ZenonT(30)
    <3>3. Stack' = {a} \cup Waiting
      BY <1>3, <2>4, <3>2, Pushed DEF Inv, Types
    <3>4. PresentedInFront(a.w)' = PresentedInFront(arg.w)
      BY <1>2, <2>3 DEF KeepsState, KeepsKnown, PresentedInFront, FrontRequest
    <3>5. ASSUME PresentedInFront(arg.w)
          PROVE  /\ arg.x = "other" /\ Left(arg.w)
                 /\ presenter.active_web_state # arg.w
                 /\ \A c \in Waiting : c.f # "OverlayWasDismissedThen"
      <4>1. CallOK(arg) /\ Stack = {arg} \cup Waiting
            /\ \A c \in Waiting : MayRunBefore(arg, c)
        BY <1>1, RunningFacts
      <4>2. arg.x = "other" /\ Left(arg.w)
        BY <1>3, <3>1, <3>5, <4>1 DEF CallOK, QueuesKnownTo, TabsKnownTo
      <4>3. \A c \in Waiting : c.f # "SetActiveWebState" /\ c.f # "OverlayWasDismissedThen"
        BY <1>3, <4>1, <4>2 DEF MayRunBefore, IsPopping
      <4>4. presenter.active_web_state # arg.w
        BY <1>3, <4>1, <4>2, <4>3 DEF CallOK, TabsKnownTo
      <4> QED
        BY <4>2, <4>3, <4>4
    <3>6. QueuesKnownTo(a)'
      BY <1>2, <2>3, <3>3, <3>4, <3>5 DEF QueuesKnownTo, KeepsState, KeepsKnown, Left
    <3> QED
      BY <2>3, <3>6, CallParts DEF CallOK
  <2> QED
    BY <1>2, <1>3, <2>3, <2>4, <2>5, <2>6, OneCall DEF Significant
<1> QED
  BY <1>4, <1>5

\* The destruction of a WebState that has left the window.
LEMMA DestroyQueueKeeps ==
  ASSUME Inv, DestroyQueue
  PROVE  Inv'
<1>1. Running("DestroyQueue")
  BY DEF DestroyQueue
<1>2. calls # << >> /\ arg.f = "DestroyQueue" /\ arg.f \notin Significant /\ Left(arg.w)
  BY <1>1, RunningFacts DEF Significant, CallOK, TabsKnownTo
<1>3. arg.w \in WebStates /\ UNCHANGED <<queues, delegate, owner, presenter, context, container>>
  BY <1>2 DEF Left, DestroyQueue, otherThanQueues
<1>4. CASE phase' = [phase EXCEPT ![arg.w] = "destroyed"] /\ Returning
  <2>1. KeepsState
    BY <1>2, <1>3, <1>4
       DEF KeepsState, KeepsKnown, Callback, Inv, Types, UnstartedOK, Left
  <2> QED
    BY <1>2, <1>4, <2>1, NoCall
<1>5. ASSUME NEW i \in 1..Len(queues[arg.w]), UNCHANGED phase,
             Making(<<Call("RemoveRequest", queues[arg.w][i], arg.w, "cancelled"), arg>>)
      PROVE  Inv'
  <2>1. KeepsState
    BY <1>3, <1>5, NothingChanges
  <2>2. PICK a, b : /\ a = Call("RemoveRequest", queues[arg.w][i], arg.w, "cancelled")
                    /\ b = arg
    OBVIOUS
  <2>3. queues[arg.w][i] \in Requests
    BY <1>3, <1>5 DEF Inv, Types
  <2>4. /\ a \in CallRecords /\ a.f = "RemoveRequest" /\ a.x = "cancelled"
        /\ a.w \in WebStates
    <3>1. "RemoveRequest" \in Methods /\ "cancelled" \in Words
      BY DEF Methods, Words
    <3>2. a = Call("RemoveRequest", queues[arg.w][i], arg.w, "cancelled")
      BY <2>2
    <3> QED
      BY <1>3, <2>3, <3>1, <3>2, NewCall
  <2>5. b \in CallRecords /\ b.f = "DestroyQueue" /\ b.w = arg.w
    BY <1>1, <2>2, RunningFacts
  <2>6. MayRunBefore(a, b)
    BY <2>4, <2>5 DEF MayRunBefore, Immediate, GivesContext, ChangesContext
  <2>7. Fits(a) /\ Fits(b)
    BY <1>1, <2>2, <2>4, <2>5, RunningFacts
       DEF Fits, MayRunBefore, IsPopping, IsPresenting, IsDismissal, GivesContext, ChangesContext
  <2>8. CallOK(a)' /\ a.f \notin Significant
    <3>1. TabsKnownTo(a)'
      BY <2>4 DEF TabsKnownTo
    <3> QED
      BY <2>4, <3>1, CallParts DEF CallOK, Significant
  <2>9. CallOK(b)' /\ b.f \notin Significant
    <3>1. TabsKnownTo(b)'
      BY <1>2, <1>5, <2>5 DEF TabsKnownTo, Left
    <3> QED
      BY <2>5, <3>1, CallParts DEF CallOK, Significant
  <2>10. Making(<<a, b>>)
    BY <1>5, <2>2
  <2>11. <<a, b>> \in Seq(CallRecords) /\ CallsIn(<<a, b>>) = {a, b} /\ Ordered(<<a, b>>)
    BY <2>4, <2>5, <2>6, ShortSequences
  <2>12. \A c \in CallsIn(<<a, b>>) : c.f \notin Significant /\ Fits(c) /\ CallOK(c)'
    BY <2>7, <2>8, <2>9, <2>11
  <2> QED
    BY <1>2, <2>1, <2>10, <2>11, <2>12, CallsOnly
<1> QED
  BY <1>4, <1>5 DEF DestroyQueue

----------------------------------------------------------------------------
(* The methods of the presenter that only make calls.                      *)

LEMMA DestroyRequestKeeps ==
  ASSUME Inv, DestroyRequest
  PROVE  Inv'
<1>1. Running("DestroyRequest") /\ Returning
  BY DEF DestroyRequest
<1>2. KeepsState
  <2>1. UNCHANGED <<phase, queues, delegate, owner, context, container>>
    BY DEF DestroyRequest, otherThanPresenter
  <2>2. presenter' = [presenter EXCEPT !.previously_presented = @ \ {arg.r}]
    BY DEF DestroyRequest
  <2> QED
    BY <2>1, <2>2
       DEF KeepsState, KeepsKnown, Callback, Inv, Types, PresenterRecords, UnstartedOK, Left
<1>3. calls # << >> /\ arg.f \notin Significant
  BY <1>1, RunningFacts DEF Significant
<1> QED
  BY <1>1, <1>2, <1>3, NoCall

LEMMA CancelFrontRequestUIKeeps ==
  ASSUME Inv, CancelFrontRequestUI
  PROVE  Inv'
<1>1. Running("CancelFrontRequestUI") /\ KeepsState
  BY NothingChanges DEF CancelFrontRequestUI, otherThanPresenter
<1>2. PICK a, r : r = FrontRequest(arg.w) /\ a = Call("CancelOverlayUI", r, Null, "none")
  OBVIOUS
<1>3. PICK test \in BOOLEAN : test <=> presenter.has_context /\ r # Null
  OBVIOUS
<1>4. a \in CallRecords /\ a.f = "CancelOverlayUI"
  <2>1. r \in Requests \cup {Null}
    BY <1>1, <1>2, RunningFacts, FrontRequestTyped
  <2>2. "CancelOverlayUI" \in Methods /\ "none" \in Words
    BY DEF Methods, Words
  <2> QED
    BY <1>2, <2>1, <2>2, NewCall
<1>5. Making(When(test, a))
  BY <1>2, <1>3 DEF CancelFrontRequestUI, CancelUI, OnRequest, When
<1>6. Fits(a)
  BY <1>1, <1>4, RunningFacts
     DEF Fits, MayRunBefore, IsPopping, IsPresenting, IsDismissal, GivesContext, ChangesContext
<1>7. CallOK(a)' /\ a.f \notin Significant
  BY <1>4, PlainCall DEF Plain
<1>8. calls # << >> /\ arg.f \notin Significant
  BY <1>1, RunningFacts DEF Significant
<1> QED
  BY <1>1, <1>5, <1>6, <1>7, <1>8, OneCall

LEMMA WebStateAddedKeeps ==
  ASSUME Inv, WebStateAddedToBrowser
  PROVE  Inv'
<1>1. Running("WebStateAddedToBrowser") /\ KeepsState
  BY NothingChanges DEF WebStateAddedToBrowser, otherThanPresenter
<1>2. PICK a : a = Call("SetDelegate", Null, arg.w, "presenter")
  OBVIOUS
<1>3. a \in CallRecords /\ a.f = "SetDelegate" /\ a.x = "presenter"
  BY <1>1, <1>2, NewCall, RunningFacts DEF Methods, Words, Delegates
<1>4. Making(<<a>>)
  BY <1>2 DEF WebStateAddedToBrowser
<1>5. Fits(a)
  BY <1>1, <1>3, RunningFacts
     DEF Fits, MayRunBefore, IsPopping, IsPresenting, IsDismissal, GivesContext, ChangesContext
<1>6. TabsKnownTo(a)' /\ QueuesKnownTo(a)'
  BY <1>3 DEF TabsKnownTo, QueuesKnownTo
<1>7. CallOK(a)' /\ a.f \notin Significant
  BY <1>3, <1>6, CallParts DEF CallOK, Significant
<1>8. calls # << >> /\ arg.f \notin Significant
  BY <1>1, RunningFacts DEF Significant
<1> QED
  BY <1>1, <1>4, <1>5, <1>7, <1>8, SingleCall

LEMMA WillDetachKeeps ==
  ASSUME Inv, WillDetachWebStateAt
  PROVE  Inv'
<1>1. Running("WillDetachWebStateAt")
  BY DEF WillDetachWebStateAt
<1>2. KeepsState
  <2>1. UNCHANGED <<phase, queues, delegate, owner, context, container>>
    BY DEF WillDetachWebStateAt, otherThanPresenter
  <2>2. presenter' = [presenter EXCEPT !.detaching = PresentsFor(arg.w)]
        /\ PresentsFor(arg.w) \in BOOLEAN
    BY DEF WillDetachWebStateAt, PresentsFor
  <2> QED
    BY <2>1, <2>2
       DEF KeepsState, KeepsKnown, Callback, Inv, Types, PresenterRecords, UnstartedOK, Left
<1>3. PICK a : a = Call("WebStateRemovedFromBrowser", Null, arg.w, "none")
  OBVIOUS
<1>4. a \in CallRecords /\ a.f = "WebStateRemovedFromBrowser"
  <2>1. "WebStateRemovedFromBrowser" \in Methods /\ "none" \in Words
    BY DEF Methods, Words
  <2> QED
    BY <1>1, <1>3, <2>1, NewCall, RunningFacts, SMTT(30)
<1>5. Making(<<a>>)
  BY <1>3 DEF WillDetachWebStateAt, OnWebState
<1>6. Fits(a)
  BY <1>1, <1>4, RunningFacts
     DEF Fits, MayRunBefore, IsPopping, IsPresenting, IsDismissal, GivesContext, ChangesContext
<1>7. CallOK(a)' /\ a.f \notin Significant
  BY <1>4, PlainCall DEF Plain
<1>8. calls # << >> /\ arg.f \notin Significant
  BY <1>1, RunningFacts DEF Significant
<1> QED
  BY <1>2, <1>5, <1>6, <1>7, <1>8, SingleCall

LEMMA PresentCall ==
  ASSUME NEW a, a.f = "PresentOverlayForActiveRequest",
         \A c \in Stack' : c.f = "OverlayUIWasDismissedThen" => ActiveRequest' # c.r
  PROVE  CallOK(a)' /\ a.f \notin Significant
<1>1. PresentationKnownTo(a)'
  BY DEF PresentationKnownTo
<1> QED
  BY <1>1, CallParts DEF CallOK, Significant

\* A call of PresentOverlayForActiveRequest from a method of the presenter.
LEMMA PresentsKeeps ==
  ASSUME Inv, calls # << >>, KeepsState, arg.f \notin Significant,
         \A c \in Waiting : c.f = "OverlayUIWasDismissedThen" => ActiveRequest # c.r,
         \A c \in Waiting : MayRunBefore(Do("PresentOverlayForActiveRequest"), c),
         NEW test \in BOOLEAN, Making(When(test, Do("PresentOverlayForActiveRequest")))
  PROVE  Inv'
<1>1. PICK a : a = Do("PresentOverlayForActiveRequest")
  OBVIOUS
<1>2. a \in CallRecords /\ a.f = "PresentOverlayForActiveRequest"
  <2>1. "PresentOverlayForActiveRequest" \in Methods /\ "none" \in Words
    BY DEF Methods, Words
  <2> QED
    BY <1>1, <2>1, NewCall DEF Do
<1>3. Fits(a) /\ Making(When(test, a))
  BY <1>1, <1>2 DEF Fits
<1>4. ASSUME test PROVE CallOK(a)' /\ a.f \notin Significant
  <2>1. CallsIn(When(test, a)) = {a} /\ When(test, a) \in Seq(CallRecords)
    BY <1>2, <1>4, WhenCalls, ZenonT(30)
  <2>2. Stack' = {a} \cup Waiting
    BY <1>3, <2>1, Pushed DEF Inv, Types
  <2>3. ActiveRequest' = ActiveRequest
    BY DEF KeepsState, KeepsKnown, ActiveRequest, FrontRequest
  <2> QED
    BY <1>2, <2>2, <2>3, PresentCall
<1> QED
  BY <1>3, <1>4, OneCall

LEMMA PresentUnlessPresentingKeeps ==
  ASSUME Inv, PresentUnlessPresenting
  PROVE  Inv'
<1>1. PICK f \in {"DidChangePresentationCapabilities", "DidMoveToWindow",
                  "OverlayPresentationContextDidEnableUI"} : Running(f)
  BY DEF PresentUnlessPresenting
<1>2. KeepsState
  BY NothingChanges DEF PresentUnlessPresenting, otherThanPresenter
<1>3. calls # << >> /\ arg.f = f /\ arg.f \notin Significant
  BY <1>1, RunningFacts DEF Significant
<1>4. ASSUME NEW c \in Waiting
      PROVE  /\ c.f = "OverlayUIWasDismissedThen" => ActiveRequest # c.r
             /\ MayRunBefore(Do("PresentOverlayForActiveRequest"), c)
  <2>1. MayRunBefore(arg, c) /\ CallOK(arg) /\ c \in Stack
    BY <1>1, RunningFacts
  <2>2. Do("PresentOverlayForActiveRequest").f = "PresentOverlayForActiveRequest"
    BY DEF Do, Call
  <2>3. MayRunBefore(Do("PresentOverlayForActiveRequest"), c)
    BY <1>3, <2>1, <2>2
       DEF MayRunBefore, IsPopping, IsPresenting, IsDismissal, GivesContext, ChangesContext
  <2>4. c.f = "OverlayUIWasDismissedThen" => IsPresenting(arg)
    BY <1>3, <2>1 DEF MayRunBefore, IsPopping, IsPresenting, IsDismissal
  <2> QED
    BY <2>1, <2>3, <2>4 DEF CallOK, PresentationKnownTo
<1>5. PICK test \in BOOLEAN : test <=> ~presenter.presenting
  OBVIOUS
<1>6. Making(When(test, Do("PresentOverlayForActiveRequest")))
  BY <1>5 DEF PresentUnlessPresenting, When
<1> QED
  BY <1>2, <1>3, <1>4, <1>6, PresentsKeeps

\* Outside a presentation and a dismissal presenting_ means that UI is shown.
LEMMA HideCall ==
  ASSUME Inv, NEW f, Running(f), f # "ShowOverlayUI", ~IsPopping(arg), ~IsDismissal(arg),
         presenter.presenting, UNCHANGED context, NEW a, a.f = "HideOverlayUI"
  PROVE  CallOK(a)' /\ a.f \notin Significant
<1>1. \A c \in Stack : c.f # "ShowOverlayUI" /\ ~IsDismissal(c)
  BY RunningFacts DEF MayRunBefore, Immediate, IsDismissal
<1>2. IsShowingOverlayUI
  BY <1>1 DEF Inv, PresenterOK
<1>3. UIKnownTo(a)'
  BY <1>2 DEF UIKnownTo, IsShowingOverlayUI, HasState
<1> QED
  BY <1>3, CallParts DEF CallOK, Significant

\* A request was inserted.
LEMMA RequestAddedKeeps ==
  ASSUME Inv, RequestAddedToQueue
  PROVE  Inv'
<1>1. Running("RequestAddedToQueue") /\ KeepsState
  BY NothingChanges DEF RequestAddedToQueue, otherThanPresenter
<1>2. calls # << >> /\ arg.f = "RequestAddedToQueue" /\ arg.f \notin Significant
  BY <1>1, RunningFacts DEF Significant
<1>3. CASE Making(<<>>)
  BY <1>1, <1>2, <1>3, NoCall DEF Returning
<1>4. CASE Making(<<Do("PresentOverlayForActiveRequest")>>)
  <2>1. ASSUME NEW c \in Waiting
        PROVE  /\ c.f # "OverlayUIWasDismissedThen"
               /\ MayRunBefore(Do("PresentOverlayForActiveRequest"), c)
    <3>1. MayRunBefore(arg, c)
      BY <1>1, RunningFacts
    <3>2. Do("PresentOverlayForActiveRequest").f = "PresentOverlayForActiveRequest"
      BY DEF Do, Call
    <3> QED
      BY <1>2, <3>1, <3>2
         DEF MayRunBefore, IsPopping, IsPresenting, IsDismissal, GivesContext, ChangesContext
  <2>2. Making(When(TRUE, Do("PresentOverlayForActiveRequest")))
    BY <1>4 DEF When
  <2> QED
    BY <1>1, <1>2, <2>1, <2>2, PresentsKeeps
<1>5. CASE /\ Making(<<OnRequest("HideOverlayUI", presenter.presented_request)>>)
           /\ presenter.presenting
  <2>1. PICK a : a = OnRequest("HideOverlayUI", presenter.presented_request)
    OBVIOUS
  <2>2. a \in CallRecords /\ a.f = "HideOverlayUI"
    <3>1. "HideOverlayUI" \in Methods /\ "none" \in Words
      BY DEF Methods, Words
    <3>2. presenter.presented_request \in Requests \cup {Null}
      BY DEF Inv, Types, PresenterRecords
    <3> QED
      BY <2>1, <3>1, <3>2, NewCall DEF OnRequest
  <2>3. Fits(a)
    BY <1>1, <1>2, <2>2, RunningFacts
       DEF Fits, MayRunBefore, IsPopping, IsPresenting, IsDismissal, GivesContext, ChangesContext
  <2>4. ~IsPopping(arg) /\ ~IsDismissal(arg) /\ UNCHANGED context
    BY <1>2 DEF IsPopping, IsDismissal, RequestAddedToQueue, otherThanPresenter
  <2>5. CallOK(a)' /\ a.f \notin Significant
    BY <1>1, <1>5, <2>2, <2>4, HideCall
  <2> QED
    BY <1>1, <1>2, <1>5, <2>1, <2>3, <2>5, SingleCall
<1> QED
  BY <1>3, <1>4, <1>5 DEF RequestAddedToQueue, When

\* The UI that is presented is hidden when the context can no longer show it.
LEMMA WillChangeKeeps ==
  ASSUME Inv, WillChangePresentationCapabilities
  PROVE  Inv'
<1>1. Running("WillChangePresentationCapabilities") /\ KeepsState
  BY NothingChanges DEF WillChangePresentationCapabilities, otherThanPresenter
<1>2. /\ calls # << >> /\ arg.f = "WillChangePresentationCapabilities"
      /\ arg.f \notin Significant
  BY <1>1, RunningFacts DEF Significant
<1>3. PICK a : a = OnRequest("HideOverlayUI", presenter.presented_request)
  OBVIOUS
<1>4. PICK test \in BOOLEAN : test <=> presenter.presented_request # Null /\ arg.x # "true"
  OBVIOUS
<1>5. a \in CallRecords /\ a.f = "HideOverlayUI"
  <2>1. "HideOverlayUI" \in Methods /\ "none" \in Words
    BY DEF Methods, Words
  <2>2. presenter.presented_request \in Requests \cup {Null}
    BY DEF Inv, Types, PresenterRecords
  <2> QED
    BY <1>3, <2>1, <2>2, NewCall DEF OnRequest
<1>6. Making(When(test, a))
  BY <1>3, <1>4 DEF WillChangePresentationCapabilities, When, argFlag
<1>7. test => Fits(a)
  BY <1>1, <1>2, <1>4, <1>5, RunningFacts
     DEF Fits, MayRunBefore, IsPopping, IsPresenting, IsDismissal, GivesContext, ChangesContext
<1>8. test => CallOK(a)' /\ a.f \notin Significant
  <2>1. ~IsPopping(arg) /\ ~IsDismissal(arg) /\ UNCHANGED context
    BY <1>2 DEF IsPopping, IsDismissal, WillChangePresentationCapabilities, otherThanPresenter
  <2>2. test => presenter.presenting
    BY <1>4 DEF Inv, PresenterOK
  <2> QED
    BY <1>1, <1>5, <2>1, <2>2, HideCall
<1> QED
  BY <1>1, <1>2, <1>6, <1>7, <1>8, OneCall

\* The queue of a tab that leaves the window loses its delegate only if its
\* front request is not presented.
LEMMA WebStateRemovedKeeps ==
  ASSUME Inv, WebStateRemovedFromBrowser
  PROVE  Inv'
<1>1. Running("WebStateRemovedFromBrowser")
  BY DEF WebStateRemovedFromBrowser
<1>2. /\ calls # << >> /\ arg.f = "WebStateRemovedFromBrowser"
      /\ arg.f \notin Significant /\ arg.w \in WebStates \cup {Null}
  BY <1>1, RunningFacts DEF Significant
<1>3. UNCHANGED <<phase, queues, delegate, owner, context, container>>
  BY DEF WebStateRemovedFromBrowser, otherThanPresenter
<1>4. CASE PresentsFor(arg.w)
  <2>1. presenter' = [presenter EXCEPT !.detached_queue = arg.w] /\ Returning
    BY <1>4 DEF WebStateRemovedFromBrowser
  <2>2. KeepsState
    BY <1>2, <1>3, <2>1
       DEF KeepsState, KeepsKnown, Callback, Inv, Types, PresenterRecords, UnstartedOK, Left
  <2> QED
    BY <1>2, <2>1, <2>2, NoCall
<1>5. CASE ~PresentsFor(arg.w)
  <2>1. UNCHANGED presenter /\ KeepsState
    BY <1>3, <1>5, NothingChanges DEF WebStateRemovedFromBrowser
  <2>2. PICK r, a, b : /\ r = FrontRequest(arg.w)
                       /\ a = Call("SetDelegate", Null, arg.w, "none")
                       /\ b = OnRequest("CancelOverlayUI", r)
    OBVIOUS
  <2>3. PICK test \in BOOLEAN : test <=> presenter.has_context /\ r # Null
    OBVIOUS
  <2>4. a \in CallRecords /\ a.f = "SetDelegate" /\ a.x = "none" /\ a.w = arg.w
    BY <1>2, <2>2, NewCall DEF Methods, Words, Delegates
  <2>5. b \in CallRecords /\ b.f = "CancelOverlayUI"
    <3>1. "CancelOverlayUI" \in Methods /\ "none" \in Words
      BY DEF Methods, Words
    <3>2. r \in Requests \cup {Null}
      BY <1>2, <2>2, FrontRequestTyped
    <3> QED
      BY <2>2, <3>1, <3>2, NewCall DEF OnRequest
  <2>6. Fits(a) /\ Fits(b)
    BY <1>1, <1>2, <2>4, <2>5, RunningFacts
       DEF Fits, MayRunBefore, IsPopping, IsPresenting, IsDismissal, GivesContext, ChangesContext
  <2>7. MayRunBefore(a, b)
    BY <2>5 DEF MayRunBefore, Immediate, GivesContext, ChangesContext
  <2>8. CallOK(a)' /\ a.f \notin Significant
    <3>1. ~PresentedInFront(arg.w)
      <4>1. SUFFICES ASSUME PresentedInFront(arg.w) PROVE FALSE
        OBVIOUS
      <4>2. arg.w \in WebStates
        BY <1>2, <4>1 DEF PresentedInFront, FrontRequest
      <4> QED
        BY <1>5, <4>1, <4>2, FrontRequestOwner DEF PresentedInFront, PresentsFor
    <3>2. QueuesKnownTo(a)'
      BY <1>3, <2>1, <2>4, <3>1 DEF QueuesKnownTo, PresentedInFront, FrontRequest
    <3>3. TabsKnownTo(a)'
      BY <2>4 DEF TabsKnownTo
    <3> QED
      BY <2>4, <3>2, <3>3, CallParts DEF CallOK, Significant
  <2>9. CallOK(b)' /\ b.f \notin Significant
    BY <2>5, PlainCall DEF Plain
  <2> DEFINE first == <<a>>
             second == When(test, b)
             made == first \o second
  <2>10. Making(made)
    BY <1>5, <2>2, <2>3 DEF WebStateRemovedFromBrowser, CancelUI, When
  <2>11. /\ first \in Seq(CallRecords) /\ CallsIn(first) = {a} /\ Ordered(first)
         /\ second \in Seq(CallRecords) /\ Ordered(second)
         /\ CallsIn(second) = {c \in {b} : test}
    BY <2>4, <2>5, ShortSequences, WhenCalls
  <2> HIDE DEF first, second
  <2>12. made \in Seq(CallRecords) /\ Ordered(made) /\ CallsIn(made) \subseteq {a, b}
    BY <2>7, <2>11, ConcatCalls
  <2> HIDE DEF made
  <2>13. \A c \in CallsIn(made) : c.f \notin Significant /\ Fits(c) /\ CallOK(c)'
    BY <2>6, <2>8, <2>9, <2>12
  <2> QED
    BY <1>2, <2>1, <2>10, <2>12, <2>13, CallsOnly
<1> QED
  BY <1>4, <1>5

\* A request that was removed is in no queue, so that the queue it was in does
\* not lose its delegate while the presented request is in front.
LEMMA OverlayRequestRemovedKeeps ==
  ASSUME Inv, OverlayRequestRemoved
  PROVE  Inv'
<1>1. Running("OverlayRequestRemoved")
  BY DEF OverlayRequestRemoved
<1>2. /\ calls # << >> /\ arg.f = "OverlayRequestRemoved" /\ arg.f \notin Significant
      /\ arg.w \in WebStates \cup {Null} /\ arg.r \in Requests \cup {Null}
  BY <1>1, RunningFacts DEF Significant
<1>3. PICK kept \in BOOLEAN, detached \in BOOLEAN :
        /\ kept <=> presenter.presented_request = arg.r
        /\ detached <=> presenter.presented_request = arg.r /\ presenter.detached_queue # Null
  <2>1. PICK kept \in BOOLEAN : kept <=> presenter.presented_request = arg.r
    OBVIOUS
  <2>2. PICK detached \in BOOLEAN :
          detached <=> presenter.presented_request = arg.r /\ presenter.detached_queue # Null
    OBVIOUS
  <2> QED
    BY <2>1, <2>2
<1>4. PICK cancels \in BOOLEAN :
        cancels <=> arg.x = "cancelled" /\ presenter.has_context /\ arg.r # Null
  OBVIOUS
<1>5. KeepsState
  <2>1. UNCHANGED <<phase, queues, delegate, owner, context, container>>
    BY DEF OverlayRequestRemoved, otherThanPresenter
  <2>2. presenter' = [presenter EXCEPT !.removed_request = IF kept THEN arg.r ELSE @,
                                       !.detached_queue = IF detached THEN Null ELSE @]
    BY <1>3 DEF OverlayRequestRemoved
  <2> QED
    BY <1>2, <2>1, <2>2
       DEF KeepsState, KeepsKnown, Callback, Inv, Types, PresenterRecords, UnstartedOK, Left
<1>6. PICK a, b, d : /\ a = Call("SetDelegate", Null, arg.w, "none")
                     /\ b = OnRequest("CancelOverlayUI", arg.r)
                     /\ d = OnRequest("DestroyRequest", arg.r)
  OBVIOUS
<1>7. a \in CallRecords /\ a.f = "SetDelegate" /\ a.x = "none" /\ a.w = arg.w
  <2>1. a = Call("SetDelegate", Null, arg.w, "none") /\ arg.w \in WebStates \cup {Null}
    BY <1>2, <1>6
  <2>2. "SetDelegate" \in Methods /\ "none" \in Words /\ "none" \in Delegates
    BY DEF Methods, Words, Delegates
  <2> QED
    BY <2>1, <2>2, NewCall
<1>8. b \in CallRecords /\ b.f = "CancelOverlayUI"
  <2>1. "CancelOverlayUI" \in Methods
    BY DEF Methods
  <2> QED
    BY <1>2, <1>6, <2>1, RequestCall
<1>9. d \in CallRecords /\ d.f = "DestroyRequest"
  <2>1. "DestroyRequest" \in Methods
    BY DEF Methods
  <2> QED
    BY <1>2, <1>6, <2>1, RequestCall
<1>10. Fits(a) /\ Fits(d) /\ (cancels => Fits(b))
  BY <1>1, <1>2, <1>4, <1>7, <1>8, <1>9, RunningFacts
     DEF Fits, MayRunBefore, IsPopping, IsPresenting, IsDismissal, GivesContext, ChangesContext
<1>11. MayRunBefore(a, b) /\ MayRunBefore(a, d) /\ MayRunBefore(b, d)
  BY <1>8, <1>9 DEF MayRunBefore, Immediate, GivesContext, ChangesContext
<1>12. ASSUME detached PROVE CallOK(a)' /\ a.f \notin Significant
  <2>1. ~PresentedInFront(arg.w)
    <3>1. SUFFICES ASSUME PresentedInFront(arg.w) PROVE FALSE
      OBVIOUS
    <3>2. arg.w \in WebStates /\ queues[arg.w] # << >> /\ queues[arg.w][1] = arg.r
      BY <1>2, <1>3, <1>12, <3>1 DEF PresentedInFront, FrontRequest
    <3>3. 1 \in 1..Len(queues[arg.w])
      BY <3>2 DEF Inv, Types
    <3> QED
      BY <1>1, <1>2, <3>2, <3>3, RunningFacts DEF CallOK, QueuesKnownTo
  <2>2. QueuesKnownTo(a)'
    BY <1>5, <1>7, <2>1
       DEF QueuesKnownTo, PresentedInFront, FrontRequest, KeepsState, KeepsKnown
  <2>3. TabsKnownTo(a)'
    BY <1>7 DEF TabsKnownTo
  <2> QED
    BY <1>7, <2>2, <2>3, CallParts DEF CallOK, Significant
<1>13. CallOK(b)' /\ b.f \notin Significant /\ CallOK(d)' /\ d.f \notin Significant
  BY <1>8, <1>9, PlainCall DEF Plain
<1>14. PICK destroys \in BOOLEAN : destroys <=> ~kept
  OBVIOUS
<1> DEFINE first == When(detached, a)
           second == When(cancels, b)
           third == When(destroys, d)
           made == first \o second \o third
<1>15. Making(made)
  BY <1>3, <1>4, <1>6, <1>14 DEF OverlayRequestRemoved, CancelUI, When
<1>16. /\ first \in Seq(CallRecords) /\ CallsIn(first) = {c \in {a} : detached}
       /\ Ordered(first)
       /\ second \in Seq(CallRecords) /\ CallsIn(second) = {c \in {b} : cancels}
       /\ Ordered(second)
       /\ third \in Seq(CallRecords) /\ CallsIn(third) = {c \in {d} : destroys}
       /\ Ordered(third)
  BY <1>7, <1>8, <1>9, WhenCalls
<1> HIDE DEF first, second, third
<1>17. /\ first \o second \in Seq(CallRecords) /\ Ordered(first \o second)
       /\ CallsIn(first \o second) = CallsIn(first) \cup CallsIn(second)
  BY <1>11, <1>16, ConcatCalls
<1>18. /\ made \in Seq(CallRecords) /\ Ordered(made)
       /\ CallsIn(made) = CallsIn(first) \cup CallsIn(second) \cup CallsIn(third)
  BY <1>11, <1>16, <1>17, ConcatCalls, ZenonT(30)
<1> HIDE DEF made
<1>19. \A c \in CallsIn(made) : c.f \notin Significant /\ Fits(c) /\ CallOK(c)'
  BY <1>10, <1>12, <1>13, <1>16, <1>18
<1> QED
  BY <1>2, <1>5, <1>15, <1>18, <1>19, CallsOnly

----------------------------------------------------------------------------
(* The capabilities of the context, and the container.                     *)

LEMMA StackAfterOneCall ==
  ASSUME Inv, calls # << >>, NEW a \in CallRecords, NEW test \in BOOLEAN, test,
         Making(When(test, a))
  PROVE  Stack' = {a} \cup Waiting
<1>1. CallsIn(When(test, a)) = {a} /\ When(test, a) \in Seq(CallRecords)
  BY WhenCalls
<1> QED
  BY <1>1, Pushed DEF Inv, Types

LEMMA PrepareKeeps ==
  ASSUME Inv, PrepareToShowOverlayUI
  PROVE  Inv'
<1>1. Running("PrepareToShowOverlayUI") /\ KeepsState /\ UNCHANGED <<context, container>>
  BY NothingChanges DEF PrepareToShowOverlayUI, otherThanContext
<1>2. /\ calls # << >> /\ arg.f = "PrepareToShowOverlayUI" /\ arg.f \notin Significant
      /\ PresentationKnownTo(arg) /\ Stack = {arg} \cup Waiting
  BY <1>1, RunningFacts DEF Significant, CallOK
<1>3. PICK a : a = With("updatePresentationContext", "required")
  OBVIOUS
<1>4. PICK test \in BOOLEAN : test <=> context.has_delegate
  OBVIOUS
<1>5. a \in CallRecords /\ a.f = "updatePresentationContext" /\ a.x = "required"
  <2>1. "updatePresentationContext" \in Methods /\ "required" \in Words
    BY DEF Methods, Words
  <2> QED
    BY <1>3, <2>1, WithCall
<1>6. Making(When(test, a))
  BY <1>3, <1>4 DEF PrepareToShowOverlayUI, When
<1>7. Fits(a)
  BY <1>1, <1>2, <1>5, RunningFacts
     DEF Fits, MayRunBefore, IsPopping, IsPresenting, IsDismissal, GivesContext, ChangesContext
<1>8. ASSUME test PROVE CallOK(a)' /\ a.f \notin Significant
  <2>1. Stack' = {a} \cup Waiting
    BY <1>2, <1>5, <1>6, <1>8, StackAfterOneCall
  <2>2. ContainerKnownTo(a)'
    BY <1>1, <1>4, <1>5, <1>8 DEF Inv, UnstartedOK, ContainerKnownTo, ChangesContext
  <2>3. ActiveRequest' = ActiveRequest
    BY <1>1 DEF KeepsState, KeepsKnown, ActiveRequest, FrontRequest
  <2>4. PresentationKnownTo(a)'
    BY <1>1, <1>2, <1>5, <2>1, <2>3 DEF PresentationKnownTo, IsPresenting
  <2> QED
    BY <1>5, <2>2, <2>4, CallParts DEF CallOK, Significant
<1> QED
  BY <1>1, <1>2, <1>6, <1>7, <1>8, OneCall

LEMMA SetViewControllerKeeps ==
  ASSUME Inv, SetViewController
  PROVE  Inv'
<1>1. /\ Running("SetViewController")
      /\ UNCHANGED <<phase, queues, delegate, owner, presenter, container>>
      /\ context' = [context EXCEPT !.view_controller = argFlag] /\ argFlag \in BOOLEAN
  BY DEF SetViewController, otherThanContext, argFlag
<1>2. /\ calls # << >> /\ arg.f = "SetViewController" /\ arg.f \notin Significant
      /\ PresentationKnownTo(arg) /\ ContainerKnownTo(arg) /\ Stack = {arg} \cup Waiting
  BY <1>1, RunningFacts DEF Significant, CallOK
<1>3. container.started \/ container.stopped
  BY <1>2 DEF ContainerKnownTo
<1>4. KeepsState /\ UNCHANGED context.capable
  BY <1>1, <1>3
     DEF KeepsState, KeepsKnown, Callback, Inv, Types, ContextRecords, UnstartedOK, Left
<1>5. PICK a : a = Do("UpdatePresentationCapabilities")
  OBVIOUS
<1>6. PICK test \in BOOLEAN : test <=> context.view_controller # argFlag
  OBVIOUS
<1>7. a \in CallRecords /\ a.f = "UpdatePresentationCapabilities"
  <2>1. "UpdatePresentationCapabilities" \in Methods
    BY DEF Methods
  <2> QED
    BY <1>5, <2>1, DoCall
<1>8. Making(When(test, a))
  BY <1>5, <1>6 DEF SetViewController, When
<1>9. Fits(a)
  BY <1>1, <1>2, <1>7, RunningFacts
     DEF Fits, MayRunBefore, IsPopping, IsPresenting, IsDismissal, GivesContext, ChangesContext
<1>10. ASSUME test PROVE CallOK(a)' /\ a.f \notin Significant
  <2>1. Stack' = {a} \cup Waiting
    BY <1>2, <1>7, <1>8, <1>10, StackAfterOneCall
  <2>2. ActiveRequest' = ActiveRequest
    BY <1>4 DEF KeepsState, KeepsKnown, ActiveRequest, FrontRequest
  <2>3. \A c \in Waiting : /\ ~GivesContext(c)
                           /\ c.f = "OverlayUIWasDismissedThen" => IsPresenting(arg)
    BY <1>1, <1>2, RunningFacts DEF MayRunBefore, IsPopping, IsDismissal
  <2>4. ~GivesContext(a)
    BY <1>7 DEF GivesContext, ChangesContext
  <2>5. \A c \in Waiting : c.f = "OverlayUIWasDismissedThen"
                             => ActiveRequest # c.r /\ ~context.capable
    BY <1>2, <2>3 DEF PresentationKnownTo
  <2>6. PresentationKnownTo(a)'
    BY <1>4, <1>7, <2>1, <2>2, <2>3, <2>4, <2>5
       DEF PresentationKnownTo, GivesContext, ChangesContext
  <2> QED
    BY <1>7, <2>6, CallParts DEF CallOK, Significant
<1> QED
  BY <1>2, <1>4, <1>8, <1>9, <1>10, OneCall

LEMMA PairOfCalls ==
  ASSUME NEW a \in CallRecords, NEW b \in CallRecords
  PROVE  <<a>> \o <<b>> = <<a, b>>
<1> DEFINE s == <<a>>
           t == <<b>>
           u == <<a, b>>
<1>1. /\ s \in Seq(CallRecords) /\ Len(s) = 1 /\ s[1] = a
      /\ t \in Seq(CallRecords) /\ Len(t) = 1 /\ t[1] = b
      /\ u \in Seq(CallRecords) /\ Len(u) = 2 /\ u[1] = a /\ u[2] = b
  OBVIOUS
<1> HIDE DEF s, t, u
<1>2. /\ s \o t \in Seq(CallRecords) /\ Len(s \o t) = 2
      /\ (s \o t)[1] = a /\ (s \o t)[2] = b
  BY <1>1, ConcatProperties
<1>3. s \o t = u
  BY <1>1, <1>2, SeqEqual
<1> QED
  BY <1>3 DEF s, t, u

\* A method that makes one or two calls.
LEMMA TwoCalls ==
  ASSUME Inv, calls # << >>, KeepsState, arg.f \notin Significant,
         NEW test \in BOOLEAN, NEW a \in CallRecords, NEW b \in CallRecords,
         Making(When(test, a) \o <<b>>), MayRunBefore(a, b),
         test => a.f \notin Significant /\ Fits(a) /\ CallOK(a)',
         b.f \notin Significant /\ Fits(b) /\ CallOK(b)'
  PROVE  Inv'
<1> DEFINE first == When(test, a)
           second == <<b>>
           made == first \o second
<1>1. /\ first \in Seq(CallRecords) /\ CallsIn(first) = {c \in {a} : test} /\ Ordered(first)
      /\ second \in Seq(CallRecords) /\ CallsIn(second) = {b} /\ Ordered(second)
  BY ShortSequences, WhenCalls
<1>2. Making(made)
  OBVIOUS
<1> HIDE DEF first, second
<1>3. made \in Seq(CallRecords) /\ Ordered(made) /\ CallsIn(made) = CallsIn(first) \cup {b}
  BY <1>1, ConcatCalls
<1> HIDE DEF made
<1>4. \A c \in CallsIn(made) : c.f \notin Significant /\ Fits(c) /\ CallOK(c)'
  BY <1>1, <1>3
<1> QED
  BY <1>2, <1>3, <1>4, CallsOnly

LEMMA StackAfterTwoCalls ==
  ASSUME Inv, calls # << >>, NEW a \in CallRecords, NEW b \in CallRecords,
         NEW test \in BOOLEAN, Making(When(test, a) \o <<b>>)
  PROVE  Stack' \subseteq {a, b} \cup Waiting
<1> DEFINE first == When(test, a)
           second == <<b>>
           made == first \o second
<1>1. /\ first \in Seq(CallRecords) /\ CallsIn(first) = {c \in {a} : test}
      /\ second \in Seq(CallRecords) /\ CallsIn(second) = {b}
  BY ShortSequences, WhenCalls
<1>2. Making(made)
  OBVIOUS
<1> HIDE DEF first, second
<1>3. made \in Seq(CallRecords) /\ CallsIn(made) = CallsIn(first) \cup {b}
  BY <1>1, ConcatCalls
<1> HIDE DEF made
<1>4. Stack' = CallsIn(made) \cup Waiting
  BY <1>2, <1>3, Pushed DEF Inv, Types
<1> QED
  BY <1>1, <1>3, <1>4

\* During a dismissal the context can only gain capabilities, and before it has
\* been started, or while it is being given to the presenter, none change.
LEMMA UpdateCapabilitiesKeeps ==
  ASSUME Inv, UpdatePresentationCapabilities
  PROVE  Inv'
<1>1. /\ Running("UpdatePresentationCapabilities") /\ KeepsState
      /\ UNCHANGED <<context, container>>
  BY NothingChanges DEF UpdatePresentationCapabilities, otherThanContext
<1>2. /\ calls # << >> /\ arg.f = "UpdatePresentationCapabilities"
      /\ arg.f \notin Significant /\ PresentationKnownTo(arg)
      /\ Stack = {arg} \cup Waiting
  BY <1>1, RunningFacts DEF Significant, CallOK
<1>3. PICK can \in BOOLEAN : can <=> context.view_controller /\ ~context.ui_disabled
  OBVIOUS
<1>4. PICK test \in BOOLEAN : test <=> presenter.has_context
  OBVIOUS
<1>5. context \in ContextRecords
  BY DEF Inv, Types
<1>6. CASE can = context.capable
  <2>1. Returning
    BY <1>3, <1>5, <1>6 DEF UpdatePresentationCapabilities, Returning, ContextRecords
  <2> QED
    BY <1>1, <1>2, <2>1, NoCall
<1>7. CASE can # context.capable
  <2>1. PICK a : a = With("WillChangePresentationCapabilities", Flag(can))
    OBVIOUS
  <2>2. PICK b : b = With("UpdatePresentationCapabilitiesThen", Flag(can))
    OBVIOUS
  <2>3. Flag(can) \in {"true", "false"} /\ Flag(can) \in Words /\ (can <=> Flag(can) = "true")
    BY DEF Flag, Words
  <2>4. a \in CallRecords /\ a.f = "WillChangePresentationCapabilities" /\ a.x = Flag(can)
    <3>1. "WillChangePresentationCapabilities" \in Methods
      BY DEF Methods
    <3> QED
      BY <2>1, <2>3, <3>1, WithCall
  <2>5. b \in CallRecords /\ b.f = "UpdatePresentationCapabilitiesThen" /\ b.x = Flag(can)
    <3>1. "UpdatePresentationCapabilitiesThen" \in Methods
      BY DEF Methods
    <3> QED
      BY <2>2, <2>3, <3>1, WithCall
  <2>6. Making(When(test, a) \o <<b>>)
    BY <1>3, <1>4, <1>5, <1>7, <2>1, <2>2
       DEF UpdatePresentationCapabilities, When, ContextRecords
  <2>7. ASSUME NEW c \in Waiting
        PROVE  /\ MayRunBefore(arg, c) /\ ~GivesContext(c)
               /\ c.f = "OverlayUIWasDismissedThen" => can /\ ActiveRequest # c.r
    <3>1. MayRunBefore(arg, c) /\ c \in Stack
      BY <1>1, RunningFacts
    <3>2. ~GivesContext(c)
      BY <1>2, <1>3, <1>5, <1>7, <3>1 DEF PresentationKnownTo, ContextRecords
    <3>3. c.f = "OverlayUIWasDismissedThen" => ~context.capable /\ ActiveRequest # c.r
      BY <1>2, <3>1 DEF PresentationKnownTo, IsPresenting
    <3> QED
      BY <1>5, <1>7, <3>1, <3>2, <3>3 DEF ContextRecords
  <2>8. Fits(a)
    BY <1>2, <2>3, <2>4, <2>7
       DEF Fits, MayRunBefore, IsPopping, IsPresenting, IsDismissal
  <2>9. Fits(b)
    BY <1>2, <2>3, <2>5, <2>7
       DEF Fits, MayRunBefore, IsPopping, IsPresenting, IsDismissal
  <2>10. MayRunBefore(a, b)
    BY <2>4, <2>5 DEF MayRunBefore, Immediate, GivesContext, ChangesContext
  <2>11. Stack' \subseteq {a, b} \cup Waiting
    BY <1>2, <2>4, <2>5, <2>6, StackAfterTwoCalls
  <2>12. ActiveRequest' = ActiveRequest
    BY <1>1 DEF KeepsState, KeepsKnown, ActiveRequest, FrontRequest
  <2>13. PresentationKnownTo(a)' /\ PresentationKnownTo(b)'
    BY <2>4, <2>5, <2>7, <2>11, <2>12 DEF PresentationKnownTo
  <2>14. ContainerKnownTo(b)'
    <3>1. container.started \/ container.stopped
      BY <1>3, <1>5, <1>7 DEF Inv, UnstartedOK, ContextRecords
    <3> QED
      BY <1>1, <2>5, <3>1 DEF ContainerKnownTo, ChangesContext
  <2>15. CallOK(a)' /\ a.f \notin Significant
    BY <2>4, <2>13, CallParts DEF CallOK, Significant
  <2>16. CallOK(b)' /\ b.f \notin Significant
    BY <2>5, <2>13, <2>14, CallParts DEF CallOK, Significant
  <2> QED
    BY <1>1, <1>2, <2>4, <2>5, <2>6, <2>8, <2>9, <2>10, <2>15, <2>16, TwoCalls
<1> QED
  BY <1>6, <1>7

LEMMA UpdateCapabilitiesThenKeeps ==
  ASSUME Inv, UpdatePresentationCapabilitiesThen
  PROVE  Inv'
<1>1. /\ Running("UpdatePresentationCapabilitiesThen")
      /\ UNCHANGED <<phase, queues, delegate, owner, presenter, container>>
      /\ context' = [context EXCEPT !.capable = argFlag] /\ argFlag \in BOOLEAN
  BY DEF UpdatePresentationCapabilitiesThen, otherThanContext, argFlag
<1>2. /\ calls # << >> /\ arg.f = "UpdatePresentationCapabilitiesThen"
      /\ arg.f \notin Significant
      /\ PresentationKnownTo(arg) /\ ContainerKnownTo(arg) /\ Stack = {arg} \cup Waiting
  BY <1>1, RunningFacts DEF Significant, CallOK
<1>3. container.started \/ container.stopped
  BY <1>2 DEF ContainerKnownTo
<1>4. KeepsState
  BY <1>1, <1>3
     DEF KeepsState, KeepsKnown, Callback, Inv, Types, ContextRecords, UnstartedOK, Left
<1>5. PICK a : a = Do("DidChangePresentationCapabilities")
  OBVIOUS
<1>6. PICK test \in BOOLEAN : test <=> presenter.has_context
  OBVIOUS
<1>7. a \in CallRecords /\ a.f = "DidChangePresentationCapabilities"
  <2>1. "DidChangePresentationCapabilities" \in Methods
    BY DEF Methods
  <2> QED
    BY <1>5, <2>1, DoCall
<1>8. Making(When(test, a))
  BY <1>5, <1>6 DEF UpdatePresentationCapabilitiesThen, When
<1>9. Fits(a)
  BY <1>1, <1>2, <1>7, RunningFacts
     DEF Fits, MayRunBefore, IsPopping, IsPresenting, IsDismissal, GivesContext, ChangesContext
<1>10. ASSUME test PROVE CallOK(a)' /\ a.f \notin Significant
  <2>1. Stack' = {a} \cup Waiting
    BY <1>2, <1>7, <1>8, <1>10, StackAfterOneCall
  <2>2. ActiveRequest' = ActiveRequest
    BY <1>4 DEF KeepsState, KeepsKnown, ActiveRequest, FrontRequest
  <2>3. \A c \in Waiting : c.f = "OverlayUIWasDismissedThen" => IsPresenting(arg)
    BY <1>1, <1>2, RunningFacts DEF MayRunBefore, IsPopping, IsDismissal
  <2>4. \A c \in Waiting : c.f = "OverlayUIWasDismissedThen" => ActiveRequest # c.r
    BY <1>2, <2>3 DEF PresentationKnownTo
  <2>5. PresentationKnownTo(a)'
    BY <1>7, <2>1, <2>2, <2>4 DEF PresentationKnownTo
  <2> QED
    BY <1>7, <2>5, CallParts DEF CallOK, Significant
<1> QED
  BY <1>2, <1>4, <1>8, <1>9, <1>10, OneCall

LEMMA SetContextDelegateKeeps ==
  ASSUME Inv, SetContextDelegateThen
  PROVE  Inv'
<1>1. /\ Running("SetContextDelegateThen")
      /\ UNCHANGED <<phase, queues, delegate, owner, presenter, container>>
      /\ context' = [context EXCEPT !.has_delegate = argFlag] /\ argFlag \in BOOLEAN
  BY DEF SetContextDelegateThen, otherThanContext, argFlag
<1>2. /\ calls # << >> /\ arg.f = "SetContextDelegateThen" /\ arg.f \notin Significant
      /\ ContainerKnownTo(arg) /\ DismissalKnownTo(arg) /\ arg.x \in Words
  BY <1>1, RunningFacts DEF Significant, CallOK
<1>3. container.started \/ container.stopped
  BY <1>2 DEF ContainerKnownTo, ChangesContext
<1>4. KeepsState
  BY <1>1, <1>3
     DEF KeepsState, KeepsKnown, Callback, Inv, Types, ContextRecords, UnstartedOK, Left
<1>5. PICK a : a = With("SetPresentationContext", arg.x)
  OBVIOUS
<1>6. a \in CallRecords /\ a.f = "SetPresentationContext" /\ a.x = arg.x
  <2>1. "SetPresentationContext" \in Methods
    BY DEF Methods
  <2> QED
    BY <1>2, <1>5, <2>1, WithCall
<1>7. Making(<<a>>)
  BY <1>5 DEF SetContextDelegateThen
<1>8. Fits(a)
  BY <1>1, <1>2, <1>6, RunningFacts
     DEF Fits, MayRunBefore, IsPopping, IsPresenting, IsDismissal
<1>9. CallOK(a)' /\ a.f \notin Significant
  <2>1. DismissalKnownTo(a)'
    BY <1>2, <1>4, <1>6
       DEF KeepsState, KeepsKnown, DismissalKnownTo, IsDismissal, GivesContext, ChangesContext
  <2>2. ContainerKnownTo(a)'
    BY <1>1, <1>2, <1>6 DEF ContainerKnownTo, ChangesContext
  <2> QED
    BY <1>6, <2>1, <2>2, CallParts DEF CallOK, Significant
<1> QED
  BY <1>2, <1>4, <1>7, <1>8, <1>9, SingleCall

LEMMA StopContainerKeeps ==
  ASSUME Inv, StopContainerThen
  PROVE  Inv'
<1>1. /\ Running("StopContainerThen")
      /\ UNCHANGED <<phase, queues, delegate, owner, presenter, context>>
      /\ container' = [container EXCEPT !.window = FALSE, !.pc_started = FALSE,
                                        !.pc_view_controller = FALSE]
  BY DEF StopContainerThen, otherThanContext
<1>2. /\ calls # << >> /\ arg.f = "StopContainerThen" /\ arg.f \notin Significant
      /\ ContainerKnownTo(arg)
  BY <1>1, RunningFacts DEF Significant, CallOK
<1>3. KeepsState /\ container.stopped
  BY <1>1, <1>2
     DEF KeepsState, KeepsKnown, Callback, Inv, Types, ContainerRecords, UnstartedOK, Left,
         ContainerKnownTo
<1>4. PICK a : a = With("SetViewController", "false")
  OBVIOUS
<1>5. PICK test \in BOOLEAN : test <=> container.pc_started
  OBVIOUS
<1>6. a \in CallRecords /\ a.f = "SetViewController" /\ a.x = "false"
  <2>1. "SetViewController" \in Methods /\ "false" \in Words
    BY DEF Methods, Words
  <2> QED
    BY <1>4, <2>1, WithCall
<1>7. Making(When(test, a))
  BY <1>4, <1>5 DEF StopContainerThen, When
<1>8. \A c \in Waiting : MayRunBefore(arg, c) /\ c.f # "OverlayUIWasDismissedThen"
  BY <1>1, <1>2, RunningFacts DEF MayRunBefore, IsPopping, IsPresenting, IsDismissal
<1>9. Fits(a)
  BY <1>2, <1>6, <1>8
     DEF Fits, MayRunBefore, IsPopping, IsPresenting, IsDismissal, GivesContext, ChangesContext
<1>10. ASSUME test PROVE CallOK(a)' /\ a.f \notin Significant
  <2>1. Stack' = {a} \cup Waiting
    BY <1>2, <1>6, <1>7, <1>10, StackAfterOneCall
  <2>2. PresentationKnownTo(a)'
    BY <1>6, <1>8, <2>1 DEF PresentationKnownTo
  <2>3. ContainerKnownTo(a)'
    BY <1>3, <1>6 DEF ContainerKnownTo, ChangesContext, KeepsState, KeepsKnown
  <2> QED
    BY <1>6, <2>2, <2>3, CallParts DEF CallOK, Significant
<1> QED
  BY <1>2, <1>3, <1>7, <1>9, <1>10, OneCall

LEMMA StopPresentationContextKeeps ==
  ASSUME Inv, StopPresentationContextThen
  PROVE  Inv'
<1>1. /\ Running("StopPresentationContextThen") /\ Returning
      /\ UNCHANGED <<phase, queues, delegate, owner, presenter, context>>
      /\ container' = [container EXCEPT !.pc_view_controller = FALSE]
  BY DEF StopPresentationContextThen, otherThanContext
<1>2. calls # << >> /\ arg.f \notin Significant
  BY <1>1, RunningFacts DEF Significant
<1>3. KeepsState
  BY <1>1
     DEF KeepsState, KeepsKnown, Callback, Inv, Types, ContainerRecords, UnstartedOK, Left
<1> QED
  BY <1>1, <1>2, <1>3, NoCall

\* -updatePresentationContext:forPresentationCapabilities:.
LEMMA UpdatePresentationContextKeeps ==
  ASSUME Inv, UpdatePresentationContext
  PROVE  Inv'
<1>1. /\ Running("updatePresentationContext")
      /\ UNCHANGED <<phase, queues, delegate, owner, presenter, context>>
  BY DEF UpdatePresentationContext, otherThanContext
<1>2. /\ calls # << >> /\ arg.f = "updatePresentationContext" /\ arg.f \notin Significant
      /\ ContainerKnownTo(arg) /\ PresentationKnownTo(arg) /\ Stack = {arg} \cup Waiting
  BY <1>1, RunningFacts DEF Significant, CallOK
<1>3. container.started \/ container.stopped
  BY <1>2 DEF ContainerKnownTo
<1>4. ASSUME NEW c \in Waiting
      PROVE  /\ MayRunBefore(arg, c)
             /\ c.f = "OverlayUIWasDismissedThen" =>
                  arg.x = "required" /\ ActiveRequest # c.r /\ ~context.capable
  <2>1. MayRunBefore(arg, c) /\ c \in Stack
    BY <1>1, RunningFacts
  <2>2. c.f = "OverlayUIWasDismissedThen" => IsPresenting(arg) /\ arg.x = "required"
    BY <1>2, <2>1 DEF MayRunBefore, IsPopping, IsPresenting, IsDismissal
  <2> QED
    BY <1>2, <2>1, <2>2 DEF PresentationKnownTo
<1>5. ActiveRequest' = ActiveRequest
  BY <1>1 DEF ActiveRequest, FrontRequest
<1>6. ASSUME KeepsState, NEW flag \in {"true", "false"}, NEW a, a = With("SetViewController", flag),
             flag = "false" => arg.x # "required",
             Stack' \subseteq {a, Do("StopPresentationContextThen")} \cup Waiting
      PROVE  /\ a \in CallRecords /\ a.f = "SetViewController" /\ Fits(a)
             /\ CallOK(a)' /\ a.f \notin Significant
  <2>1. a \in CallRecords /\ a.f = "SetViewController" /\ a.x = flag
    <3>1. "SetViewController" \in Methods /\ flag \in Words
      BY DEF Methods, Words
    <3> QED
      BY <1>6, <3>1, WithCall
  <2>2. Fits(a)
    BY <1>2, <1>4, <1>6, <2>1
       DEF Fits, MayRunBefore, IsPopping, IsPresenting, IsDismissal, GivesContext, ChangesContext
  <2>3. Do("StopPresentationContextThen").f = "StopPresentationContextThen"
    BY DEF Do, Call
  <2>4. PresentationKnownTo(a)'
    BY <1>1, <1>4, <1>5, <1>6, <2>1, <2>3 DEF PresentationKnownTo
  <2>5. ContainerKnownTo(a)'
    BY <1>3, <1>6, <2>1 DEF ContainerKnownTo, ChangesContext, KeepsState, KeepsKnown
  <2> QED
    BY <2>1, <2>2, <2>4, <2>5, CallParts DEF CallOK, Significant
<1>7. CASE /\ UIKind = "contained" /\ UNCHANGED container
           /\ Making(<<With("SetViewController", Flag(arg.x # "kNone"))>>)
  <2>1. KeepsState
    BY <1>1, <1>7, NothingChanges
  <2>2. PICK flag \in {"true", "false"} : flag = Flag(arg.x # "kNone")
    BY DEF Flag
  <2>3. flag = "false" => arg.x # "required"
    BY <2>2 DEF Flag
  <2>4. PICK a : a = With("SetViewController", flag)
    OBVIOUS
  <2>5. a \in CallRecords
    <3>1. "SetViewController" \in Methods /\ flag \in Words
      BY DEF Methods, Words
    <3> QED
      BY <2>4, <3>1, WithCall
  <2>6. Making(When(TRUE, a)) /\ Making(<<a>>)
    BY <1>7, <2>2, <2>4 DEF When
  <2>7. Stack' = {a} \cup Waiting
    BY <1>2, <2>5, <2>6, StackAfterOneCall
  <2>8. Fits(a) /\ CallOK(a)' /\ a.f \notin Significant
    BY <1>6, <2>1, <2>3, <2>4, <2>7
  <2> QED
    BY <1>2, <2>1, <2>6, <2>8, SingleCall
<1>8. CASE /\ container' = IF container.window /\ ~container.pc_started
                           THEN [container EXCEPT !.pc_started = TRUE,
                                                  !.pc_view_controller = TRUE,
                                                  !.pc_presenting = TRUE]
                           ELSE container
           /\ Returning
  <2>1. KeepsState
    BY <1>1, <1>3, <1>8
       DEF KeepsState, KeepsKnown, Callback, Inv, Types, ContainerRecords, UnstartedOK, Left
  <2> QED
    BY <1>2, <1>8, <2>1, NoCall
<1>9. CASE /\ arg.x = "kNone" /\ container' = [container EXCEPT !.pc_started = FALSE]
           /\ Making(IF container.pc_started
                     THEN <<With("SetViewController", "false"),
                            Do("StopPresentationContextThen")>>
                     ELSE <<>>)
  <2>1. KeepsState
    BY <1>1, <1>3, <1>9
       DEF KeepsState, KeepsKnown, Callback, Inv, Types, ContainerRecords, UnstartedOK, Left
  <2>2. CASE ~container.pc_started
    <3>1. Returning
      BY <1>9, <2>2 DEF Returning
    <3> QED
      BY <1>2, <2>1, <3>1, NoCall
  <2>3. CASE container.pc_started
    <3>1. PICK a : a = With("SetViewController", "false")
      OBVIOUS
    <3>2. PICK b : b = Do("StopPresentationContextThen")
      OBVIOUS
    <3>3. a \in CallRecords
      <4>1. "SetViewController" \in Methods /\ "false" \in Words
        BY DEF Methods, Words
      <4> QED
        BY <3>1, <4>1, WithCall
    <3>4. b \in CallRecords /\ b.f = "StopPresentationContextThen"
      <4>1. "StopPresentationContextThen" \in Methods
        BY DEF Methods
      <4> QED
        BY <3>2, <4>1, DoCall
    <3>5. Making(When(TRUE, a) \o <<b>>)
      <4>1. <<a>> \o <<b>> = <<a, b>>
        BY <3>3, <3>4, PairOfCalls
      <4> QED
        BY <1>9, <2>3, <3>1, <3>2, <4>1 DEF When
    <3>6. Stack' \subseteq {a, b} \cup Waiting
      BY <1>2, <3>3, <3>4, <3>5, StackAfterTwoCalls
    <3>7. a.f = "SetViewController" /\ Fits(a) /\ CallOK(a)' /\ a.f \notin Significant
      BY <1>6, <1>9, <2>1, <3>1, <3>2, <3>6
    <3>8. Fits(b)
      BY <1>2, <1>4, <1>9, <3>4
         DEF Fits, MayRunBefore, IsPopping, IsPresenting, IsDismissal, GivesContext, ChangesContext
    <3>9. CallOK(b)' /\ b.f \notin Significant
      BY <3>4, PlainCall DEF Plain
    <3>10. MayRunBefore(a, b)
      BY <3>4 DEF MayRunBefore, Immediate, GivesContext, ChangesContext
    <3> QED
      BY <1>2, <2>1, <3>3, <3>4, <3>5, <3>7, <3>8, <3>9, <3>10, TwoCalls
  <2> QED
    BY <2>2, <2>3
<1> QED
  BY <1>7, <1>8, <1>9 DEF UpdatePresentationContext

\* The calls by which CancelAllOverlayUI goes through the tabs.
LEMMA CancelAllCalls ==
  ASSUME NEW S \in SUBSET WebStates, NEW order \in SetToSeqs(S),
         NEW made, made = [i \in 1..Len(order) |-> OnWebState("CancelFrontRequestUI", order[i])]
  PROVE  /\ made \in Seq(CallRecords)
         /\ \A c \in CallsIn(made) : c \in CallRecords /\ c.f = "CancelFrontRequestUI"
<1>1. IsFiniteSet(S) /\ Cardinality(S) \in Nat
  BY WebStatesAssumption, FS_Subset, FS_CardinalityType
<1>2. order \in [1..Cardinality(S) -> S]
  BY DEF SetToSeqs
<1>3. order \in Seq(S) /\ Len(order) = Cardinality(S)
  BY <1>1, <1>2, FunctionIsSeq
<1>4. ASSUME NEW i \in 1..Len(order)
      PROVE  /\ OnWebState("CancelFrontRequestUI", order[i]) \in CallRecords
             /\ OnWebState("CancelFrontRequestUI", order[i]).f = "CancelFrontRequestUI"
  <2>1. order[i] \in WebStates \cup {Null}
    BY <1>3
  <2>2. "CancelFrontRequestUI" \in Methods
    BY DEF Methods
  <2> QED
    BY <2>1, <2>2, WebStateCall
<1>5. made \in [1..Len(order) -> CallRecords]
  BY <1>4
<1>6. made \in Seq(CallRecords) /\ Len(made) = Len(order)
  BY <1>1, <1>3, <1>5, FunctionIsSeq
<1>7. \A i \in 1..Len(made) : made[i] \in CallRecords /\ made[i].f = "CancelFrontRequestUI"
  BY <1>4, <1>6
<1> QED
  BY <1>6, <1>7 DEF CallsIn

LEMMA SetPresentationContextKeeps ==
  ASSUME Inv, SetPresentationContext
  PROVE  Inv'
<1>1. Running("SetPresentationContext") /\ KeepsState /\ UNCHANGED container
  BY NothingChanges DEF SetPresentationContext, otherThanPresenter
<1>2. /\ calls # << >> /\ arg.f = "SetPresentationContext" /\ arg.f \notin Significant
      /\ ContainerKnownTo(arg) /\ DismissalKnownTo(arg) /\ arg.x \in Words
      /\ \A c \in Waiting : MayRunBefore(arg, c)
  BY <1>1, RunningFacts DEF Significant, CallOK
<1>3. PICK order \in SetToSeqs(Tabs) :
        Making((IF presenter.has_context
                THEN [i \in 1..Len(order) |-> OnWebState("CancelFrontRequestUI", order[i])]
                ELSE <<>>)
               \o <<With("SetPresentationContextThen", arg.x)>>)
  BY DEF SetPresentationContext
<1> DEFINE first == IF presenter.has_context
                    THEN [i \in 1..Len(order) |->
                            OnWebState("CancelFrontRequestUI", order[i])]
                    ELSE <<>>
<1>4. /\ first \in Seq(CallRecords)
      /\ \A c \in CallsIn(first) : c \in CallRecords /\ c.f = "CancelFrontRequestUI"
  <2>1. CASE presenter.has_context
    <3>1. Tabs \in SUBSET WebStates
      BY DEF Tabs
    <3> QED
      BY <2>1, <3>1, CancelAllCalls
  <2>2. CASE ~presenter.has_context
    <3>1. << >> \in Seq(CallRecords) /\ Len(<< >>) = 0 /\ first = << >>
      BY <2>2
    <3> HIDE DEF first
    <3> QED
      BY <3>1 DEF CallsIn
  <2> QED
    BY <2>1, <2>2
<1>5. PICK b : b = With("SetPresentationContextThen", arg.x)
  OBVIOUS
<1>6. b \in CallRecords /\ b.f = "SetPresentationContextThen" /\ b.x = arg.x
  <2>1. "SetPresentationContextThen" \in Methods
    BY DEF Methods
  <2> QED
    BY <1>2, <1>5, <2>1, WithCall
<1> DEFINE second == <<b>>
           made == first \o second
<1>7. Making(made)
  BY <1>3, <1>5
<1>8. second \in Seq(CallRecords) /\ CallsIn(second) = {b} /\ Ordered(second)
  BY <1>6, ShortSequences
<1> HIDE DEF first, second
<1>9. Ordered(first) /\ \A a \in CallsIn(first) : MayRunBefore(a, b)
  <2>1. ASSUME NEW i \in 1..Len(first), NEW j \in 1..Len(first)
        PROVE  MayRunBefore(first[i], first[j])
    <3>1. first[j].f = "CancelFrontRequestUI"
      BY <1>4 DEF CallsIn
    <3> QED
      BY <3>1 DEF MayRunBefore, Immediate, GivesContext, ChangesContext
  <2>2. \A a \in CallsIn(first) : MayRunBefore(a, b)
    BY <1>4, <1>6 DEF MayRunBefore, Immediate
  <2> QED
    BY <2>1, <2>2 DEF Ordered
<1>10. /\ made \in Seq(CallRecords) /\ Ordered(made)
       /\ CallsIn(made) = CallsIn(first) \cup {b}
  BY <1>4, <1>8, <1>9, ConcatCalls
<1> HIDE DEF made
<1>11. ASSUME NEW a \in CallsIn(first)
       PROVE  a.f \notin Significant /\ Fits(a) /\ CallOK(a)'
  <2>1. Fits(a)
    BY <1>2, <1>4
       DEF Fits, MayRunBefore, IsPopping, IsPresenting, IsDismissal, GivesContext, ChangesContext
  <2> QED
    BY <1>4, <2>1, PlainCall DEF Plain
<1>12. b.f \notin Significant /\ Fits(b) /\ CallOK(b)'
  <2>1. DismissalKnownTo(b)'
    BY <1>1, <1>2, <1>6
       DEF KeepsState, KeepsKnown, DismissalKnownTo, IsDismissal, GivesContext, ChangesContext
  <2>2. ContainerKnownTo(b)'
    BY <1>1, <1>2, <1>6 DEF ContainerKnownTo, ChangesContext
  <2>3. Fits(b)
    BY <1>2, <1>6 DEF Fits, MayRunBefore, IsPopping, IsPresenting, IsDismissal
  <2> QED
    BY <1>6, <2>1, <2>2, <2>3, CallParts DEF CallOK, Significant
<1>13. \A c \in CallsIn(made) : c.f \notin Significant /\ Fits(c) /\ CallOK(c)'
  BY <1>10, <1>11, <1>12
<1> QED
  BY <1>1, <1>2, <1>7, <1>10, <1>13, CallsOnly

----------------------------------------------------------------------------
(* The methods that change what is presented.                              *)

\* The stack when the method that runs makes one call, or none.
LEMMA NewStack ==
  ASSUME Inv, calls # << >>, NEW test \in BOOLEAN, NEW a, test => Fits(a),
         Making(When(test, a))
  PROVE  /\ calls' \in Seq(CallRecords) /\ StackOrdered'
         /\ Stack = {arg} \cup Waiting
         /\ Stack' = {c \in {a} : test} \cup Waiting
<1> DEFINE made == When(test, a)
<1>1. test => a \in CallRecords
  BY DEF Fits
<1>2. made \in Seq(CallRecords) /\ CallsIn(made) = {c \in {a} : test} /\ Ordered(made)
  BY <1>1, WhenCalls
<1>3. Making(made)
  OBVIOUS
<1> HIDE DEF made
<1>4. \A b \in CallsIn(made), c \in Waiting : MayRunBefore(b, c)
  BY <1>2 DEF Fits
<1> QED
  BY <1>2, <1>3, <1>4, Pushed DEF Inv, Types

\* No dismissal and no presentation is under way below a call that is neither
\* part of one.
LEMMA NothingUnderWay ==
  ASSUME Inv, calls # << >>, NEW c \in Waiting
  PROVE  /\ c.f # "ShowOverlayUI" /\ c.f # "OverlayWasDismissed"
         /\ c.f # "OverlayUIDidFinishDismissal"
         /\ ~IsPopping(arg) => c.f # "OverlayWasDismissedThen" /\ ~IsDismissal(c)
  BY WaitingFacts DEF Inv, MayRunBefore, Immediate, IsDismissal

LEMMA PresentKeeps ==
  ASSUME Inv, PresentOverlayForActiveRequest
  PROVE  Inv'
<1>1. /\ Running("PresentOverlayForActiveRequest")
      /\ UNCHANGED <<phase, queues, delegate, owner, context, container>>
  BY DEF PresentOverlayForActiveRequest, otherThanPresenter
<1>2. /\ calls # << >> /\ arg.f = "PresentOverlayForActiveRequest"
      /\ arg.f \notin Significant /\ PresentationKnownTo(arg) /\ Stack = {arg} \cup Waiting
      /\ \A c \in Waiting : MayRunBefore(arg, c)
  BY <1>1, RunningFacts DEF Significant, CallOK
<1>3. \A c \in Waiting : c.f = "OverlayUIWasDismissedThen" => ActiveRequest # c.r
  BY <1>2 DEF PresentationKnownTo, IsPresenting
<1>4. CASE Returning /\ UNCHANGED presenter
  BY <1>1, <1>2, <1>4, NoCall, NothingChanges
<1>5. CASE ~CanShowUI /\ UNCHANGED presenter /\ Making(<<Do("PrepareToShowOverlayUI")>>)
  <2>1. KeepsState
    BY <1>1, <1>5, NothingChanges
  <2>2. PICK a : a = Do("PrepareToShowOverlayUI")
    OBVIOUS
  <2>3. a \in CallRecords /\ a.f = "PrepareToShowOverlayUI"
    <3>1. "PrepareToShowOverlayUI" \in Methods
      BY DEF Methods
    <3> QED
      BY <2>2, <3>1, DoCall
  <2>4. Fits(a)
    BY <1>2, <2>3
       DEF Fits, MayRunBefore, IsPopping, IsPresenting, IsDismissal, GivesContext, ChangesContext
  <2>5. Making(When(TRUE, a)) /\ Making(<<a>>)
    BY <1>5, <2>2 DEF When
  <2>6. Stack' = {a} \cup Waiting
    BY <1>2, <2>3, <2>5, StackAfterOneCall
  <2>7. ActiveRequest' = ActiveRequest /\ ~context'.capable
    BY <1>1, <1>5 DEF ActiveRequest, FrontRequest, CanShowUI
  <2>8. PresentationKnownTo(a)'
    BY <1>3, <2>3, <2>6, <2>7 DEF PresentationKnownTo
  <2>9. CallOK(a)' /\ a.f \notin Significant
    BY <2>3, <2>8, CallParts DEF CallOK, Significant
  <2> QED
    BY <1>2, <2>1, <2>4, <2>5, <2>9, SingleCall
<1>6. CASE /\ presenter.has_context /\ ~IsShowingOverlayUI /\ ActiveRequest # Null
           /\ CanShowUI
           /\ presenter' = [presenter EXCEPT
                              !.presenting = TRUE,
                              !.presented_request = ActiveRequest,
                              !.previously_presented = @ \cup {ActiveRequest}]
           /\ Making(<<Call("ShowOverlayUI", ActiveRequest, presenter.active_web_state,
                            "none")>>)
  <2>1. ActiveRequest \in Requests /\ presenter.active_web_state \in WebStates
    BY <1>6, ActiveRequestOwner
  <2>2. PICK a : a = Call("ShowOverlayUI", ActiveRequest, presenter.active_web_state, "none")
    OBVIOUS
  <2>3. /\ a \in CallRecords /\ a.f = "ShowOverlayUI"
        /\ a.r = ActiveRequest /\ a.w = presenter.active_web_state
    <3>1. "ShowOverlayUI" \in Methods /\ "none" \in Words
      BY DEF Methods, Words
    <3> QED
      BY <2>1, <2>2, <3>1, NewCall
  <2>4. Fits(a)
    BY <1>2, <2>3
       DEF Fits, MayRunBefore, IsPopping, IsPresenting, IsDismissal, GivesContext, ChangesContext
  <2>5. Making(When(TRUE, a))
    BY <1>6, <2>2 DEF When
  <2>6. calls' \in Seq(CallRecords) /\ StackOrdered' /\ Stack' = {a} \cup Waiting
    BY <1>2, <2>4, <2>5, NewStack
  <2>7. /\ presenter \in PresenterRecords
        /\ presenter' \in PresenterRecords
        /\ presenter'.presenting /\ presenter'.presented_request = a.r
        /\ UNCHANGED presenter.has_context /\ UNCHANGED presenter.active_web_state
        /\ UNCHANGED presenter.queue_replaced_delegate
    BY <1>6, <2>1, <2>3 DEF Inv, Types, PresenterRecords
  <2>8. KeepsKnown
    BY <1>1, <2>7 DEF KeepsKnown, Left, Callback
  <2>9. ActiveRequest' = ActiveRequest
    BY <2>8 DEF KeepsKnown, ActiveRequest, FrontRequest
  <2>10. Types'
    BY <1>1, <2>6, <2>7 DEF Inv, Types
  <2>11. CallOK(a)'
    <3>1. UIKnownTo(a)'
      BY <1>1, <1>6, <2>1, <2>3, <2>7, <2>9, NullAssumption
         DEF UIKnownTo, IsShowingOverlayUI, HasState, CanShowUI
    <3>2. PresentationKnownTo(a)'
      BY <1>3, <2>3, <2>6, <2>9 DEF PresentationKnownTo
    <3>3. TabsKnownTo(a)'
      BY <2>1, <2>3 DEF TabsKnownTo
    <3> QED
      BY <2>3, <3>1, <3>2, <3>3, CallParts DEF CallOK
  <2>12. CallsOK'
    <3>1. /\ Waiting \subseteq Stack' /\ arg.f # "SetActiveWebState"
          /\ \A b \in Stack' : b.f = "OverlayUIWasDismissedThen" => b \in Stack
      BY <1>2, <2>3, <2>6
    <3>2. \A c \in Waiting : CallOK(c)'
      BY <1>2, <2>8, <3>1, WaitingStaysOK
    <3> QED
      BY <2>6, <2>11, <3>2 DEF CallsOK
  <2>13. UnstartedOK' /\ QueuesOK'
    BY <1>1, <2>7 DEF Inv, UnstartedOK, QueuesOK
  <2>14. ContextOK'
    <3>1. \A c \in Stack : c.f \in {"OverlayUIDidFinishDismissal", "OverlayUIWasDismissedThen"}
                             => c \in Stack'
      BY <1>2, <2>6
    <3> QED
      BY <1>1, <3>1, ContextStaysOK DEF Inv
  <2>15. ~presenter.queue_replaced_delegate
    <3>1. \A c \in Stack : c.f # "ShowOverlayUI" /\ ~IsDismissal(c)
      BY <1>2, NothingUnderWay DEF IsDismissal, IsPopping
    <3> QED
      BY <1>6, <3>1 DEF Inv, PresenterOK
  <2>16. PresenterOK'
    BY <1>1, <1>6, <2>1, <2>3, <2>6, <2>7, <2>15, NullAssumption DEF Inv, PresenterOK, Left
  <2> QED
    BY <2>6, <2>10, <2>12, <2>13, <2>14, <2>16 DEF Inv
<1> QED
  BY <1>4, <1>5, <1>6 DEF PresentOverlayForActiveRequest

\* The dismissal callback, when the presenter has lost the context or the queue,
\* or goes on to its second half.
LEMMA OverlayWasDismissedKeeps ==
  ASSUME Inv, OverlayWasDismissed
  PROVE  Inv'
<1>1. /\ Running("OverlayWasDismissed")
      /\ UNCHANGED <<phase, queues, delegate, owner, context, container>>
  BY DEF OverlayWasDismissed, otherThanPresenter
<1>2. /\ calls # << >> /\ arg.f = "OverlayWasDismissed" /\ Stack = {arg} \cup Waiting
      /\ arg \in CallRecords /\ arg.r \in Requests \cup {Null} /\ arg.w \in WebStates
      /\ \A c \in Waiting : MayRunBefore(arg, c)
  BY <1>1, RunningFacts DEF CallOK, TabsKnownTo
<1>3. arg.r # Null /\ arg.r = context.request /\ ~Callback(arg.r) /\ ~IsShowingOverlayUI
  <2>1. DismissalKnownTo(arg)
    BY <1>1, RunningFacts DEF CallOK
  <2> QED
    BY <1>2, <2>1 DEF DismissalKnownTo, IsDismissal, IsShowingOverlayUI, Callback
<1>4. \A c \in Waiting : /\ c.f # "ShowOverlayUI" /\ ~IsDismissal(c)
                         /\ c.f = "OverlayUIWasDismissedThen" => c.r = context.request
                         /\ ~GivesContext(c)
  <2>1. ~IsPopping(arg) /\ ~IsPresenting(arg)
    BY <1>2 DEF IsPopping, IsPresenting
  <2> QED
    BY <1>2, <1>3, <2>1, NothingUnderWay DEF MayRunBefore
<1>5. /\ presenter \in PresenterRecords /\ PresenterOK /\ ContextOK /\ QueuesOK
      /\ UnstartedOK /\ Types
  BY DEF Inv, Types
<1>6. QueuesOK'
  BY <1>1, <1>5 DEF QueuesOK
<1>7. CASE ~presenter.has_context /\ Returning /\ UNCHANGED presenter
  <2>1. Making(When(FALSE, arg))
    BY <1>7 DEF When, Returning
  <2>2. calls' \in Seq(CallRecords) /\ StackOrdered' /\ Stack' = Waiting
    BY <1>2, <2>1, NewStack
  <2>3. KeepsKnown
    BY <1>1, <1>7 DEF KeepsKnown, Left, Callback
  <2>4. CallsOK'
    BY <1>2, <2>2, <2>3, WaitingStaysOK DEF CallsOK
  <2>5. ContextOK'
    BY <1>1, <1>2, <1>5, <2>2, ContextStaysOK
  <2>6. PresenterOK'
    BY <1>1, <1>5, <1>7 DEF PresenterOK, Left
  <2> QED
    BY <1>1, <1>5, <1>6, <1>7, <2>2, <2>4, <2>5, <2>6 DEF Inv, Types, UnstartedOK
<1>8. CASE /\ presenter.has_context /\ presenter.queue_replaced_delegate
           /\ presenter' = [presenter EXCEPT !.presenting = FALSE,
                                             !.queue_replaced_delegate = FALSE]
           /\ Making(When(ActiveRequest # Null, Do("PresentOverlayForActiveRequest")))
  <2>1. PICK a : a = Do("PresentOverlayForActiveRequest")
    OBVIOUS
  <2>2. PICK test \in BOOLEAN : test <=> ActiveRequest # Null
    OBVIOUS
  <2>3. a \in CallRecords /\ a.f = "PresentOverlayForActiveRequest"
    <3>1. "PresentOverlayForActiveRequest" \in Methods
      BY DEF Methods
    <3> QED
      BY <2>1, <3>1, DoCall
  <2>4. Fits(a)
    BY <1>2, <1>4, <2>3 DEF Fits, MayRunBefore, IsPopping, IsPresenting, IsDismissal
  <2>5. Making(When(test, a))
    BY <1>8, <2>1, <2>2 DEF When
  <2>6. /\ calls' \in Seq(CallRecords) /\ StackOrdered'
        /\ Stack' = {c \in {a} : test} \cup Waiting
    BY <1>2, <2>4, <2>5, NewStack
  <2>7. /\ presenter' \in PresenterRecords
        /\ ~presenter'.presenting /\ ~presenter'.queue_replaced_delegate
        /\ UNCHANGED presenter.has_context /\ UNCHANGED presenter.active_web_state
        /\ UNCHANGED presenter.presented_request
    BY <1>5, <1>8 DEF PresenterRecords
  <2>8. ActiveRequest' = ActiveRequest
    BY <1>1, <2>7 DEF ActiveRequest, FrontRequest
  <2>9. ActiveRequest # context.request
    BY <1>3, <1>5, <1>8, ActiveRequestOwner DEF PresenterOK
  <2>10. CallOK(a)'
    BY <1>4, <2>3, <2>6, <2>8, <2>9, PresentCall
  <2>11. ASSUME NEW c \in Waiting PROVE CallOK(c)'
    <3>1. c \in CallRecords /\ CallOK(c) /\ MayRunBefore(arg, c)
      BY <1>1, RunningFacts
    <3>2. TabsKnownTo(c)'
      <4>1. /\ \A w \in WebStates : /\ Left(w) => Left(w)'
                                    /\ phase[w] = "tab" => phase'[w] = "tab"
            /\ \A b \in Stack : b.f = "SetActiveWebState" => b \in Stack'
        BY <1>1, <1>2, <2>6 DEF Left
      <4> QED
        BY <2>7, <3>1, <4>1, TabsStayKnown DEF CallOK
    <3>3. QueuesKnownTo(c)' /\ UIKnownTo(c)'
      BY <3>1, WaitingIsNotImmediate
    <3>4. DismissalKnownTo(c)'
      BY <1>1, <1>4, <3>1 DEF CallOK, DismissalKnownTo, IsDismissal, Callback, GivesContext,
                              ChangesContext
    <3>5. ContainerKnownTo(c)'
      BY <1>1, <3>1, ContainerStaysKnown DEF CallOK
    <3>6. \A b \in Stack' : b.f = "OverlayUIWasDismissedThen" => b \in Stack
      BY <1>2, <2>3, <2>6
    <3>7. PresentationKnownTo(c)'
      BY <2>8, <3>1, <3>6, PresentationStaysKnown DEF CallOK
    <3> QED
      BY <3>2, <3>3, <3>4, <3>5, <3>7 DEF CallOK
  <2>12. CallsOK'
    BY <2>6, <2>10, <2>11 DEF CallsOK
  <2>13. ContextOK'
    BY <1>1, <1>2, <1>5, <2>6, ContextStaysOK
  <2>14. PresenterOK'
    <3>1. ~IsShowingOverlayUI'
      BY <1>1, <1>3 DEF IsShowingOverlayUI, HasState
    <3>2. \A c \in Stack' : c.f # "ShowOverlayUI" /\ ~IsDismissal(c)
      BY <1>4, <2>3, <2>6 DEF IsDismissal
    <3> QED
      BY <1>1, <1>5, <1>8, <2>7, <3>1, <3>2 DEF PresenterOK, Left
  <2> QED
    BY <1>1, <1>5, <1>6, <2>6, <2>7, <2>12, <2>13, <2>14 DEF Inv, Types, UnstartedOK
<1>9. CASE /\ presenter.has_context /\ ~presenter.queue_replaced_delegate
           /\ UNCHANGED presenter
           /\ Making(When(/\ arg.x = "kUserInteraction"
                          /\ phase[arg.w] # "destroyed"
                          /\ arg.r # presenter.removed_request,
                          OnWebState("PopFrontRequest", arg.w))
                     \o <<OnRequest("OverlayWasDismissedThen", arg.r)>>)
  <2>1. PICK a : a = OnWebState("PopFrontRequest", arg.w)
    OBVIOUS
  <2>2. PICK b : b = OnRequest("OverlayWasDismissedThen", arg.r)
    OBVIOUS
  <2>3. PICK test \in BOOLEAN : test <=> /\ arg.x = "kUserInteraction"
                                         /\ phase[arg.w] # "destroyed"
                                         /\ arg.r # presenter.removed_request
    OBVIOUS
  <2>4. a \in CallRecords /\ a.f = "PopFrontRequest" /\ a.w = arg.w
    <3>1. "PopFrontRequest" \in Methods
      BY DEF Methods
    <3> QED
      BY <1>2, <2>1, <3>1, WebStateCall
  <2>5. b \in CallRecords /\ b.f = "OverlayWasDismissedThen" /\ b.r = arg.r
    <3>1. "OverlayWasDismissedThen" \in Methods
      BY DEF Methods
    <3> QED
      BY <1>2, <2>2, <3>1, RequestCall
  <2>6. Fits(a) /\ Fits(b)
    BY <1>2, <1>4, <2>4, <2>5 DEF Fits, MayRunBefore, IsPopping, IsPresenting, IsDismissal
  <2>7. MayRunBefore(a, b)
    BY <2>4, <2>5 DEF MayRunBefore, Immediate, IsPopping, GivesContext, ChangesContext
  <2> DEFINE first == When(test, a)
             second == <<b>>
             made == first \o second
  <2>8. Making(made)
    BY <1>9, <2>1, <2>2, <2>3 DEF When
  <2>9. /\ first \in Seq(CallRecords) /\ CallsIn(first) = {c \in {a} : test} /\ Ordered(first)
        /\ second \in Seq(CallRecords) /\ CallsIn(second) = {b} /\ Ordered(second)
    BY <2>4, <2>5, ShortSequences, WhenCalls
  <2> HIDE DEF first, second
  <2>10. made \in Seq(CallRecords) /\ Ordered(made) /\ CallsIn(made) = CallsIn(first) \cup {b}
    BY <2>7, <2>9, ConcatCalls
  <2> HIDE DEF made
  <2>11. \A d \in CallsIn(made), c \in Waiting : MayRunBefore(d, c)
    BY <2>6, <2>9, <2>10 DEF Fits
  <2>12. /\ calls' \in Seq(CallRecords) /\ StackOrdered'
         /\ Stack' = {c \in {a} : test} \cup {b} \cup Waiting
    BY <1>2, <1>5, <2>8, <2>9, <2>10, <2>11, Pushed DEF Inv, Types
  <2>13. KeepsKnown
    BY <1>1, <1>9 DEF KeepsKnown, Left, Callback
  <2>14. CallOK(a)' /\ CallOK(b)'
    <3>1. TabsKnownTo(a)'
      BY <1>2, <2>4 DEF TabsKnownTo
    <3>2. DismissalKnownTo(b)'
      BY <1>1, <1>3, <1>9, <2>5
         DEF DismissalKnownTo, IsDismissal, Callback, GivesContext, ChangesContext
    <3> QED
      BY <2>4, <2>5, <3>1, <3>2, CallParts DEF CallOK
  <2>15. CallsOK'
    <3>1. /\ Waiting \subseteq Stack' /\ arg.f # "SetActiveWebState"
          /\ \A c \in Stack' : c.f = "OverlayUIWasDismissedThen" => c \in Stack
      BY <1>2, <2>4, <2>5, <2>12
    <3>2. \A c \in Waiting : CallOK(c)'
      BY <1>2, <2>13, <3>1, WaitingStaysOK
    <3> QED
      BY <2>12, <2>14, <3>2 DEF CallsOK
  <2>16. ContextOK'
    BY <1>1, <1>2, <1>5, <2>12, ContextStaysOK
  <2>17. PresenterOK'
    <3>1. IsDismissal(arg) /\ IsDismissal(b) /\ arg \in Stack /\ b \in Stack'
      BY <1>2, <2>5, <2>12 DEF IsDismissal
    <3>2. \A c \in Stack : c.f # "ShowOverlayUI"
      BY <1>2, <1>4
    <3>3. IsShowingOverlayUI' = IsShowingOverlayUI
      BY <1>1 DEF IsShowingOverlayUI, HasState
    <3> QED
      BY <1>1, <1>5, <1>9, <3>1, <3>2, <3>3 DEF PresenterOK, Left
  <2> QED
    BY <1>1, <1>5, <1>6, <1>9, <2>12, <2>15, <2>16, <2>17 DEF Inv, Types, UnstartedOK
<1> QED
  BY <1>7, <1>8, <1>9 DEF OverlayWasDismissed

LEMMA NewStackOfTwo ==
  ASSUME Inv, calls # << >>, NEW test \in BOOLEAN, NEW a, test => Fits(a),
         NEW other \in BOOLEAN, NEW b, other => Fits(b),
         test /\ other => MayRunBefore(a, b),
         Making(When(test, a) \o When(other, b))
  PROVE  /\ calls' \in Seq(CallRecords) /\ StackOrdered'
         /\ Stack' = {c \in {a} : test} \cup {c \in {b} : other} \cup Waiting
<1> DEFINE first == When(test, a)
           second == When(other, b)
           made == first \o second
<1>1. (test => a \in CallRecords) /\ (other => b \in CallRecords)
  BY DEF Fits
<1>2. /\ first \in Seq(CallRecords) /\ CallsIn(first) = {c \in {a} : test} /\ Ordered(first)
      /\ second \in Seq(CallRecords) /\ CallsIn(second) = {c \in {b} : other}
      /\ Ordered(second)
  BY <1>1, WhenCalls
<1>3. Making(made)
  OBVIOUS
<1> HIDE DEF first, second
<1>4. /\ made \in Seq(CallRecords) /\ Ordered(made)
      /\ CallsIn(made) = CallsIn(first) \cup CallsIn(second)
  BY <1>2, ConcatCalls
<1> HIDE DEF made
<1>5. \A d \in CallsIn(made), c \in Waiting : MayRunBefore(d, c)
  BY <1>2, <1>4 DEF Fits
<1> QED
  BY <1>2, <1>3, <1>4, <1>5, Pushed DEF Inv, Types

LEMMA OverlayWasDismissedThenKeeps ==
  ASSUME Inv, OverlayWasDismissedThen
  PROVE  Inv'
<1>1. /\ Running("OverlayWasDismissedThen")
      /\ UNCHANGED <<phase, queues, delegate, owner, context, container>>
  BY DEF OverlayWasDismissedThen, otherThanPresenter
<1>2. /\ calls # << >> /\ arg.f = "OverlayWasDismissedThen" /\ Stack = {arg} \cup Waiting
      /\ \A c \in Waiting : MayRunBefore(arg, c)
  BY <1>1, RunningFacts
<1>3. /\ arg.r # Null /\ arg.r = context.request /\ ~Callback(arg.r) /\ ~IsShowingOverlayUI
      /\ presenter.has_context /\ ~presenter.queue_replaced_delegate
  <2>1. DismissalKnownTo(arg)
    BY <1>1, RunningFacts DEF CallOK
  <2> QED
    BY <1>2, <2>1 DEF DismissalKnownTo, IsDismissal, IsShowingOverlayUI, Callback
<1>4. \A c \in Waiting : /\ c.f # "ShowOverlayUI" /\ ~IsDismissal(c)
                         /\ c.f = "OverlayUIWasDismissedThen" => c.r = context.request
                         /\ ~GivesContext(c)
  <2>1. ~IsPopping(arg) /\ ~IsPresenting(arg)
    BY <1>2 DEF IsPopping, IsPresenting
  <2> QED
    BY <1>2, <1>3, <2>1, NothingUnderWay DEF MayRunBefore
<1>5. /\ presenter \in PresenterRecords /\ PresenterOK /\ ContextOK /\ QueuesOK
      /\ UnstartedOK /\ Types
  BY DEF Inv, Types
<1>6. PICK a : a = OnRequest("DestroyRequest", presenter.removed_request)
  OBVIOUS
<1>7. PICK b : b = Do("PresentOverlayForActiveRequest")
  OBVIOUS
<1>8. PICK test \in BOOLEAN : test <=> presenter.removed_request # Null
  OBVIOUS
<1>9. PICK other \in BOOLEAN : other <=> ActiveRequest # arg.r
  OBVIOUS
<1>10. a \in CallRecords /\ a.f = "DestroyRequest"
  <2>1. "DestroyRequest" \in Methods /\ presenter.removed_request \in Requests \cup {Null}
    BY <1>5 DEF Methods, PresenterRecords
  <2> QED
    BY <1>6, <2>1, RequestCall
<1>11. b \in CallRecords /\ b.f = "PresentOverlayForActiveRequest"
  <2>1. "PresentOverlayForActiveRequest" \in Methods
    BY DEF Methods
  <2> QED
    BY <1>7, <2>1, DoCall
<1>12. Fits(a) /\ Fits(b)
  BY <1>2, <1>4, <1>10, <1>11 DEF Fits, MayRunBefore, IsPopping, IsPresenting, IsDismissal
<1>13. MayRunBefore(a, b)
  BY <1>10, <1>11 DEF MayRunBefore, Immediate, GivesContext, ChangesContext
<1>14. Making(When(test, a) \o When(other, b))
  BY <1>6, <1>7, <1>8, <1>9 DEF OverlayWasDismissedThen, When
<1>15. /\ calls' \in Seq(CallRecords) /\ StackOrdered'
       /\ Stack' = {c \in {a} : test} \cup {c \in {b} : other} \cup Waiting
  BY <1>2, <1>12, <1>13, <1>14, NewStackOfTwo
<1>16. /\ presenter' \in PresenterRecords
       /\ ~presenter'.presenting /\ presenter'.presented_request = Null
       /\ UNCHANGED presenter.has_context /\ UNCHANGED presenter.active_web_state
       /\ UNCHANGED presenter.queue_replaced_delegate
  BY <1>5 DEF OverlayWasDismissedThen, PresenterRecords
<1>17. KeepsKnown
  BY <1>1, <1>16 DEF KeepsKnown, Left, Callback
<1>18. CallsOK'
  <2>1. ActiveRequest' = ActiveRequest
    BY <1>1, <1>16 DEF ActiveRequest, FrontRequest
  <2>2. other => CallOK(b)'
    BY <1>3, <1>4, <1>9, <1>10, <1>11, <1>15, <2>1, PresentCall
  <2>3. CallOK(a)'
    BY <1>10, PlainCall DEF Plain
  <2>4. /\ Waiting \subseteq Stack' /\ arg.f # "SetActiveWebState"
        /\ \A c \in Stack' : c.f = "OverlayUIWasDismissedThen" => c \in Stack
    BY <1>2, <1>10, <1>11, <1>15
  <2>5. \A c \in Waiting : CallOK(c)'
    BY <1>2, <1>17, <2>4, WaitingStaysOK
  <2> QED
    BY <1>15, <2>2, <2>3, <2>5 DEF CallsOK
<1>19. ContextOK'
  BY <1>1, <1>2, <1>5, <1>15, ContextStaysOK
<1>20. PresenterOK'
  <2>1. ~IsShowingOverlayUI'
    BY <1>1, <1>3 DEF IsShowingOverlayUI, HasState
  <2>2. \A c \in Stack' : c.f # "ShowOverlayUI" /\ ~IsDismissal(c)
    BY <1>4, <1>10, <1>11, <1>15 DEF IsDismissal
  <2> QED
    BY <1>1, <1>3, <1>5, <1>16, <2>1, <2>2 DEF PresenterOK, Left
<1> QED
  BY <1>1, <1>5, <1>15, <1>16, <1>18, <1>19, <1>20 DEF Inv, Types, UnstartedOK, QueuesOK

\* The context is taken from the presenter, or given to it again.
LEMMA SetPresentationContextThenKeeps ==
  ASSUME Inv, SetPresentationContextThen
  PROVE  Inv'
<1>1. /\ Running("SetPresentationContextThen")
      /\ UNCHANGED <<phase, queues, delegate, owner, context, container>>
  BY DEF SetPresentationContextThen, otherThanPresenter
<1>2. /\ calls # << >> /\ arg.f = "SetPresentationContextThen" /\ Stack = {arg} \cup Waiting
      /\ \A c \in Waiting : MayRunBefore(arg, c)
      /\ DismissalKnownTo(arg) /\ ContainerKnownTo(arg)
  BY <1>1, RunningFacts DEF CallOK
<1>3. /\ argFlag => context.request = Null /\ presenter.has_context
      /\ container.started \/ container.stopped
  BY <1>2 DEF DismissalKnownTo, ContainerKnownTo, GivesContext, ChangesContext, argFlag
<1>4. \A c \in Waiting : /\ c.f # "ShowOverlayUI" /\ ~IsDismissal(c)
                         /\ c.f # "OverlayUIWasDismissedThen"
                         /\ ~GivesContext(c)
  <2>1. ~IsPopping(arg) /\ ~IsPresenting(arg) /\ ~IsDismissal(arg)
    BY <1>2 DEF IsPopping, IsPresenting, IsDismissal
  <2> QED
    BY <1>2, <2>1, NothingUnderWay DEF MayRunBefore
<1>5. /\ presenter \in PresenterRecords /\ PresenterOK /\ ContextOK /\ QueuesOK
      /\ UnstartedOK /\ Types
  BY DEF Inv, Types
<1>6. PICK a : a = Do("PresentOverlayForActiveRequest")
  OBVIOUS
<1>7. PICK test \in BOOLEAN : test <=> argFlag
  OBVIOUS
<1>8. a \in CallRecords /\ a.f = "PresentOverlayForActiveRequest"
  <2>1. "PresentOverlayForActiveRequest" \in Methods
    BY DEF Methods
  <2> QED
    BY <1>6, <2>1, DoCall
<1>9. Fits(a)
  BY <1>2, <1>4, <1>8 DEF Fits, MayRunBefore, IsPopping, IsPresenting, IsDismissal
<1>10. Making(When(test, a))
  BY <1>6, <1>7 DEF SetPresentationContextThen, When
<1>11. /\ calls' \in Seq(CallRecords) /\ StackOrdered'
       /\ Stack' = {c \in {a} : test} \cup Waiting
  BY <1>2, <1>9, <1>10, NewStack
<1>12. /\ presenter' \in PresenterRecords
       /\ ~presenter'.presenting /\ presenter'.presented_request = Null
       /\ presenter'.has_context = argFlag /\ UNCHANGED presenter.active_web_state
       /\ UNCHANGED presenter.queue_replaced_delegate
  BY <1>5 DEF SetPresentationContextThen, PresenterRecords, argFlag
<1>13. CallOK(a)'
  BY <1>4, <1>8, <1>11, PresentCall
<1>14. ASSUME NEW c \in Waiting PROVE CallOK(c)'
  <2>1. c \in CallRecords /\ CallOK(c) /\ MayRunBefore(arg, c)
    BY <1>1, RunningFacts
  <2>2. TabsKnownTo(c)'
    <3>1. /\ \A w \in WebStates : /\ Left(w) => Left(w)'
                                  /\ phase[w] = "tab" => phase'[w] = "tab"
          /\ \A b \in Stack : b.f = "SetActiveWebState" => b \in Stack'
      BY <1>1, <1>2, <1>11 DEF Left
    <3> QED
      BY <1>12, <2>1, <3>1, TabsStayKnown DEF CallOK
  <2>3. QueuesKnownTo(c)' /\ UIKnownTo(c)'
    BY <2>1, WaitingIsNotImmediate
  <2>4. DismissalKnownTo(c)'
    BY <1>4 DEF DismissalKnownTo, IsDismissal, GivesContext, ChangesContext
  <2>5. ContainerKnownTo(c)'
    BY <1>1, <2>1, ContainerStaysKnown DEF CallOK
  <2>6. \A b \in Stack' : b.f # "OverlayUIWasDismissedThen"
    BY <1>4, <1>8, <1>11
  <2>7. ActiveRequest' = ActiveRequest
    BY <1>1, <1>12 DEF ActiveRequest, FrontRequest
  <2>8. PresentationKnownTo(c)'
    BY <2>1, <2>6, <2>7, PresentationStaysKnown DEF CallOK
  <2> QED
    BY <2>2, <2>3, <2>4, <2>5, <2>8 DEF CallOK
<1>15. CallsOK'
  BY <1>11, <1>13, <1>14 DEF CallsOK
<1>16. ContextOK'
  BY <1>1, <1>2, <1>5, <1>11, ContextStaysOK
<1>17. PresenterOK'
  <2>1. argFlag => ~IsShowingOverlayUI /\ ~IsShowingOverlayUI'
    BY <1>1, <1>3 DEF IsShowingOverlayUI, HasState
  <2>2. \A c \in Stack' : c.f # "ShowOverlayUI" /\ ~IsDismissal(c)
    BY <1>4, <1>8, <1>11 DEF IsDismissal
  <2>3. \A c \in Stack : c.f # "ShowOverlayUI" /\ ~IsDismissal(c)
    BY <1>2, <1>4 DEF IsDismissal
  <2>4. argFlag => ~presenter.queue_replaced_delegate
    BY <1>3, <1>5, <2>1, <2>3 DEF PresenterOK
  <2> QED
    BY <1>1, <1>5, <1>12, <2>1, <2>2, <2>4 DEF PresenterOK, Left
<1> QED
  BY <1>1, <1>3, <1>5, <1>11, <1>12, <1>15, <1>16, <1>17 DEF Inv, Types, UnstartedOK, QueuesOK

\* The active tab changes; the queue of the old one may be about to get another
\* delegate.
LEMMA SetActiveWebStateKeeps ==
  ASSUME Inv, SetActiveWebState
  PROVE  Inv'
<1>1. /\ Running("SetActiveWebState")
      /\ UNCHANGED <<phase, queues, delegate, owner, context, container>>
  BY DEF SetActiveWebState, otherThanPresenter
<1>2. /\ calls # << >> /\ arg.f = "SetActiveWebState" /\ Stack = {arg} \cup Waiting
      /\ arg.w \in WebStates \cup {Null}
      /\ \A c \in Waiting : MayRunBefore(arg, c)
      /\ arg.w = Null \/ phase[arg.w] = "tab"
  BY <1>1, RunningFacts DEF CallOK, TabsKnownTo
<1>3. \A c \in Waiting : /\ c.f # "ShowOverlayUI" /\ ~IsDismissal(c)
                         /\ c.f # "OverlayUIWasDismissedThen"
                         /\ ~GivesContext(c)
  <2>1. ~IsPopping(arg) /\ ~IsPresenting(arg) /\ ~IsDismissal(arg)
    BY <1>2 DEF IsPopping, IsPresenting, IsDismissal
  <2> QED
    BY <1>2, <2>1, NothingUnderWay DEF MayRunBefore
<1>4. /\ presenter \in PresenterRecords /\ PresenterOK /\ ContextOK /\ QueuesOK
      /\ UnstartedOK /\ Types
  BY DEF Inv, Types
<1>5. /\ presenter' \in PresenterRecords /\ presenter'.active_web_state = arg.w
      /\ UNCHANGED presenter.has_context /\ UNCHANGED presenter.presenting
      /\ UNCHANGED presenter.presented_request /\ UNCHANGED presenter.queue_replaced_delegate
  BY <1>2, <1>4 DEF SetActiveWebState, PresenterRecords
<1>6. PICK r \in Requests \cup {Null} : r = IF presenter.removed_request # Null
                                            THEN presenter.removed_request
                                            ELSE ActiveRequest
  BY <1>4, ActiveRequestOwner DEF PresenterRecords
<1>7. \E test \in BOOLEAN, f \in {"PresentOverlayForActiveRequest", "CancelOverlayUI",
                                  "HideOverlayUI"}, q \in Requests \cup {Null} :
        /\ Making(When(test, OnRequest(f, q)))
        /\ f = "HideOverlayUI" => presenter.presenting
  <2>1. CASE Making(<<>>)
    BY <2>1 DEF When
  <2>2. CASE Making(<<Do("PresentOverlayForActiveRequest")>>)
    BY <2>2 DEF When, Do, OnRequest
  <2>3. CASE Making(CancelUI(r))
    <3>1. PICK test \in BOOLEAN : test <=> presenter.has_context /\ r # Null
      OBVIOUS
    <3>2. Making(When(test, OnRequest("CancelOverlayUI", r)))
      BY <2>3, <3>1 DEF CancelUI, When
    <3> QED
      BY <3>2
  <2>4. CASE Making(<<OnRequest("HideOverlayUI", r)>>) /\ presenter.presenting
    BY <2>4 DEF When
  <2> QED
    BY <1>6, <2>1, <2>2, <2>3, <2>4 DEF SetActiveWebState, Returning
<1>8. PICK test \in BOOLEAN, f \in {"PresentOverlayForActiveRequest", "CancelOverlayUI",
                                    "HideOverlayUI"}, q \in Requests \cup {Null} :
        /\ Making(When(test, OnRequest(f, q)))
        /\ f = "HideOverlayUI" => presenter.presenting
  BY <1>7
<1>9. PICK a : a = OnRequest(f, q)
  OBVIOUS
<1>10. a \in CallRecords /\ a.f = f
  <2>1. f \in Methods /\ f # "SetDelegate"
    BY DEF Methods
  <2> QED
    BY <1>9, <2>1, RequestCall
<1>11. Fits(a)
  BY <1>2, <1>3, <1>10 DEF Fits, MayRunBefore, IsPopping, IsPresenting, IsDismissal
<1>12. /\ calls' \in Seq(CallRecords) /\ StackOrdered'
       /\ Stack' = {c \in {a} : test} \cup Waiting
  BY <1>2, <1>8, <1>9, <1>11, NewStack
<1>13. CallOK(a)'
  <2>1. \A c \in Stack' : c.f # "OverlayUIWasDismissedThen"
    BY <1>3, <1>10, <1>12
  <2>2. CASE f = "PresentOverlayForActiveRequest"
    BY <1>10, <2>1, <2>2, PresentCall
  <2>3. CASE f = "CancelOverlayUI"
    BY <1>10, <2>3, PlainCall DEF Plain
  <2>4. CASE f = "HideOverlayUI"
    <3>1. ~IsPopping(arg) /\ ~IsDismissal(arg) /\ UNCHANGED context
      BY <1>1, <1>2 DEF IsPopping, IsDismissal
    <3> QED
      BY <1>1, <1>8, <1>10, <2>4, <3>1, HideCall
  <2> QED
    BY <2>2, <2>3, <2>4
<1>14. ASSUME NEW c \in Waiting PROVE CallOK(c)'
  <2>1. c \in CallRecords /\ CallOK(c) /\ MayRunBefore(arg, c)
    BY <1>1, RunningFacts
  <2>2. TabsKnownTo(c)'
    <3>1. c.f = "SetDelegate" /\ c.x = "other" => Left(c.w) /\ Left(c.w)' /\ arg.w # c.w
      BY <1>1, <1>2, <2>1, NullAssumption DEF CallOK, TabsKnownTo, Left
    <3> QED
      BY <1>1, <1>5, <2>1, <3>1 DEF CallOK, TabsKnownTo, Left
  <2>3. QueuesKnownTo(c)' /\ UIKnownTo(c)'
    BY <2>1, WaitingIsNotImmediate
  <2>4. DismissalKnownTo(c)'
    BY <1>3 DEF DismissalKnownTo, IsDismissal, GivesContext, ChangesContext
  <2>5. ContainerKnownTo(c)'
    BY <1>1, <2>1, ContainerStaysKnown DEF CallOK
  <2>6. \A b \in Stack' : b.f # "OverlayUIWasDismissedThen"
    BY <1>3, <1>10, <1>12
  <2>7. c.f # "UpdatePresentationCapabilities"
    BY <2>1 DEF MayRunBefore, Immediate
  <2>8. PresentationKnownTo(c)'
    BY <2>6, <2>7 DEF PresentationKnownTo
  <2> QED
    BY <2>2, <2>3, <2>4, <2>5, <2>8 DEF CallOK
<1>15. CallsOK'
  BY <1>12, <1>13, <1>14 DEF CallsOK
<1>16. ContextOK'
  BY <1>1, <1>2, <1>4, <1>12, ContextStaysOK
<1>17. PresenterOK'
  <2>1. IsShowingOverlayUI' = IsShowingOverlayUI
    BY <1>1 DEF IsShowingOverlayUI, HasState
  <2>2. \A c \in Stack' : c.f # "ShowOverlayUI" /\ ~IsDismissal(c)
    BY <1>3, <1>10, <1>12 DEF IsDismissal
  <2>3. \A c \in Stack : c.f # "ShowOverlayUI" /\ ~IsDismissal(c)
    BY <1>2, <1>3 DEF IsDismissal
  <2>4. \A w : Left(w) => Left(w)' /\ arg.w # w
    BY <1>1, <1>2, NullAssumption DEF Left
  <2>5. arg.w # Null => phase'[arg.w] = "tab"
    BY <1>1, <1>2
  <2> QED
    BY <1>1, <1>4, <1>5, <2>1, <2>2, <2>3, <2>4, <2>5 DEF PresenterOK
<1> QED
  BY <1>1, <1>4, <1>5, <1>12, <1>15, <1>16, <1>17 DEF Inv, Types, UnstartedOK, QueuesOK

\* The queue of the presented request goes to another presenter: its tab has
\* left the window.
LEMMA QueueWillReplaceDelegateKeeps ==
  ASSUME Inv, QueueWillReplaceDelegate
  PROVE  Inv'
<1>1. /\ Running("QueueWillReplaceDelegate") /\ Returning
      /\ UNCHANGED <<phase, queues, delegate, owner, context, container>>
  BY DEF QueueWillReplaceDelegate, otherThanPresenter
<1>2. /\ calls # << >> /\ arg.f = "QueueWillReplaceDelegate" /\ arg.f \notin Significant
      /\ Stack = {arg} \cup Waiting /\ QueuesKnownTo(arg)
      /\ \A c \in Waiting : MayRunBefore(arg, c)
  BY <1>1, RunningFacts DEF CallOK, Significant
<1>3. CASE ~PresentedInFront(arg.w)
  <2>1. UNCHANGED presenter
    BY <1>3 DEF QueueWillReplaceDelegate, PresentedInFront
  <2> QED
    BY <1>1, <1>2, <2>1, NoCall, NothingChanges
<1>4. CASE PresentedInFront(arg.w)
  <2>1. /\ Left(arg.w) /\ arg.w \in WebStates
        /\ presenter.active_web_state # arg.w
        /\ \A a \in Stack : a.f # "OverlayWasDismissedThen"
    BY <1>2, <1>4 DEF QueuesKnownTo, Left
  <2>2. /\ presenter \in PresenterRecords /\ PresenterOK /\ ContextOK /\ QueuesOK
        /\ UnstartedOK /\ Types
    BY DEF Inv, Types
  <2>3. presenter' = [presenter EXCEPT !.presented_request = Null,
                                       !.detached_queue = Null,
                                       !.queue_replaced_delegate = TRUE]
    BY <1>4 DEF QueueWillReplaceDelegate, PresentedInFront
  <2>4. /\ presenter' \in PresenterRecords
        /\ presenter'.presented_request = Null /\ presenter'.queue_replaced_delegate
        /\ UNCHANGED presenter.has_context /\ UNCHANGED presenter.presenting
        /\ UNCHANGED presenter.active_web_state
    BY <2>2, <2>3 DEF PresenterRecords
  <2>5. Making(When(FALSE, arg))
    BY <1>1 DEF When, Returning
  <2>6. calls' \in Seq(CallRecords) /\ StackOrdered' /\ Stack' = Waiting
    BY <1>2, <2>5, NewStack
  <2>7. ASSUME NEW c \in Waiting PROVE CallOK(c)'
    <3>1. c \in CallRecords /\ CallOK(c) /\ MayRunBefore(arg, c)
      BY <1>1, RunningFacts
    <3>2. TabsKnownTo(c)'
      <4>1. /\ \A w \in WebStates : /\ Left(w) => Left(w)'
                                    /\ phase[w] = "tab" => phase'[w] = "tab"
            /\ \A b \in Stack : b.f = "SetActiveWebState" => b \in Stack'
        BY <1>1, <1>2, <2>6 DEF Left
      <4> QED
        BY <2>4, <3>1, <4>1, TabsStayKnown DEF CallOK
    <3>3. QueuesKnownTo(c)' /\ UIKnownTo(c)'
      BY <3>1, WaitingIsNotImmediate
    <3>4. DismissalKnownTo(c)'
      <4>1. c.f # "OverlayWasDismissedThen"
        BY <1>2, <2>1
      <4> QED
        BY <1>1, <2>4, <3>1, <4>1
           DEF CallOK, DismissalKnownTo, IsDismissal, Callback, GivesContext, ChangesContext
    <3>5. ContainerKnownTo(c)'
      BY <1>1, <3>1, ContainerStaysKnown DEF CallOK
    <3>6. ActiveRequest' = ActiveRequest
      BY <1>1, <2>4 DEF ActiveRequest, FrontRequest
    <3>7. PresentationKnownTo(c)'
      BY <1>2, <2>6, <3>1, <3>6, PresentationStaysKnown DEF CallOK
    <3> QED
      BY <3>2, <3>3, <3>4, <3>5, <3>7 DEF CallOK
  <2>8. CallsOK'
    BY <2>6, <2>7 DEF CallsOK
  <2>9. ContextOK'
    BY <1>1, <1>2, <2>2, <2>6, ContextStaysOK
  <2>10. PresenterOK'
    <3>1. IsShowingOverlayUI' = IsShowingOverlayUI
      BY <1>1 DEF IsShowingOverlayUI, HasState
    <3>2. \A c \in Stack : c.f # "ShowOverlayUI"
      BY <1>2, NothingUnderWay
    <3>3. (\E c \in Stack : c.f = "ShowOverlayUI" \/ IsDismissal(c))
            <=> (\E c \in Stack' : c.f = "ShowOverlayUI" \/ IsDismissal(c))
      BY <1>2, <2>6 DEF IsDismissal
    <3>4. /\ presenter.presented_request # Null
          /\ presenter.presented_request \in Requests
          /\ owner[presenter.presented_request] = arg.w
      BY <1>4, <2>1, FrontRequestOwner DEF PresentedInFront
    <3>5. presenter.has_context => owner[context.request] = arg.w
      BY <2>2, <3>2, <3>4 DEF PresenterOK
    <3>6. \A w : Left(w)' <=> Left(w)
      BY <1>1 DEF Left
    <3> QED
      BY <1>1, <2>1, <2>2, <2>4, <3>1, <3>3, <3>4, <3>5, <3>6 DEF PresenterOK
  <2> QED
    BY <1>1, <2>2, <2>4, <2>6, <2>8, <2>9, <2>10 DEF Inv, Types, UnstartedOK, QueuesOK
<1> QED
  BY <1>3, <1>4

----------------------------------------------------------------------------
(* The UI of request_.                                                     *)

\* The UI state of one request changes, but not whether there is one and
\* whether it has a callback.
LEMMA UIStateChanges ==
  ASSUME Inv, NEW r \in Requests, NEW state \in UIStates,
         context' = [context EXCEPT !.states = [@ EXCEPT ![r] = state]],
         state.has_callback = context.states[r].has_callback,
         context.request = r => state.exists = context.states[r].exists,
         UNCHANGED <<phase, queues, delegate, owner, presenter, container>>
  PROVE  /\ KeepsKnown /\ IsShowingOverlayUI' = IsShowingOverlayUI
         /\ context' \in ContextRecords /\ context'.states[r] = state
         /\ \A q \in Requests : q # r => context'.states[q] = context.states[q]
         /\ UnstartedOK' /\ QueuesOK'
<1>1. /\ context \in ContextRecords /\ context.request \in Requests \cup {Null}
      /\ context.states \in [Requests -> UIStates]
  BY DEF Inv, Types, ContextRecords
<1>2. /\ context'.states = [context.states EXCEPT ![r] = state]
      /\ context' \in ContextRecords
      /\ UNCHANGED context.request /\ UNCHANGED context.capable
      /\ UNCHANGED context.view_controller /\ UNCHANGED context.has_delegate
  BY <1>1 DEF ContextRecords
<1>3. /\ context'.states[r] = state
      /\ \A q \in Requests : q # r => context'.states[q] = context.states[q]
  BY <1>1, <1>2
<1>4. \A q \in Requests : Callback(q)' = Callback(q)
  BY <1>3 DEF Callback
<1>5. KeepsKnown
  BY <1>2, <1>4 DEF KeepsKnown, Left
<1>6. IsShowingOverlayUI' = IsShowingOverlayUI
  BY <1>1, <1>2, <1>3 DEF IsShowingOverlayUI, HasState
<1>7. UnstartedOK' /\ QueuesOK'
  BY <1>2 DEF Inv, UnstartedOK, QueuesOK
<1> QED
  BY <1>2, <1>3, <1>5, <1>6, <1>7

\* What PresenterOK needs of a step that leaves the presenter alone.
LEMMA PresenterUntouched ==
  ASSUME PresenterOK, IsShowingOverlayUI' = IsShowingOverlayUI,
         UNCHANGED <<phase, owner, presenter>>, UNCHANGED context.request,
         \A c : c.f = "ShowOverlayUI" \/ IsDismissal(c) => (c \in Stack <=> c \in Stack')
  PROVE  PresenterOK'
<1>1. (\E c \in Stack : c.f = "ShowOverlayUI" \/ IsDismissal(c))
        <=> (\E c \in Stack' : c.f = "ShowOverlayUI" \/ IsDismissal(c))
  OBVIOUS
<1>2. (\E c \in Stack : c.f = "ShowOverlayUI") <=> (\E c \in Stack' : c.f = "ShowOverlayUI")
  OBVIOUS
<1> QED
  BY <1>1, <1>2 DEF PresenterOK, Left

\* The coordinator of request_ is asked to dismiss its UI, if it is shown.
LEMMA DismissKeeps ==
  ASSUME Inv, NEW f \in {"HideOverlayUI", "CancelOverlayUI"}, Running(f),
         HasState(context.request),
         NEW reason \in DismissalReasons, DismissPresentedUI(reason),
         UNCHANGED <<phase, queues, delegate, owner, presenter, container>>
  PROVE  Inv'
<1>1. /\ calls # << >> /\ arg.f = f /\ Stack = {arg} \cup Waiting
      /\ \A c \in Waiting : MayRunBefore(arg, c) /\ DismissalKnownTo(c)
  BY RunningFacts DEF CallOK
<1>2. PICK r \in Requests : r = context.request
  BY DEF HasState, Inv, Types, ContextRecords
<1>3. /\ context \in ContextRecords /\ context.states[r] \in UIStates
      /\ PresenterOK /\ ContextOK /\ Types
  BY <1>2 DEF Inv, Types, ContextRecords
<1>4. \A c \in Waiting : c.f # "OverlayUIDidFinishDismissal" /\ ~GivesContext(c)
  BY <1>1, NothingUnderWay DEF HasState, DismissalKnownTo
<1>5. PICK a : a = OnRequest("OverlayUIDidFinishDismissal", r)
  OBVIOUS
<1>6. a \in CallRecords /\ a.f = "OverlayUIDidFinishDismissal" /\ a.r = r
  <2>1. "OverlayUIDidFinishDismissal" \in Methods
    BY DEF Methods
  <2> QED
    BY <1>5, <2>1, RequestCall
<1>7. Fits(a)
  BY <1>1, <1>4, <1>6 DEF Fits, MayRunBefore, IsPopping, IsPresenting, IsDismissal
<1>8. PICK sync \in BOOLEAN : sync <=> UIKind = "contained" /\ reason # "kUserInteraction"
  OBVIOUS
<1>9. PICK test \in BOOLEAN : test <=> sync /\ context.states[r].coordinator = "started"
  OBVIOUS
<1>10. PICK state \in UIStates :
         /\ state = [context.states[r] EXCEPT
                       !.dismissal_reason = reason,
                       !.coordinator =
                         IF context.states[r].coordinator # "started" THEN @
                         ELSE IF sync THEN "stopped" ELSE "dismissing"]
  BY <1>3 DEF UIStates
<1>11. /\ state.has_callback = context.states[r].has_callback
       /\ state.exists = context.states[r].exists
       /\ state.queue = context.states[r].queue
       /\ state.coordinator = IF context.states[r].coordinator # "started"
                              THEN context.states[r].coordinator
                              ELSE IF sync THEN "stopped" ELSE "dismissing"
  BY <1>3, <1>10 DEF UIStates
<1>12. context' = [context EXCEPT !.states = [@ EXCEPT ![r] = state]]
  <2>1. CASE context.states[r].coordinator # "started"
    <3>1. context' = [context EXCEPT !.states[r].dismissal_reason = reason]
      BY <1>2, <2>1 DEF DismissPresentedUI
    <3>2. state = [context.states[r] EXCEPT !.dismissal_reason = reason]
      BY <1>3, <1>10, <2>1 DEF UIStates
    <3> QED
      BY <1>3, <3>1, <3>2 DEF ContextRecords
  <2>2. CASE context.states[r].coordinator = "started"
    <3>1. context' = [context EXCEPT
                        !.states[r].dismissal_reason = reason,
                        !.states[r].coordinator = IF sync THEN "stopped" ELSE "dismissing"]
      BY <1>2, <1>8, <2>2 DEF DismissPresentedUI
    <3>2. state = [context.states[r] EXCEPT
                     !.dismissal_reason = reason,
                     !.coordinator = IF sync THEN "stopped" ELSE "dismissing"]
      BY <1>3, <1>10, <2>2 DEF UIStates
    <3> QED
      BY <1>3, <3>1, <3>2 DEF ContextRecords
  <2> QED
    BY <2>1, <2>2
<1>13. Making(When(test, a))
  BY <1>2, <1>5, <1>8, <1>9 DEF DismissPresentedUI, When, Returning
<1>14. /\ calls' \in Seq(CallRecords) /\ StackOrdered'
       /\ Stack' = {c \in {a} : test} \cup Waiting
  BY <1>1, <1>7, <1>13, NewStack
<1>15. /\ KeepsKnown /\ IsShowingOverlayUI' = IsShowingOverlayUI
       /\ context' \in ContextRecords /\ context'.states[r] = state
       /\ \A q \in Requests : q # r => context'.states[q] = context.states[q]
       /\ UnstartedOK' /\ QueuesOK'
  BY <1>11, <1>12, UIStateChanges
<1>16. test => Callback(r)
  BY <1>3, <1>9 DEF ContextOK
<1>17. test => CallOK(a)'
  <2>1. test => UIKnownTo(a)'
    BY <1>2, <1>6, <1>9, <1>11, <1>15, <1>16, NullAssumption
       DEF UIKnownTo, Callback, KeepsKnown
  <2> QED
    BY <1>6, <2>1, CallParts DEF CallOK
<1>18. CallsOK'
  <2>1. /\ Waiting \subseteq Stack' /\ arg.f # "SetActiveWebState"
        /\ \A c \in Stack' : c.f = "OverlayUIWasDismissedThen" => c \in Stack
    BY <1>1, <1>6, <1>14
  <2>2. \A c \in Waiting : CallOK(c)'
    BY <1>1, <1>15, <2>1, WaitingStaysOK
  <2> QED
    BY <1>14, <1>17, <2>2 DEF CallsOK
<1>19. ContextOK'
  <2>1. UNCHANGED context.request /\ \A q \in Requests : Callback(q)' = Callback(q)
    BY <1>15 DEF KeepsKnown
  <2>2. \A c \in Stack : c.f # "OverlayUIDidFinishDismissal"
    BY <1>1, <1>4
  <2>3. ASSUME NEW q \in Requests
        PROVE  /\ context'.states[q].coordinator # "stopped" => Callback(q)'
               /\ Callback(q)' =>
                    /\ context'.request = q /\ context'.states[q].exists
                    /\ context'.states[q].queue \in WebStates
                    /\ \/ context'.states[q].coordinator # "stopped"
                       \/ \E c \in Stack' : c.f = "OverlayUIDidFinishDismissal"
    <3>1. CASE q # r
      BY <1>2, <1>3, <1>15, <2>1, <3>1 DEF ContextOK, Callback
    <3>2. CASE q = r
      <4>1. context'.states[q].coordinator # "stopped" => Callback(q)'
        BY <1>3, <1>11, <1>15, <2>1, <3>2 DEF ContextOK
      <4>2. Callback(q)' => /\ context.states[q].coordinator # "stopped"
                            /\ context'.request = q /\ context'.states[q].exists
                            /\ context'.states[q].queue \in WebStates
        BY <1>3, <1>11, <1>15, <2>1, <2>2, <3>2 DEF ContextOK
      <4>3. test => \E c \in Stack' : c.f = "OverlayUIDidFinishDismissal"
        BY <1>6, <1>14
      <4>4. ~test /\ context.states[q].coordinator # "stopped"
              => context'.states[q].coordinator # "stopped"
        BY <1>9, <1>11, <1>15, <3>2
      <4> QED
        BY <4>1, <4>2, <4>3, <4>4
    <3> QED
      BY <3>1, <3>2
  <2>4. context'.request # Null =>
          /\ context'.states[context'.request].exists
          /\ \/ Callback(context.request)'
             \/ \E c \in Stack' : /\ c.f = "OverlayUIWasDismissedThen"
                                  /\ c.r = context'.request
    <3>1. \A c \in Stack : c.f = "OverlayUIWasDismissedThen" => c \in Stack'
      BY <1>1, <1>14
    <3> QED
      BY <1>2, <1>3, <1>11, <1>15, <2>1, <3>1 DEF ContextOK, Callback
  <2> QED
    BY <2>3, <2>4 DEF ContextOK, Callback
<1>20. PresenterOK'
  <2>1. \A c : c.f = "ShowOverlayUI" \/ IsDismissal(c) => (c \in Stack <=> c \in Stack')
    BY <1>1, <1>6, <1>14 DEF IsDismissal
  <2> QED
    BY <1>3, <1>15, <2>1, PresenterUntouched DEF KeepsKnown
<1> QED
  BY <1>3, <1>14, <1>15, <1>18, <1>19, <1>20 DEF Inv, Types

LEMMA HideOverlayUIKeeps ==
  ASSUME Inv, HideOverlayUI
  PROVE  Inv'
<1>1. "kHiding" \in DismissalReasons
  BY DEF DismissalReasons
<1> QED
  BY <1>1, DismissKeeps DEF HideOverlayUI, otherThanContext

\* The UI state of a request whose UI is not shown is dropped; that of request_
\* is not, because no dismissal is under way.
LEMMA CancelOverlayUIKeeps ==
  ASSUME Inv, CancelOverlayUI
  PROVE  Inv'
<1>1. /\ Running("CancelOverlayUI")
      /\ UNCHANGED <<phase, queues, delegate, owner, presenter, container>>
  BY DEF CancelOverlayUI, otherThanContext
<1>2. /\ calls # << >> /\ arg.f = "CancelOverlayUI" /\ arg.f \notin Significant
      /\ Stack = {arg} \cup Waiting /\ arg.r \in Requests \cup {Null}
      /\ \A c \in Waiting : MayRunBefore(arg, c)
  BY <1>1, RunningFacts DEF Significant
<1>3. ContextOK /\ PresenterOK /\ Types
  BY DEF Inv
<1>4. CASE Returning /\ UNCHANGED context
  BY <1>1, <1>2, <1>4, NoCall, NothingChanges
<1>5. CASE /\ HasState(arg.r) /\ ~context.states[arg.r].has_callback
           /\ context' = [context EXCEPT !.states[arg.r] = NoUIState] /\ Returning
  <2>1. PICK r \in Requests : r = arg.r
    BY <1>2, <1>5 DEF HasState
  <2>2. \A c \in Waiting : c.f # "OverlayUIWasDismissedThen"
    BY <1>2 DEF MayRunBefore, IsPopping, IsPresenting, IsDismissal
  <2>3. context.request # r
    BY <1>2, <1>3, <1>5, <2>1, <2>2, NullAssumption DEF ContextOK, Callback
  <2>4. /\ NoUIState \in UIStates /\ ~NoUIState.has_callback
        /\ NoUIState.coordinator = "stopped"
    BY DEF NoUIState, UIStates, DismissalReasons
  <2>5. context.states[r].has_callback = FALSE
    BY <1>3, <1>5, <2>1 DEF Types, ContextRecords, UIStates
  <2>6. context' = [context EXCEPT !.states = [@ EXCEPT ![r] = NoUIState]]
    BY <1>3, <1>5, <2>1 DEF Types, ContextRecords
  <2>7. /\ KeepsKnown /\ IsShowingOverlayUI' = IsShowingOverlayUI
        /\ context' \in ContextRecords /\ context'.states[r] = NoUIState
        /\ \A q \in Requests : q # r => context'.states[q] = context.states[q]
        /\ UnstartedOK' /\ QueuesOK'
    BY <1>1, <2>3, <2>4, <2>5, <2>6, UIStateChanges DEF NoUIState
  <2>8. Making(When(FALSE, arg))
    BY <1>5 DEF When, Returning
  <2>9. calls' \in Seq(CallRecords) /\ StackOrdered' /\ Stack' = Waiting
    BY <1>2, <2>8, NewStack
  <2>10. CallsOK'
    BY <1>2, <2>7, <2>9, WaitingStaysOK DEF CallsOK
  <2>11. ContextOK'
    <3>1. UNCHANGED context.request /\ \A q \in Requests : Callback(q)' = Callback(q)
      BY <2>7 DEF KeepsKnown
    <3>2. \A c \in Stack : c.f # "OverlayUIDidFinishDismissal"
                           /\ c.f # "OverlayUIWasDismissedThen"
      BY <1>2, <2>2, NothingUnderWay
    <3>3. ASSUME NEW q \in Requests
          PROVE  /\ context'.states[q].coordinator # "stopped" => Callback(q)'
                 /\ Callback(q)' =>
                      /\ context'.request = q /\ context'.states[q].exists
                      /\ context'.states[q].queue \in WebStates
                      /\ context'.states[q].coordinator # "stopped"
      <4>1. CASE q = r
        BY <2>4, <2>5, <2>7, <3>1, <4>1 DEF Callback
      <4>2. CASE q # r
        BY <1>3, <2>7, <3>1, <3>2, <4>2 DEF ContextOK
      <4> QED
        BY <4>1, <4>2
    <3>4. context'.request # Null =>
            context'.states[context'.request].exists /\ Callback(context.request)'
      <4>1. context.request \in Requests \cup {Null}
        BY <1>3 DEF Types, ContextRecords
      <4> QED
        BY <1>3, <2>3, <2>7, <3>1, <3>2, <4>1 DEF ContextOK
    <3> QED
      BY <3>3, <3>4 DEF ContextOK, Callback
  <2>12. PresenterOK'
    <3>1. \A c : c.f = "ShowOverlayUI" \/ IsDismissal(c) => (c \in Stack <=> c \in Stack')
      BY <1>2, <2>9 DEF IsDismissal
    <3> QED
      BY <1>1, <1>3, <2>7, <3>1, PresenterUntouched DEF KeepsKnown
  <2> QED
    BY <1>1, <1>3, <2>7, <2>9, <2>10, <2>11, <2>12 DEF Inv, Types
<1>6. CASE /\ HasState(arg.r) /\ context.states[arg.r].has_callback
           /\ DismissPresentedUI("kCancellation")
  <2>1. context.request = arg.r
    BY <1>2, <1>3, <1>6 DEF HasState, ContextOK, Callback
  <2>2. "kCancellation" \in DismissalReasons
    BY DEF DismissalReasons
  <2> QED
    BY <1>1, <1>6, <2>1, <2>2, DismissKeeps
<1> QED
  BY <1>4, <1>5, <1>6 DEF CancelOverlayUI

\* The request that is shown is not request_: a dismissal presents another one
\* than the one whose UI it dismissed.
LEMMA ShowOverlayUIKeeps ==
  ASSUME Inv, ShowOverlayUI
  PROVE  Inv'
<1>1. /\ Running("ShowOverlayUI") /\ Returning
      /\ UNCHANGED <<phase, queues, delegate, owner, presenter, container>>
  BY DEF ShowOverlayUI, otherThanContext
<1>2. /\ calls # << >> /\ arg.f = "ShowOverlayUI" /\ Stack = {arg} \cup Waiting
      /\ arg.r \in Requests \cup {Null} /\ arg.w \in WebStates
      /\ \A c \in Waiting : MayRunBefore(arg, c)
      /\ UIKnownTo(arg) /\ PresentationKnownTo(arg)
  BY <1>1, RunningFacts DEF CallOK, TabsKnownTo
<1>3. /\ arg.r \in Requests /\ arg.r = ActiveRequest /\ arg.r = presenter.presented_request
      /\ presenter.has_context /\ ~IsShowingOverlayUI /\ context.capable
  BY <1>2 DEF UIKnownTo, CanShowUI
<1>4. /\ ContextOK /\ PresenterOK /\ Types /\ UnstartedOK /\ QueuesOK
      /\ context \in ContextRecords /\ context.states \in [Requests -> UIStates]
      /\ context.request \in Requests \cup {Null}
  BY DEF Inv, Types, ContextRecords
<1>5. \A c \in Waiting :
        /\ c.f # "ShowOverlayUI" /\ ~IsDismissal(c) /\ ~GivesContext(c)
        /\ c.f = "OverlayUIWasDismissedThen" => c.r # arg.r
  <2>1. ~IsPopping(arg) /\ IsPresenting(arg)
    BY <1>2 DEF IsPopping, IsPresenting
  <2>2. \A c \in Waiting : c.f = "OverlayUIWasDismissedThen" => ActiveRequest # c.r
    BY <1>2, <2>1 DEF PresentationKnownTo
  <2> QED
    BY <1>2, <1>3, <2>1, <2>2, NothingUnderWay DEF MayRunBefore
<1>6. context.request # Null => ~Callback(context.request)
  BY <1>3, <1>4 DEF ContextOK, IsShowingOverlayUI, HasState, Callback
<1>7. context.request # arg.r
  BY <1>2, <1>3, <1>4, <1>5, <1>6, NullAssumption DEF ContextOK
<1>8. \A q \in Requests : ~Callback(q) /\ context.states[q].coordinator = "stopped"
  BY <1>4, <1>6, NullAssumption DEF ContextOK
<1> DEFINE requested == [context.states EXCEPT
                           ![arg.r].exists = TRUE,
                           ![arg.r].has_callback = TRUE,
                           ![arg.r].queue = arg.w,
                           ![arg.r].dismissal_reason = "kUserInteraction"]
           kept == StatesAfterLeaving(context.request, requested)
           shown == [kept EXCEPT ![arg.r].coordinator = "started"]
<1>9. context' = [context EXCEPT !.request = arg.r, !.states = shown]
  BY <1>7 DEF ShowOverlayUI
<1>10. /\ requested \in [Requests -> UIStates]
       /\ requested[arg.r].exists /\ requested[arg.r].has_callback
       /\ requested[arg.r].queue = arg.w
       /\ \A q \in Requests : q # arg.r => requested[q] = context.states[q]
  <2> DEFINE state == [context.states[arg.r] EXCEPT !.exists = TRUE, !.has_callback = TRUE,
                                                    !.queue = arg.w,
                                                    !.dismissal_reason = "kUserInteraction"]
  <2>1. context.states[arg.r] \in UIStates
    BY <1>3, <1>4
  <2>2. /\ state \in UIStates /\ state.exists /\ state.has_callback
        /\ state.queue = arg.w
    BY <1>2, <2>1 DEF UIStates, DismissalReasons
  <2>3. requested = [context.states EXCEPT ![arg.r] = state]
    BY <1>3, <1>4, <2>1 DEF UIStates
  <2> HIDE DEF state, requested
  <2> QED
    BY <1>3, <1>4, <2>2, <2>3
<1> HIDE DEF requested
<1>11. /\ NoUIState \in UIStates /\ ~NoUIState.has_callback
       /\ NoUIState.coordinator = "stopped"
  BY DEF NoUIState, UIStates, DismissalReasons
<1>12. /\ kept \in [Requests -> UIStates] /\ kept[arg.r] = requested[arg.r]
       /\ \A q \in Requests : q # arg.r => kept[q] = context.states[q] \/ kept[q] = NoUIState
  <2>1. CASE kept = requested
    BY <1>3, <1>10, <2>1
  <2>2. CASE /\ context.request # Null
             /\ kept = [requested EXCEPT ![context.request] = NoUIState]
    BY <1>3, <1>4, <1>7, <1>10, <1>11, <2>2
  <2> QED
    BY <2>1, <2>2 DEF StatesAfterLeaving
<1> HIDE DEF kept
<1>13. /\ shown \in [Requests -> UIStates]
       /\ shown[arg.r].exists /\ shown[arg.r].has_callback /\ shown[arg.r].queue = arg.w
       /\ shown[arg.r].coordinator = "started"
       /\ \A q \in Requests : q # arg.r =>
            ~shown[q].has_callback /\ shown[q].coordinator = "stopped"
  BY <1>3, <1>8, <1>10, <1>11, <1>12, SMTT(30) DEF UIStates, Callback
<1> HIDE DEF shown
<1>14. /\ context' \in ContextRecords /\ context'.request = arg.r /\ context'.states = shown
       /\ UNCHANGED context.capable
  BY <1>3, <1>4, <1>9, <1>13 DEF ContextRecords
<1>15. Making(When(FALSE, arg))
  BY <1>1 DEF When, Returning
<1>16. calls' \in Seq(CallRecords) /\ StackOrdered' /\ Stack' = Waiting
  BY <1>2, <1>15, NewStack
<1>17. ASSUME NEW c \in Waiting PROVE CallOK(c)'
  <2>1. c \in CallRecords /\ CallOK(c) /\ MayRunBefore(arg, c)
    BY <1>1, RunningFacts
  <2>2. TabsKnownTo(c)'
    <3>1. /\ \A w \in WebStates : /\ Left(w) => Left(w)'
                                  /\ phase[w] = "tab" => phase'[w] = "tab"
          /\ \A b \in Stack : b.f = "SetActiveWebState" => b \in Stack'
      BY <1>1, <1>2, <1>16 DEF Left
    <3> QED
      BY <1>1, <2>1, <3>1, TabsStayKnown DEF CallOK
  <2>3. QueuesKnownTo(c)' /\ UIKnownTo(c)'
    BY <2>1, WaitingIsNotImmediate
  <2>4. DismissalKnownTo(c)'
    <3>1. c.f = "OverlayUIWasDismissedThen" => c.r # Null /\ c.r # context'.request
      BY <1>5, <1>14, <2>1 DEF CallOK, DismissalKnownTo
    <3> QED
      BY <1>5, <3>1 DEF DismissalKnownTo, IsDismissal, GivesContext, ChangesContext
  <2>5. ContainerKnownTo(c)'
    BY <1>1, <2>1, ContainerStaysKnown DEF CallOK
  <2>6. ActiveRequest' = ActiveRequest
    BY <1>1 DEF ActiveRequest, FrontRequest
  <2>7. PresentationKnownTo(c)'
    BY <1>2, <1>16, <2>1, <2>6, PresentationStaysKnown DEF CallOK
  <2> QED
    BY <2>2, <2>3, <2>4, <2>5, <2>7 DEF CallOK
<1>18. CallsOK'
  BY <1>16, <1>17 DEF CallsOK
<1>19. ContextOK'
  BY <1>2, <1>3, <1>13, <1>14 DEF ContextOK, Callback
<1>20. UnstartedOK' /\ QueuesOK'
  BY <1>1, <1>3, <1>4 DEF UnstartedOK, QueuesOK
<1>21. PresenterOK'
  <2>1. IsShowingOverlayUI'
    BY <1>3, <1>13, <1>14, NullAssumption DEF IsShowingOverlayUI, HasState
  <2>2. presenter.presenting /\ ~presenter.queue_replaced_delegate
    BY <1>2, <1>3, <1>4, NullAssumption DEF PresenterOK
  <2> QED
    BY <1>1, <1>3, <1>4, <1>14, <2>1, <2>2, NullAssumption DEF PresenterOK, Left
<1> QED
  BY <1>1, <1>4, <1>14, <1>16, <1>18, <1>19, <1>20, <1>21 DEF Inv, Types

\* The callback of request_ is taken and run.
LEMMA DidFinishDismissalKeeps ==
  ASSUME Inv, OverlayUIDidFinishDismissal
  PROVE  Inv'
<1>1. /\ Running("OverlayUIDidFinishDismissal")
      /\ UNCHANGED <<phase, queues, delegate, owner, presenter, container>>
  BY DEF OverlayUIDidFinishDismissal, otherThanContext
<1>2. /\ calls # << >> /\ arg.f = "OverlayUIDidFinishDismissal"
      /\ Stack = {arg} \cup Waiting /\ arg.r \in Requests \cup {Null}
      /\ \A c \in Waiting : MayRunBefore(arg, c)
      /\ UIKnownTo(arg)
  BY <1>1, RunningFacts DEF CallOK
<1>3. PICK r \in Requests : /\ r = context.request /\ Callback(r)
                            /\ context.states[r].coordinator = "stopped"
  BY <1>2 DEF UIKnownTo
<1>4. /\ ContextOK /\ PresenterOK /\ Types /\ UnstartedOK /\ QueuesOK
      /\ context \in ContextRecords /\ context.states \in [Requests -> UIStates]
      /\ context.states[r] \in UIStates
  BY DEF Inv, Types, ContextRecords
<1>5. \A c \in Waiting :
        /\ c.f # "ShowOverlayUI" /\ ~IsDismissal(c) /\ ~GivesContext(c)
        /\ c.f # "OverlayUIWasDismissedThen" /\ ~IsPresenting(c)
        /\ c.f # "updatePresentationContext" /\ c.f # "SetViewController"
  <2>1. ~IsPopping(arg) /\ ~IsPresenting(arg) /\ ~IsDismissal(arg)
    BY <1>2 DEF IsPopping, IsPresenting, IsDismissal
  <2>2. \A c \in Waiting : ~IsPresenting(c)
    BY <1>2 DEF MayRunBefore, Immediate, IsPresenting
  <2> QED
    BY <1>2, <2>1, <2>2, NothingUnderWay DEF MayRunBefore, Immediate
<1>6. PICK a : a = Call("OverlayWasDismissed", r, context.states[r].queue,
                        context.states[r].dismissal_reason)
  OBVIOUS
<1>7. PICK b : b = OnRequest("OverlayUIWasDismissedThen", r)
  OBVIOUS
<1>8. a \in CallRecords /\ a.f = "OverlayWasDismissed" /\ a.r = r /\ a.w \in WebStates
  <2>1. /\ "OverlayWasDismissed" \in Methods
        /\ context.states[r].dismissal_reason \in Words
        /\ context.states[r].queue \in WebStates
    BY <1>3, <1>4 DEF Methods, Words, UIStates, ContextOK
  <2> QED
    BY <1>6, <2>1, NewCall
<1>9. b \in CallRecords /\ b.f = "OverlayUIWasDismissedThen" /\ b.r = r
  <2>1. "OverlayUIWasDismissedThen" \in Methods
    BY DEF Methods
  <2> QED
    BY <1>7, <2>1, RequestCall
<1>10. Fits(a) /\ Fits(b)
  BY <1>2, <1>5, <1>8, <1>9 DEF Fits, MayRunBefore, IsPopping, IsPresenting, IsDismissal
<1>11. MayRunBefore(a, b)
  BY <1>8, <1>9 DEF MayRunBefore, Immediate, IsDismissal, GivesContext, ChangesContext
<1>12. PICK always \in BOOLEAN : always
  OBVIOUS
<1>13. calls' \in Seq(CallRecords) /\ StackOrdered' /\ Stack' = {a, b} \cup Waiting
  <2>1. Making(When(always, a) \o When(always, b))
    BY <1>3, <1>6, <1>7, <1>8, <1>9, <1>12, PairOfCalls DEF OverlayUIDidFinishDismissal, When
  <2>2. /\ calls' \in Seq(CallRecords) /\ StackOrdered'
        /\ Stack' = {c \in {a} : always} \cup {c \in {b} : always} \cup Waiting
    BY <1>2, <1>10, <1>11, <2>1, NewStackOfTwo
  <2> QED
    BY <1>12, <2>2
<1>14. context' = [context EXCEPT !.states[r].has_callback = FALSE]
  BY <1>3 DEF OverlayUIDidFinishDismissal
<1>15. /\ context' \in ContextRecords /\ UNCHANGED context.request
       /\ context'.states[r] = [context.states[r] EXCEPT !.has_callback = FALSE]
       /\ \A q \in Requests : q # r => context'.states[q] = context.states[q]
       /\ UNCHANGED context.capable /\ UNCHANGED context.view_controller
       /\ UNCHANGED context.has_delegate
  BY <1>4, <1>14 DEF ContextRecords, UIStates
<1>16. /\ ~Callback(r)' /\ context'.states[r].coordinator = "stopped"
       /\ context'.states[r].exists = context.states[r].exists
  BY <1>3, <1>4, <1>15 DEF Callback, UIStates
<1>17. CallOK(a)' /\ CallOK(b)'
  <2>1. TabsKnownTo(a)'
    BY <1>8 DEF TabsKnownTo
  <2>2. DismissalKnownTo(a)'
    BY <1>3, <1>8, <1>15, <1>16, NullAssumption
       DEF DismissalKnownTo, IsDismissal, GivesContext, ChangesContext
  <2>3. DismissalKnownTo(b)'
    BY <1>9, <1>16, NullAssumption
       DEF DismissalKnownTo, IsDismissal, GivesContext, ChangesContext
  <2> QED
    BY <1>8, <1>9, <2>1, <2>2, <2>3, CallParts DEF CallOK
<1>18. ASSUME NEW c \in Waiting PROVE CallOK(c)'
  <2>1. c \in CallRecords /\ CallOK(c) /\ MayRunBefore(arg, c)
    BY <1>1, RunningFacts
  <2>2. TabsKnownTo(c)'
    <3>1. /\ \A w \in WebStates : /\ Left(w) => Left(w)'
                                  /\ phase[w] = "tab" => phase'[w] = "tab"
          /\ \A d \in Stack : d.f = "SetActiveWebState" => d \in Stack'
      BY <1>1, <1>2, <1>13 DEF Left
    <3> QED
      BY <1>1, <2>1, <3>1, TabsStayKnown DEF CallOK
  <2>3. QueuesKnownTo(c)' /\ UIKnownTo(c)'
    BY <2>1, WaitingIsNotImmediate
  <2>4. DismissalKnownTo(c)'
    BY <1>5 DEF DismissalKnownTo, IsDismissal, GivesContext, ChangesContext
  <2>5. ContainerKnownTo(c)'
    BY <1>1, <2>1, ContainerStaysKnown DEF CallOK
  <2>6. PresentationKnownTo(c)'
    BY <1>5 DEF PresentationKnownTo, IsPresenting
  <2> QED
    BY <2>2, <2>3, <2>4, <2>5, <2>6 DEF CallOK
<1>19. CallsOK'
  BY <1>13, <1>17, <1>18 DEF CallsOK
<1>20. ContextOK'
  <2>1. ASSUME NEW q \in Requests
        PROVE  context'.states[q].coordinator = "stopped" /\ ~Callback(q)'
    BY <1>3, <1>4, <1>15, <1>16, ZenonT(30) DEF ContextOK, Callback
  <2>2. context'.states[context'.request].exists
    BY <1>3, <1>4, <1>15, <1>16, NullAssumption DEF ContextOK
  <2>3. \E c \in Stack' : c.f = "OverlayUIWasDismissedThen" /\ c.r = context'.request
    BY <1>3, <1>9, <1>13, <1>15
  <2> QED
    BY <2>1, <2>2, <2>3 DEF ContextOK, Callback
<1>21. UnstartedOK' /\ QueuesOK'
  BY <1>1, <1>4, <1>15 DEF UnstartedOK, QueuesOK
<1>22. PresenterOK'
  <2>1. IsShowingOverlayUI
    BY <1>3, <1>4, NullAssumption DEF IsShowingOverlayUI, HasState, Callback, ContextOK
  <2>2. IsDismissal(a) /\ a \in Stack'
    BY <1>8, <1>13 DEF IsDismissal
  <2>3. \A c \in Stack : c.f # "ShowOverlayUI"
    BY <1>2, <1>5
  <2> QED
    BY <1>1, <1>4, <1>15, <2>1, <2>2, <2>3 DEF PresenterOK, Left
<1> QED
  BY <1>1, <1>4, <1>13, <1>15, <1>19, <1>20, <1>21, <1>22 DEF Inv, Types

\* request_ is reset when the callback has returned without another presentation.
LEMMA UIWasDismissedThenKeeps ==
  ASSUME Inv, OverlayUIWasDismissedThen
  PROVE  Inv'
<1>1. /\ Running("OverlayUIWasDismissedThen")
      /\ UNCHANGED <<phase, queues, delegate, owner, presenter, container>>
  BY DEF OverlayUIWasDismissedThen, otherThanContext
<1>2. /\ calls # << >> /\ arg.f = "OverlayUIWasDismissedThen"
      /\ Stack = {arg} \cup Waiting /\ arg.r \in Requests \cup {Null}
      /\ \A c \in Waiting : MayRunBefore(arg, c)
      /\ DismissalKnownTo(arg)
  BY <1>1, RunningFacts DEF CallOK
<1>3. /\ ContextOK /\ PresenterOK /\ Types /\ UnstartedOK /\ QueuesOK
      /\ context \in ContextRecords /\ context.states \in [Requests -> UIStates]
  BY DEF Inv, Types, ContextRecords
<1>4. \A c \in Waiting :
        /\ c.f # "ShowOverlayUI" /\ ~IsDismissal(c) /\ ~GivesContext(c)
        /\ c.f # "OverlayUIWasDismissedThen"
  <2>1. ~IsPopping(arg) /\ ~IsPresenting(arg) /\ ~IsDismissal(arg)
    BY <1>2 DEF IsPopping, IsPresenting, IsDismissal
  <2> QED
    BY <1>2, <2>1, NothingUnderWay DEF MayRunBefore
<1>5. QueuesOK'
  BY <1>1, <1>3 DEF QueuesOK
<1>6. CASE context.request # arg.r /\ Returning /\ UNCHANGED context
  <2>1. Making(When(FALSE, arg))
    BY <1>6 DEF When, Returning
  <2>2. calls' \in Seq(CallRecords) /\ StackOrdered' /\ Stack' = Waiting
    BY <1>2, <2>1, NewStack
  <2>3. KeepsKnown
    BY <1>1, <1>6 DEF KeepsKnown, Left, Callback
  <2>4. CallsOK'
    BY <1>2, <2>2, <2>3, WaitingStaysOK DEF CallsOK
  <2>5. ContextOK'
    BY <1>2, <1>3, <1>6, <2>2 DEF ContextOK, Callback
  <2>6. PresenterOK'
    <3>1. \A c : c.f = "ShowOverlayUI" \/ IsDismissal(c) => (c \in Stack <=> c \in Stack')
      BY <1>2, <2>2 DEF IsDismissal
    <3>2. IsShowingOverlayUI' = IsShowingOverlayUI
      BY <1>6 DEF IsShowingOverlayUI, HasState
    <3> QED
      BY <1>1, <1>3, <1>6, <3>1, <3>2, PresenterUntouched
  <2> QED
    BY <1>1, <1>3, <1>5, <1>6, <2>2, <2>4, <2>5, <2>6 DEF Inv, Types, UnstartedOK
<1>7. CASE /\ context.request = arg.r
           /\ context' = [context EXCEPT
                            !.request = Null,
                            !.states = StatesAfterLeaving(arg.r, context.states)]
           /\ Making(When(context.has_delegate, With("updatePresentationContext", "kNone")))
  <2>1. arg.r \in Requests /\ ~Callback(arg.r) /\ ~IsShowingOverlayUI
    BY <1>2, <1>7 DEF DismissalKnownTo, IsShowingOverlayUI, Callback
  <2>2. \A q \in Requests : ~Callback(q) /\ context.states[q].coordinator = "stopped"
    BY <1>3, <1>7, <2>1 DEF ContextOK
  <2> DEFINE kept == StatesAfterLeaving(arg.r, context.states)
  <2>3. /\ NoUIState \in UIStates /\ ~NoUIState.has_callback
        /\ NoUIState.coordinator = "stopped"
    BY DEF NoUIState, UIStates, DismissalReasons
  <2>4. /\ kept \in [Requests -> UIStates]
        /\ \A q \in Requests : ~kept[q].has_callback /\ kept[q].coordinator = "stopped"
    <3>1. CASE kept = context.states
      <4> HIDE DEF kept
      <4> QED
        BY <1>3, <2>2, <3>1 DEF Callback
    <3>2. CASE kept = [context.states EXCEPT ![arg.r] = NoUIState]
      <4> HIDE DEF kept
      <4> QED
        BY <1>3, <2>1, <2>2, <2>3, <3>2 DEF Callback
    <3> QED
      BY <3>1, <3>2 DEF StatesAfterLeaving
  <2> HIDE DEF kept
  <2>5. /\ context' \in ContextRecords /\ context'.request = Null /\ context'.states = kept
        /\ UNCHANGED context.capable /\ UNCHANGED context.view_controller
        /\ UNCHANGED context.has_delegate
    <3>1. context' = [context EXCEPT !.request = Null, !.states = kept]
      BY <1>7 DEF kept
    <3> QED
      BY <1>3, <2>4, <3>1 DEF ContextRecords
  <2>6. PICK a : a = With("updatePresentationContext", "kNone")
    OBVIOUS
  <2>7. PICK test \in BOOLEAN : test <=> context.has_delegate
    OBVIOUS
  <2>8. a \in CallRecords /\ a.f = "updatePresentationContext" /\ a.x = "kNone"
    <3>1. "updatePresentationContext" \in Methods /\ "kNone" \in Words
      BY DEF Methods, Words
    <3> QED
      BY <2>6, <3>1, WithCall
  <2>9. Fits(a)
    BY <1>2, <1>4, <2>8 DEF Fits, MayRunBefore, IsPopping, IsPresenting, IsDismissal
  <2>10. Making(When(test, a))
    BY <1>7, <2>6, <2>7 DEF When
  <2>11. /\ calls' \in Seq(CallRecords) /\ StackOrdered'
         /\ Stack' = {c \in {a} : test} \cup Waiting
    BY <1>2, <2>9, <2>10, NewStack
  <2>12. \A c \in Stack' : /\ c.f # "ShowOverlayUI" /\ ~IsDismissal(c) /\ ~GivesContext(c)
                           /\ c.f # "OverlayUIWasDismissedThen"
    BY <1>4, <2>8, <2>11 DEF IsDismissal, GivesContext, ChangesContext
  <2>13. test => CallOK(a)'
    <3>1. test => ContainerKnownTo(a)'
      BY <1>1, <1>3, <2>7, <2>8 DEF UnstartedOK, ContainerKnownTo, ChangesContext
    <3>2. PresentationKnownTo(a)'
      BY <2>12 DEF PresentationKnownTo
    <3> QED
      BY <2>8, <3>1, <3>2, CallParts DEF CallOK
  <2>14. ASSUME NEW c \in Waiting PROVE CallOK(c)'
    <3>1. c \in CallRecords /\ CallOK(c) /\ MayRunBefore(arg, c)
      BY <1>1, RunningFacts
    <3>2. TabsKnownTo(c)'
      <4>1. /\ \A w \in WebStates : /\ Left(w) => Left(w)'
                                    /\ phase[w] = "tab" => phase'[w] = "tab"
            /\ \A d \in Stack : d.f = "SetActiveWebState" => d \in Stack'
        BY <1>1, <1>2, <2>11 DEF Left
      <4> QED
        BY <1>1, <3>1, <4>1, TabsStayKnown DEF CallOK
    <3>3. QueuesKnownTo(c)' /\ UIKnownTo(c)'
      BY <3>1, WaitingIsNotImmediate
    <3>4. DismissalKnownTo(c)'
      BY <1>4 DEF DismissalKnownTo, IsDismissal, GivesContext, ChangesContext
    <3>5. ContainerKnownTo(c)'
      BY <1>1, <3>1, ContainerStaysKnown DEF CallOK
    <3>6. PresentationKnownTo(c)'
      BY <2>12 DEF PresentationKnownTo
    <3> QED
      BY <3>2, <3>3, <3>4, <3>5, <3>6 DEF CallOK
  <2>15. CallsOK'
    BY <2>11, <2>13, <2>14 DEF CallsOK
  <2>16. ContextOK'
    BY <2>4, <2>5 DEF ContextOK, Callback
  <2>17. UnstartedOK'
    BY <1>1, <1>3, <2>5 DEF UnstartedOK
  <2>18. PresenterOK'
    <3>1. ~IsShowingOverlayUI'
      BY <2>5 DEF IsShowingOverlayUI, HasState
    <3>2. \A c \in Stack : c.f # "ShowOverlayUI" /\ ~IsDismissal(c)
      BY <1>2, <1>4 DEF IsDismissal
    <3>3. presenter.has_context => ~presenter.presenting
      BY <1>3, <2>1, <3>2 DEF PresenterOK
    <3> QED
      BY <1>1, <1>3, <2>12, <3>1, <3>3 DEF PresenterOK, Left
  <2> QED
    BY <1>1, <1>3, <1>5, <2>5, <2>11, <2>15, <2>16, <2>17, <2>18 DEF Inv, Types
<1> QED
  BY <1>6, <1>7 DEF OverlayUIWasDismissedThen

----------------------------------------------------------------------------
(* The contents of a queue.                                                *)

\* The request at index leaves the queue of w.
Removes(w, index) ==
  /\ index \in 1..Len(queues[w])
  /\ queues' = [queues EXCEPT ![w] = RemoveAt(queues[w], index)]
  /\ UNCHANGED owner

\* A removed request is in no queue any more.
LEMMA RemovedFromQueue ==
  ASSUME Inv, NEW w \in WebStates, NEW index, Removes(w, index)
  PROVE  /\ queues' \in [WebStates -> Seq(Requests)] /\ QueuesOK'
         /\ \A v \in WebStates : \A i \in 1..Len(queues'[v]) :
              queues'[v][i] # queues[w][index]
<1>1. /\ queues \in [WebStates -> Seq(Requests)] /\ QueuesOK /\ UNCHANGED owner
      /\ queues' = [queues EXCEPT ![w] = RemoveAt(queues[w], index)]
  BY DEF Inv, Types, Removes
<1>2. queues[w] \in Seq(Requests) /\ Len(queues[w]) \in Nat /\ index \in 1..Len(queues[w])
  BY <1>1 DEF Removes
<1> DEFINE s == queues[w]
           t == RemoveAt(s, index)
<1>3. /\ t \in Seq(Requests) /\ Len(t) = Len(s) - 1
      /\ \A j \in 1..(Len(s) - 1) : t[j] = IF j < index THEN s[j] ELSE s[j + 1]
  BY <1>2, RemoveAtPositions
<1>4. queues' \in [WebStates -> Seq(Requests)] /\ queues'[w] = t
      /\ \A v \in WebStates : v # w => queues'[v] = queues[v]
  BY <1>1, <1>3
<1> HIDE DEF t
<1>5. ASSUME NEW i \in 1..Len(t)
      PROVE  \E k \in 1..Len(s) : t[i] = s[k] /\ k # index /\ k = (IF i < index THEN i ELSE i + 1)
  <2>1. CASE i < index
    BY <1>2, <1>3, <2>1
  <2>2. CASE i >= index
    <3>1. t[i] = s[i + 1] /\ i + 1 \in 1..Len(s) /\ i + 1 # index
      BY <1>2, <1>3, <2>2
    <3> QED
      BY <1>2, <2>2, <3>1
  <2> QED
    BY <1>2, <1>3, <2>1, <2>2
<1>6. /\ \A k \in 1..Len(s) : owner[s[k]] = w
      /\ \A k, l \in 1..Len(s) : s[k] = s[l] => k = l
  BY <1>1 DEF QueuesOK
<1>7. ASSUME NEW i \in 1..Len(t)
      PROVE  owner[t[i]] = w /\ t[i] # s[index]
  BY <1>2, <1>5, <1>6
<1>8. ASSUME NEW i \in 1..Len(t), NEW j \in 1..Len(t), t[i] = t[j]
      PROVE  i = j
  <2>1. PICK k \in 1..Len(s) : t[i] = s[k] /\ k = (IF i < index THEN i ELSE i + 1)
    BY <1>5
  <2>2. PICK l \in 1..Len(s) : t[j] = s[l] /\ l = (IF j < index THEN j ELSE j + 1)
    BY <1>5
  <2>3. k = l
    BY <1>6, <1>8, <2>1, <2>2
  <2> QED
    BY <1>2, <1>3, <2>1, <2>2, <2>3
<1>9. QueuesOK'
  <2> SUFFICES ASSUME NEW v \in WebStates, NEW i \in 1..Len(queues'[v])
               PROVE  /\ owner[queues'[v][i]] = v
                      /\ \A j \in 1..Len(queues'[v]) : queues'[v][i] = queues'[v][j] => i = j
    BY <1>1 DEF QueuesOK
  <2>1. CASE v = w
    BY <1>4, <1>7, <1>8, <2>1
  <2>2. CASE v # w
    BY <1>1, <1>4, <2>2 DEF QueuesOK
  <2> QED
    BY <2>1, <2>2
<1>10. ASSUME NEW v \in WebStates, NEW i \in 1..Len(queues'[v])
       PROVE  queues'[v][i] # s[index]
  <2>1. CASE v = w
    BY <1>4, <1>7, <2>1
  <2>2. CASE v # w
    <3>1. owner[queues'[v][i]] = v /\ owner[s[index]] = w
      BY <1>1, <1>2, <1>4, <1>6, <2>2 DEF QueuesOK
    <3> QED
      BY <2>2, <3>1
  <2> QED
    BY <2>1, <2>2
<1> QED
  BY <1>4, <1>9, <1>10

LEMMA RemoveRequestKeeps ==
  ASSUME Inv, RemoveRequest
  PROVE  Inv'
<1>1. /\ Running("RemoveRequest")
      /\ UNCHANGED <<phase, delegate, owner, presenter, context, container>>
  BY DEF RemoveRequest, otherThanQueues
<1>2. /\ calls # << >> /\ arg.f = "RemoveRequest" /\ Stack = {arg} \cup Waiting
      /\ arg.w \in WebStates /\ arg.x \in Words
      /\ \A c \in Waiting : MayRunBefore(arg, c)
  BY <1>1, RunningFacts DEF CallOK, TabsKnownTo
<1>3. PICK index \in 1..Len(queues[arg.w]) :
        /\ queues[arg.w][index] = arg.r
        /\ queues' = [queues EXCEPT ![arg.w] = RemoveAt(@, index)]
  BY DEF RemoveRequest
<1>4. /\ queues' \in [WebStates -> Seq(Requests)] /\ QueuesOK'
      /\ \A v \in WebStates : \A i \in 1..Len(queues'[v]) : queues'[v][i] # arg.r
  <2>1. PICK w \in WebStates : w = arg.w
    BY <1>2
  <2>2. /\ index \in 1..Len(queues[w]) /\ queues[w][index] = arg.r
        /\ queues' = [queues EXCEPT ![w] = RemoveAt(queues[w], index)]
    BY <1>3, <2>1
  <2>3. Removes(w, index)
    BY <1>1, <2>2 DEF Removes
  <2> QED
    BY <2>2, <2>3, RemovedFromQueue
<1>5. arg.r \in Requests
  BY <1>2, <1>3 DEF Inv, Types
<1>6. PICK a : a = IF delegate[arg.w] = "presenter"
                   THEN Call("OverlayRequestRemoved", arg.r, arg.w, arg.x)
                   ELSE OnRequest("DestroyRequest", arg.r)
  OBVIOUS
<1>7. /\ a \in CallRecords
      /\ \/ a.f = "OverlayRequestRemoved" /\ a.r = arg.r /\ a.x = arg.x
         \/ a.f = "DestroyRequest"
  <2>1. CASE a = Call("OverlayRequestRemoved", arg.r, arg.w, arg.x)
    <3>1. "OverlayRequestRemoved" \in Methods
      BY DEF Methods
    <3> QED
      BY <1>2, <1>5, <2>1, <3>1, NewCall
  <2>2. CASE a = OnRequest("DestroyRequest", arg.r)
    <3>1. "DestroyRequest" \in Methods
      BY DEF Methods
    <3> QED
      BY <1>5, <2>2, <3>1, RequestCall
  <2> QED
    BY <1>6, <2>1, <2>2
<1>8. Fits(a)
  BY <1>2, <1>7
     DEF Fits, MayRunBefore, IsPopping, IsPresenting, IsDismissal, GivesContext, ChangesContext
<1>9. PICK always \in BOOLEAN : always
  OBVIOUS
<1>10. calls' \in Seq(CallRecords) /\ StackOrdered' /\ Stack' = {a} \cup Waiting
  <2>1. Making(When(always, a))
    BY <1>6, <1>9 DEF RemoveRequest, When
  <2>2. /\ calls' \in Seq(CallRecords) /\ StackOrdered'
        /\ Stack' = {c \in {a} : always} \cup Waiting
    BY <1>2, <1>8, <2>1, NewStack
  <2> QED
    BY <1>9, <2>2
<1>11. CallOK(a)'
  <2>1. CASE a.f = "DestroyRequest"
    BY <2>1, PlainCall DEF Plain
  <2>2. CASE a.f = "OverlayRequestRemoved" /\ a.r = arg.r
    <3>1. QueuesKnownTo(a)'
      BY <1>4, <2>2 DEF QueuesKnownTo
    <3> QED
      BY <2>2, <3>1, CallParts DEF CallOK
  <2> QED
    BY <1>7, <2>1, <2>2
<1>12. ASSUME NEW c \in Waiting PROVE CallOK(c)'
  <2>1. c \in CallRecords /\ CallOK(c) /\ MayRunBefore(arg, c)
    BY <1>1, RunningFacts
  <2>2. TabsKnownTo(c)'
    <3>1. /\ \A w \in WebStates : /\ Left(w) => Left(w)'
                                  /\ phase[w] = "tab" => phase'[w] = "tab"
          /\ \A d \in Stack : d.f = "SetActiveWebState" => d \in Stack'
      BY <1>1, <1>2, <1>10 DEF Left
    <3> QED
      BY <1>1, <2>1, <3>1, TabsStayKnown DEF CallOK
  <2>3. QueuesKnownTo(c)' /\ UIKnownTo(c)'
    BY <2>1, WaitingIsNotImmediate
  <2>4. DismissalKnownTo(c)'
    BY <1>1, <2>1, DismissalStaysKnown DEF CallOK, Callback
  <2>5. ContainerKnownTo(c)'
    BY <1>1, <2>1, ContainerStaysKnown DEF CallOK
  <2>6. PresentationKnownTo(c)'
    BY <1>2, <2>1 DEF PresentationKnownTo, MayRunBefore, Immediate, IsPresenting
  <2> QED
    BY <2>2, <2>3, <2>4, <2>5, <2>6 DEF CallOK
<1>13. CallsOK'
  BY <1>10, <1>11, <1>12 DEF CallsOK
<1>14. ContextOK'
  BY <1>1, <1>2, <1>10, ContextStaysOK DEF Inv
<1>15. PresenterOK'
  <2>1. \A c : c.f = "ShowOverlayUI" \/ IsDismissal(c) => (c \in Stack <=> c \in Stack')
    BY <1>2, <1>7, <1>10 DEF IsDismissal
  <2>2. IsShowingOverlayUI' = IsShowingOverlayUI
    BY <1>1 DEF IsShowingOverlayUI, HasState
  <2> QED
    BY <1>1, <2>1, <2>2, PresenterUntouched DEF Inv
<1> QED
  BY <1>1, <1>4, <1>10, <1>13, <1>14, <1>15 DEF Inv, Types, UnstartedOK


----------------------------------------------------------------------------
(* The calls from outside, which come when the stack is empty.             *)

\* The calls of presentations and dismissals, which only other calls make.
FromWithin ==
  {"ShowOverlayUI", "OverlayUIDidFinishDismissal", "OverlayUIWasDismissedThen",
   "OverlayWasDismissed", "OverlayWasDismissedThen"}

\* What a call from outside leaves alone.
KeepsPresentation ==
  /\ UNCHANGED <<queues, delegate, owner, presenter>>
  /\ UNCHANGED context.request /\ UNCHANGED context.states
  /\ UnstartedOK'
  /\ \A w \in WebStates : /\ Left(w) => Left(w)'
                          /\ phase[w] = "tab" => phase'[w] = "tab" \/ Left(w)'
  /\ (phase \in [WebStates -> {"new", "tab", "detached", "destroyed"}])'
  /\ (context \in ContextRecords)'
  /\ (container \in ContainerRecords)'

LEMMA EmptyStack ==
  ASSUME calls = << >>
  PROVE  Stack = {}
<1>1. Len(<< >>) = 0
  OBVIOUS
<1> QED
  BY <1>1 DEF Stack, CallsIn

LEMMA EventKeeps ==
  ASSUME Inv, NEW made \in Seq(CallRecords), Entering(made), Ordered(made),
         KeepsPresentation,
         \A a \in CallsIn(made) : a.f \notin FromWithin /\ CallOK(a)'
  PROVE  Inv'
<1>1. calls = << >> /\ calls' = made /\ Stack' = CallsIn(made) /\ Stack = {}
  BY EmptyStack DEF Entering, Stack
<1>2. Types' /\ UnstartedOK'
  BY <1>1 DEF Inv, Types, KeepsPresentation
<1>3. StackOrdered'
  BY <1>1 DEF StackOrdered, Ordered
<1>4. CallsOK'
  BY <1>1 DEF CallsOK
<1>5. QueuesOK'
  BY DEF Inv, QueuesOK, KeepsPresentation
<1>6. ContextOK'
  BY <1>1, ContextStaysOK DEF Inv, KeepsPresentation
<1>7. PresenterOK'
  <2>1. IsShowingOverlayUI' = IsShowingOverlayUI
    BY DEF IsShowingOverlayUI, HasState, KeepsPresentation
  <2>2. \A c \in Stack' : c.f # "ShowOverlayUI" /\ ~IsDismissal(c)
    BY <1>1 DEF FromWithin, IsDismissal
  <2>3. \A w : Left(w) => Left(w)'
    BY DEF Left, KeepsPresentation
  <2>4. presenter.active_web_state \in WebStates \cup {Null}
    BY DEF Inv, Types, PresenterRecords
  <2>5. UNCHANGED <<owner, presenter>> /\ UNCHANGED context.request
    BY DEF KeepsPresentation
  <2>6. presenter.active_web_state # Null =>
          \/ Left(presenter.active_web_state)'
          \/ phase'[presenter.active_web_state] = "tab"
    BY <2>3, <2>4, <2>5 DEF Inv, PresenterOK, KeepsPresentation
  <2> QED
    BY <1>1, <2>1, <2>2, <2>3, <2>5, <2>6 DEF Inv, PresenterOK
<1> QED
  BY <1>2, <1>3, <1>4, <1>5, <1>6, <1>7 DEF Inv

\* A sequence of calls with one more at its end, perhaps.
LEMMA FollowedBy ==
  ASSUME NEW s \in Seq(CallRecords), Ordered(s), NEW test \in BOOLEAN,
         NEW a \in CallRecords, \A c \in CallsIn(s) : MayRunBefore(c, a)
  PROVE  /\ s \o When(test, a) \in Seq(CallRecords) /\ Ordered(s \o When(test, a))
         /\ CallsIn(s \o When(test, a)) = CallsIn(s) \cup {c \in {a} : test}
         /\ s \o <<a>> \in Seq(CallRecords) /\ Ordered(s \o <<a>>)
         /\ CallsIn(s \o <<a>>) = CallsIn(s) \cup {a}
<1> DEFINE t == When(test, a)
           u == <<a>>
<1>1. /\ t \in Seq(CallRecords) /\ CallsIn(t) = {c \in {a} : test} /\ Ordered(t)
      /\ u \in Seq(CallRecords) /\ CallsIn(u) = {a} /\ Ordered(u)
  BY WhenCalls, ShortSequences
<1> HIDE DEF t, u
<1>2. /\ s \o t \in Seq(CallRecords) /\ Ordered(s \o t)
      /\ CallsIn(s \o t) = CallsIn(s) \cup {c \in {a} : test}
  BY <1>1, ConcatCalls
<1>3. s \o u \in Seq(CallRecords) /\ Ordered(s \o u) /\ CallsIn(s \o u) = CallsIn(s) \cup {a}
  BY <1>1, ConcatCalls
<1> QED
  BY <1>2, <1>3 DEF t, u

\* What the type invariant says of the tabs.
LEMMA PhaseTypes ==
  ASSUME Inv
  PROVE  /\ phase \in [WebStates -> {"new", "tab", "detached", "destroyed"}]
         /\ presenter.active_web_state \in WebStates \cup {Null}
         /\ context \in ContextRecords /\ container \in ContainerRecords
         /\ UnstartedOK
  BY DEF Inv, Types, PresenterRecords

\* An event of the tabs only changes their phases.
LEMMA TabEventKeeps ==
  ASSUME Inv, UNCHANGED exceptCallsAndPhase,
         phase' \in [WebStates -> {"new", "tab", "detached", "destroyed"}],
         \A w \in WebStates : \/ phase'[w] = phase[w]
                              \/ phase'[w] = "detached"
                              \/ phase'[w] = "tab" /\ phase[w] = "new"
  PROVE  KeepsPresentation
<1>1. UNCHANGED <<queues, delegate, owner, presenter, context, container>>
  BY DEF exceptCallsAndPhase
<1>2. UnstartedOK'
  BY <1>1, PhaseTypes DEF UnstartedOK
<1>3. ASSUME NEW w \in WebStates
      PROVE  /\ Left(w) => Left(w)'
             /\ phase[w] = "tab" => phase'[w] = "tab" \/ Left(w)'
  BY DEF Left
<1> QED
  BY <1>1, <1>2, <1>3, PhaseTypes DEF KeepsPresentation

LEMMA InsertTabKeeps ==
  ASSUME Inv, NEW w \in WebStates, NEW activating \in BOOLEAN, InsertTab(w, activating)
  PROVE  Inv'
<1>1. phase[w] = "new" /\ phase' = [phase EXCEPT ![w] = "tab"] /\ UNCHANGED exceptCallsAndPhase
  BY DEF InsertTab
<1>2. phase'[w] = "tab" /\ KeepsPresentation
  BY <1>1, PhaseTypes, TabEventKeeps
<1>3. PICK a : a = OnWebState("WebStateAddedToBrowser", w)
  OBVIOUS
<1>4. PICK b : b = Call("SetActiveWebState", Null, w, "Inserted")
  OBVIOUS
<1>5. a \in CallRecords /\ a.f = "WebStateAddedToBrowser"
  <2>1. "WebStateAddedToBrowser" \in Methods
    BY DEF Methods
  <2> QED
    BY <1>3, <2>1, WebStateCall
<1>6. b \in CallRecords /\ b.f = "SetActiveWebState" /\ b.w = w
  <2>1. "SetActiveWebState" \in Methods /\ "Inserted" \in Words
    BY DEF Methods, Words
  <2> QED
    BY <1>4, <2>1, NewCall
<1> DEFINE s == <<a>>
           made == s \o When(activating, b)
<1>7. s \in Seq(CallRecords) /\ Ordered(s) /\ CallsIn(s) = {a}
  BY <1>5, ShortSequences
<1>8. Entering(made)
  BY <1>3, <1>4 DEF InsertTab
<1> HIDE DEF s
<1>9. \A c \in CallsIn(s) : MayRunBefore(c, b)
  BY <1>5, <1>6, <1>7 DEF MayRunBefore, Immediate, GivesContext, ChangesContext
<1>10. /\ made \in Seq(CallRecords) /\ Ordered(made)
       /\ CallsIn(made) = CallsIn(s) \cup {c \in {b} : activating}
  BY <1>6, <1>7, <1>9, FollowedBy, ZenonT(30)
<1>11. CallOK(a)' /\ a.f \notin FromWithin
  BY <1>5, PlainCall DEF Plain, FromWithin
<1>12. CallOK(b)' /\ b.f \notin FromWithin
  <2>1. TabsKnownTo(b)'
    BY <1>2, <1>6 DEF TabsKnownTo
  <2> QED
    BY <1>6, <2>1, CallParts DEF CallOK, FromWithin
<1> HIDE DEF made
<1>13. \A c \in CallsIn(made) : c.f \notin FromWithin /\ CallOK(c)'
  BY <1>7, <1>10, <1>11, <1>12
<1> QED
  BY <1>2, <1>8, <1>10, <1>13, EventKeeps

LEMMA ActivateTabKeeps ==
  ASSUME Inv, NEW w \in WebStates, ActivateTab(w)
  PROVE  Inv'
<1>1. phase[w] = "tab" /\ UNCHANGED phase /\ UNCHANGED exceptCallsAndPhase
  BY DEF ActivateTab, Tabs
<1>2. KeepsPresentation
  BY <1>1, PhaseTypes, TabEventKeeps
<1>3. PICK b : b = Call("SetActiveWebState", Null, w, "Activated")
  OBVIOUS
<1>4. b \in CallRecords /\ b.f = "SetActiveWebState" /\ b.w = w
  <2>1. "SetActiveWebState" \in Methods /\ "Activated" \in Words
    BY DEF Methods, Words
  <2> QED
    BY <1>3, <2>1, NewCall
<1>5. TabsKnownTo(b)'
  BY <1>1, <1>4 DEF TabsKnownTo
<1>6. CallOK(b)' /\ b.f \notin FromWithin
  BY <1>4, <1>5, CallParts DEF CallOK, FromWithin
<1>7. <<b>> \in Seq(CallRecords) /\ Ordered(<<b>>) /\ CallsIn(<<b>>) = {b}
  BY <1>4, ShortSequences
<1>8. Entering(<<b>>)
  BY <1>3 DEF ActivateTab
<1>9. \A c \in CallsIn(<<b>>) : c.f \notin FromWithin /\ CallOK(c)'
  BY <1>6, <1>7
<1> QED
  BY <1>2, <1>7, <1>8, <1>9, EventKeeps

LEMMA CloseMovedTabKeeps ==
  ASSUME Inv, NEW w \in WebStates, CloseMovedTab(w)
  PROVE  Inv'
<1>1. phase[w] = "detached" /\ UNCHANGED phase /\ UNCHANGED exceptCallsAndPhase
  BY DEF CloseMovedTab
<1>2. KeepsPresentation
  BY <1>1, PhaseTypes, TabEventKeeps
<1>3. PICK b : b = OnWebState("DestroyQueue", w)
  OBVIOUS
<1>4. b \in CallRecords /\ b.f = "DestroyQueue" /\ b.w = w
  <2>1. "DestroyQueue" \in Methods
    BY DEF Methods
  <2> QED
    BY <1>3, <2>1, WebStateCall
<1>5. TabsKnownTo(b)'
  BY <1>1, <1>4 DEF TabsKnownTo, Left
<1>6. CallOK(b)' /\ b.f \notin FromWithin
  BY <1>4, <1>5, CallParts DEF CallOK, FromWithin
<1>7. <<b>> \in Seq(CallRecords) /\ Ordered(<<b>>) /\ CallsIn(<<b>>) = {b}
  BY <1>4, ShortSequences
<1>8. Entering(<<b>>)
  BY <1>3 DEF CloseMovedTab
<1>9. \A c \in CallsIn(<<b>>) : c.f \notin FromWithin /\ CallOK(c)'
  BY <1>6, <1>7
<1> QED
  BY <1>2, <1>7, <1>8, <1>9, EventKeeps

LEMMA DetachTabKeeps ==
  ASSUME Inv, NEW w \in WebStates, NEW then \in {"close", "move"}, DetachTab(w, then)
  PROVE  Inv'
<1>1. phase' = [phase EXCEPT ![w] = "detached"] /\ UNCHANGED exceptCallsAndPhase
  BY DEF DetachTab
<1>2. /\ phase'[w] = "detached" /\ KeepsPresentation
      /\ \A v \in WebStates : v # w => phase'[v] = phase[v]
  BY <1>1, PhaseTypes, TabEventKeeps
<1>3. PICK next \in Successors(w) :
        Entering(<<OnWebState("WillDetachWebStateAt", w)>>
                 \o When(w = presenter.active_web_state,
                         Call("SetActiveWebState", Null, next, "Closed"))
                 \o <<IF then = "close" THEN OnWebState("DestroyQueue", w)
                      ELSE Call("SetDelegate", Null, w, "other")>>)
  BY DEF DetachTab
<1>4. next = Null \/ (next \in WebStates /\ phase'[next] = "tab")
  BY <1>2 DEF Successors, Tabs
<1>5. PICK a : a = OnWebState("WillDetachWebStateAt", w)
  OBVIOUS
<1>6. PICK b : b = Call("SetActiveWebState", Null, next, "Closed")
  OBVIOUS
<1>7. PICK d : d = IF then = "close" THEN OnWebState("DestroyQueue", w)
                   ELSE Call("SetDelegate", Null, w, "other")
  OBVIOUS
<1>8. PICK test \in BOOLEAN : test <=> w = presenter.active_web_state
  OBVIOUS
<1>9. a \in CallRecords /\ a.f = "WillDetachWebStateAt"
  <2>1. "WillDetachWebStateAt" \in Methods
    BY DEF Methods
  <2> QED
    BY <1>5, <2>1, WebStateCall
<1>10. b \in CallRecords /\ b.f = "SetActiveWebState" /\ b.w = next
  <2>1. "SetActiveWebState" \in Methods /\ "Closed" \in Words
    BY DEF Methods, Words
  <2>2. next \in WebStates \cup {Null} /\ Null \in Requests \cup {Null}
    BY <1>4
  <2> QED
    BY <1>6, <2>1, <2>2, NewCall
<1>11. /\ d \in CallRecords /\ d.w = w
       /\ d.f = "DestroyQueue" \/ (d.f = "SetDelegate" /\ d.x = "other")
  <2>1. CASE then = "close"
    <3>1. "DestroyQueue" \in Methods
      BY DEF Methods
    <3> QED
      BY <1>7, <2>1, <3>1, WebStateCall
  <2>2. CASE then # "close"
    <3>1. "SetDelegate" \in Methods /\ "other" \in Words /\ "other" \in Delegates
      BY DEF Methods, Words, Delegates
    <3> QED
      BY <1>7, <2>2, <3>1, NewCall
  <2> QED
    BY <2>1, <2>2
<1> DEFINE s == <<a>>
           t == s \o When(test, b)
           made == t \o <<d>>
<1>12. s \in Seq(CallRecords) /\ Ordered(s) /\ CallsIn(s) = {a}
  BY <1>9, ShortSequences
<1>13. Entering(made)
  <2>1. When(test, b) = When(w = presenter.active_web_state,
                             Call("SetActiveWebState", Null, next, "Closed"))
    BY <1>6, <1>8 DEF When
  <2>2. Entering(<<a>> \o When(w = presenter.active_web_state,
                               Call("SetActiveWebState", Null, next, "Closed")) \o <<d>>)
    BY <1>3, <1>5, <1>7, Zenon
  <2> QED
    BY <2>1, <2>2
<1> HIDE DEF s
<1>14. \A c \in CallsIn(s) : MayRunBefore(c, b)
  BY <1>9, <1>10, <1>12 DEF MayRunBefore, Immediate, GivesContext, ChangesContext
<1>15. /\ t \in Seq(CallRecords) /\ Ordered(t)
       /\ CallsIn(t) = CallsIn(s) \cup {c \in {b} : test}
  BY <1>10, <1>12, <1>14, FollowedBy, ZenonT(30)
<1> HIDE DEF t
<1>16. \A c \in CallsIn(t) : MayRunBefore(c, d)
  BY <1>9, <1>10, <1>11, <1>12, <1>15 DEF MayRunBefore, Immediate, GivesContext, ChangesContext
<1>17. /\ made \in Seq(CallRecords) /\ Ordered(made)
       /\ CallsIn(made) = CallsIn(t) \cup {d}
  BY <1>11, <1>15, <1>16, FollowedBy
<1> HIDE DEF made
<1>18. CallOK(a)' /\ a.f \notin FromWithin
  BY <1>9, PlainCall DEF Plain, FromWithin
<1>19. CallOK(b)' /\ b.f \notin FromWithin
  <2>1. TabsKnownTo(b)'
    BY <1>4, <1>10 DEF TabsKnownTo
  <2> QED
    BY <1>10, <2>1, CallParts DEF CallOK, FromWithin
<1>20. CallOK(d)' /\ d.f \notin FromWithin
  <2>1. presenter'.active_web_state = w => \E c \in Stack' : c.f = "SetActiveWebState"
    <3>1. presenter' = presenter /\ Stack' = CallsIn(made)
      BY <1>2, <1>13 DEF KeepsPresentation, Entering, Stack
    <3> QED
      BY <1>8, <1>10, <1>15, <1>17, <3>1
  <2>2. Left(w)'
    BY <1>2 DEF Left
  <2>3. TabsKnownTo(d)'
    BY <1>11, <2>1, <2>2 DEF TabsKnownTo
  <2>4. QueuesKnownTo(d)'
    BY <1>11 DEF QueuesKnownTo
  <2> QED
    BY <1>11, <2>3, <2>4, CallParts DEF CallOK, FromWithin
<1>21. \A c \in CallsIn(made) : c.f \notin FromWithin /\ CallOK(c)'
  BY <1>12, <1>15, <1>17, <1>18, <1>19, <1>20
<1> QED
  BY <1>2, <1>13, <1>17, <1>21, EventKeeps

\* Four calls one after the other.
LEMMA FourCalls ==
  ASSUME NEW a \in CallRecords, NEW b \in CallRecords, NEW c \in CallRecords,
         NEW d \in CallRecords,
         MayRunBefore(a, b), MayRunBefore(a, c), MayRunBefore(a, d),
         MayRunBefore(b, c), MayRunBefore(b, d), MayRunBefore(c, d)
  PROVE  /\ <<a, b, c, d>> \in Seq(CallRecords) /\ Ordered(<<a, b, c, d>>)
         /\ CallsIn(<<a, b, c, d>>) = {a, b, c, d}
<1> DEFINE s == <<a, b, c, d>>
<1>1. /\ s \in Seq(CallRecords) /\ Len(s) = 4
      /\ s[1] = a /\ s[2] = b /\ s[3] = c /\ s[4] = d
  OBVIOUS
<1> HIDE DEF s
<1>2. CallsIn(s) = {a, b, c, d}
  BY <1>1 DEF CallsIn
<1>3. Ordered(s)
  <2> SUFFICES ASSUME NEW i \in 1..4, NEW j \in 1..4, i < j
               PROVE  MayRunBefore(s[i], s[j])
    BY <1>1 DEF Ordered
  <2>1. \/ i = 1 /\ (j = 2 \/ j = 3 \/ j = 4)
        \/ i = 2 /\ (j = 3 \/ j = 4)
        \/ i = 3 /\ j = 4
    OBVIOUS
  <2> QED
    BY <1>1, <2>1
<1> QED
  BY <1>1, <1>2, <1>3 DEF s

LEMMA ReplaceActiveTabKeeps ==
  ASSUME Inv, NEW new \in WebStates, ReplaceActiveTab(new)
  PROVE  Inv'
<1>1. PICK old : old = presenter.active_web_state
  OBVIOUS
<1>2. /\ old # Null /\ phase[new] = "new" /\ UNCHANGED exceptCallsAndPhase
      /\ phase' = [phase EXCEPT ![old] = "detached", ![new] = "tab"]
  BY <1>1 DEF ReplaceActiveTab
<1>3. old \in WebStates /\ old # new
  BY <1>1, <1>2, PhaseTypes DEF Inv, PresenterOK, Left
<1>4. /\ phase'[old] = "detached" /\ phase'[new] = "tab" /\ KeepsPresentation
  BY <1>2, <1>3, PhaseTypes, TabEventKeeps
<1>5. PICK a : a = OnWebState("WebStateRemovedFromBrowser", old)
  OBVIOUS
<1>6. PICK b : b = OnWebState("WebStateAddedToBrowser", new)
  OBVIOUS
<1>7. PICK c : c = Call("SetActiveWebState", Null, new, "Replaced")
  OBVIOUS
<1>8. PICK d : d = OnWebState("DestroyQueue", old)
  OBVIOUS
<1>9. /\ "WebStateRemovedFromBrowser" \in Methods /\ "WebStateAddedToBrowser" \in Methods
      /\ "SetActiveWebState" \in Methods /\ "DestroyQueue" \in Methods /\ "Replaced" \in Words
  BY DEF Methods, Words
<1>10. a \in CallRecords /\ a.f = "WebStateRemovedFromBrowser"
  BY <1>3, <1>5, <1>9, WebStateCall
<1>11. b \in CallRecords /\ b.f = "WebStateAddedToBrowser"
  BY <1>6, <1>9, WebStateCall
<1>12. c \in CallRecords /\ c.f = "SetActiveWebState" /\ c.w = new
  BY <1>7, <1>9, NewCall
<1>13. d \in CallRecords /\ d.f = "DestroyQueue" /\ d.w = old
  BY <1>3, <1>8, <1>9, WebStateCall
<1> DEFINE made == <<a, b, c, d>>
<1>14. Entering(made)
  BY <1>1, <1>5, <1>6, <1>7, <1>8 DEF ReplaceActiveTab
<1>15. /\ MayRunBefore(a, b) /\ MayRunBefore(a, c) /\ MayRunBefore(a, d)
       /\ MayRunBefore(b, c) /\ MayRunBefore(b, d) /\ MayRunBefore(c, d)
  BY <1>10, <1>11, <1>12, <1>13 DEF MayRunBefore, Immediate, GivesContext, ChangesContext
<1>16. made \in Seq(CallRecords) /\ Ordered(made) /\ CallsIn(made) = {a, b, c, d}
  BY <1>10, <1>11, <1>12, <1>13, <1>15, FourCalls
<1> HIDE DEF made
<1>17. /\ CallOK(a)' /\ a.f \notin FromWithin
       /\ CallOK(b)' /\ b.f \notin FromWithin
  BY <1>10, <1>11, PlainCall DEF Plain, FromWithin
<1>18. CallOK(c)' /\ c.f \notin FromWithin
  <2>1. TabsKnownTo(c)'
    BY <1>4, <1>12 DEF TabsKnownTo
  <2> QED
    BY <1>12, <2>1, CallParts DEF CallOK, FromWithin
<1>19. CallOK(d)' /\ d.f \notin FromWithin
  <2>1. Left(old)'
    BY <1>3, <1>4 DEF Left
  <2>2. TabsKnownTo(d)'
    BY <1>13, <2>1 DEF TabsKnownTo
  <2> QED
    BY <1>13, <2>2, CallParts DEF CallOK, FromWithin
<1>20. \A e \in CallsIn(made) : e.f \notin FromWithin /\ CallOK(e)'
  BY <1>16, <1>17, <1>18, <1>19
<1> QED
  BY <1>4, <1>14, <1>16, <1>20, EventKeeps

LEMMA CancelRequestKeeps ==
  ASSUME Inv, NEW w \in WebStates, NEW r \in Requests, CancelRequest(w, r)
  PROVE  Inv'
<1>1. UNCHANGED phase /\ UNCHANGED exceptCallsAndPhase
  BY DEF CancelRequest, otherThanQueues, exceptCallsAndPhase
<1>2. KeepsPresentation
  BY <1>1, PhaseTypes, TabEventKeeps
<1>3. PICK a : a = Call("RemoveRequest", r, w, "cancelled")
  OBVIOUS
<1>4. a \in CallRecords /\ a.f = "RemoveRequest" /\ a.w = w
  <2>1. "RemoveRequest" \in Methods /\ "cancelled" \in Words
    BY DEF Methods, Words
  <2> QED
    BY <1>3, <2>1, NewCall
<1>5. TabsKnownTo(a)'
  BY <1>4 DEF TabsKnownTo
<1>6. CallOK(a)' /\ a.f \notin FromWithin
  BY <1>4, <1>5, CallParts DEF CallOK, FromWithin
<1>7. <<a>> \in Seq(CallRecords) /\ Ordered(<<a>>) /\ CallsIn(<<a>>) = {a}
  BY <1>4, ShortSequences
<1>8. Entering(<<a>>)
  BY <1>3 DEF CancelRequest
<1>9. \A c \in CallsIn(<<a>>) : c.f \notin FromWithin /\ CallOK(c)'
  BY <1>6, <1>7
<1> QED
  BY <1>2, <1>7, <1>8, <1>9, EventKeeps

\* A request that was in no queue enters the queue of w.
LEMMA InsertedInQueue ==
  ASSUME Inv, NEW w \in WebStates, NEW r \in Requests,
         NEW index \in 1..(Len(queues[w]) + 1), InsertRequest(w, r, index)
  PROVE  /\ queues' \in [WebStates -> Seq(Requests)]
         /\ owner' \in [Requests -> WebStates \cup {Null}]
         /\ QueuesOK'
<1>1. /\ queues \in [WebStates -> Seq(Requests)] /\ QueuesOK
      /\ owner \in [Requests -> WebStates \cup {Null}] /\ owner[r] = Null
      /\ owner' = [owner EXCEPT ![r] = w]
      /\ queues' = [queues EXCEPT ![w] = InsertAt(queues[w], index, r)]
  BY DEF Inv, Types, InsertRequest
<1>2. queues[w] \in Seq(Requests) /\ Len(queues[w]) \in Nat
  BY <1>1
<1> DEFINE s == queues[w]
           t == InsertAt(s, index, r)
<1>3. /\ t \in Seq(Requests) /\ Len(t) = Len(s) + 1
      /\ \A j \in 1..(Len(s) + 1) :
           t[j] = IF j < index THEN s[j] ELSE IF j = index THEN r ELSE s[j - 1]
  <2>1. ASSUME NEW q \in Seq(Requests), NEW n \in 1..(Len(q) + 1)
        PROVE  /\ InsertAt(q, n, r) \in Seq(Requests)
               /\ Len(InsertAt(q, n, r)) = Len(q) + 1
               /\ \A j \in 1..(Len(q) + 1) :
                    InsertAt(q, n, r)[j] = IF j < n THEN q[j]
                                           ELSE IF j = n THEN r ELSE q[j - 1]
    BY InsertAtPositions
  <2>2. s \in Seq(Requests) /\ index \in 1..(Len(s) + 1)
    BY <1>2
  <2> HIDE DEF s
  <2> QED
    BY ONLY <2>1, <2>2
<1>4. /\ queues' \in [WebStates -> Seq(Requests)] /\ queues'[w] = t
      /\ \A v \in WebStates : v # w => queues'[v] = queues[v]
  BY <1>1, <1>3
<1>5. /\ owner' \in [Requests -> WebStates \cup {Null}] /\ owner'[r] = w
      /\ \A q \in Requests : q # r => owner'[q] = owner[q]
  BY <1>1
<1> HIDE DEF t
<1>6. ASSUME NEW v \in WebStates, NEW i \in 1..Len(queues[v])
      PROVE  /\ queues[v][i] \in Requests /\ queues[v][i] # r
             /\ owner'[queues[v][i]] = v
  <2>1. queues[v][i] \in Requests
    BY <1>1
  <2>2. owner[queues[v][i]] = v /\ v # Null
    BY <1>1, NullAssumption DEF QueuesOK
  <2> QED
    BY <1>1, <1>5, <2>1, <2>2
<1>7. ASSUME NEW i \in 1..Len(t)
      PROVE  \/ i = index /\ t[i] = r
             \/ \E k \in 1..Len(s) : /\ t[i] = s[k] /\ i # index
                                     /\ k = (IF i < index THEN i ELSE i - 1)
  <2>1. CASE i < index
    BY <1>2, <1>3, <2>1
  <2>2. CASE i = index
    BY <1>2, <1>3, <2>2
  <2>3. CASE i > index
    <3>1. t[i] = s[i - 1] /\ i - 1 \in 1..Len(s)
      BY <1>2, <1>3, <2>3
    <3> QED
      BY <1>2, <2>3, <3>1
  <2> QED
    BY <1>2, <1>3, <2>1, <2>2, <2>3
<1>8. ASSUME NEW i \in 1..Len(t) PROVE owner'[t[i]] = w
  BY <1>5, <1>6, <1>7
<1>9. ASSUME NEW i \in 1..Len(t), NEW j \in 1..Len(t), t[i] = t[j]
      PROVE  i = j
  <2>1. CASE i = index \/ j = index
    BY <1>6, <1>7, <1>9, <2>1, SMTT(30)
  <2>2. CASE i # index /\ j # index
    <3>1. PICK k \in 1..Len(s) : t[i] = s[k] /\ k = (IF i < index THEN i ELSE i - 1)
      BY <1>7, <2>2
    <3>2. PICK l \in 1..Len(s) : t[j] = s[l] /\ l = (IF j < index THEN j ELSE j - 1)
      BY <1>7, <2>2
    <3>3. k = l
      <4>1. \A m, n \in 1..Len(s) : s[m] = s[n] => m = n
        BY <1>1 DEF QueuesOK
      <4> QED
        BY <1>9, <3>1, <3>2, <4>1
    <3> QED
      BY <1>2, <1>3, <2>2, <3>1, <3>2, <3>3
  <2> QED
    BY <2>1, <2>2
<1>10. QueuesOK'
  <2> SUFFICES ASSUME NEW v \in WebStates, NEW i \in 1..Len(queues'[v])
               PROVE  /\ owner'[queues'[v][i]] = v
                      /\ \A j \in 1..Len(queues'[v]) : queues'[v][i] = queues'[v][j] => i = j
    BY DEF QueuesOK
  <2>1. CASE v = w
    BY <1>4, <1>8, <1>9, <2>1
  <2>2. CASE v # w
    <3>1. queues'[v] = queues[v]
      BY <1>4, <2>2
    <3> QED
      BY <1>1, <1>6, <3>1 DEF QueuesOK
  <2> QED
    BY <2>1, <2>2
<1> QED
  BY <1>4, <1>5, <1>10

LEMMA InsertRequestKeeps ==
  ASSUME Inv, NEW w \in WebStates, NEW r \in Requests,
         NEW index \in 1..(Len(queues[w]) + 1), InsertRequest(w, r, index)
  PROVE  Inv'
<1>1. /\ UNCHANGED <<phase, delegate, presenter, context, container>>
      /\ owner[r] = Null /\ owner' = [owner EXCEPT ![r] = w]
  BY DEF InsertRequest, otherThanQueues
<1>2. PICK a : a = Call("RequestAddedToQueue", r, w, "none")
  OBVIOUS
<1>3. a \in CallRecords /\ a.f = "RequestAddedToQueue"
  <2>1. "RequestAddedToQueue" \in Methods /\ "none" \in Words
    BY DEF Methods, Words
  <2> QED
    BY <1>2, <2>1, NewCall
<1> DEFINE made == When(phase[w] = "tab", a)
<1>4. made \in Seq(CallRecords) /\ Ordered(made) /\ CallsIn(made) \subseteq {a}
  <2>1. PICK test \in BOOLEAN : test <=> phase[w] = "tab"
    OBVIOUS
  <2>2. made = When(test, a)
    BY <2>1 DEF When
  <2> QED
    BY <1>3, <2>2, WhenCalls
<1>5. calls = << >> /\ calls' = made /\ Stack = {} /\ Stack' \subseteq {a}
  BY <1>2, <1>4, EmptyStack DEF InsertRequest, Entering, Stack
<1> HIDE DEF made
<1>6. Types' /\ QueuesOK' /\ UnstartedOK'
  BY <1>1, <1>4, <1>5, InsertedInQueue DEF Inv, Types, UnstartedOK
<1>7. StackOrdered'
  BY <1>4, <1>5 DEF StackOrdered, Ordered
<1>8. CallsOK'
  BY <1>3, <1>5, PlainCall DEF CallsOK, Plain
<1>9. ContextOK'
  BY <1>1, <1>5, ContextStaysOK DEF Inv
<1>10. PresenterOK'
  <2>1. IsShowingOverlayUI' = IsShowingOverlayUI
    BY <1>1 DEF IsShowingOverlayUI, HasState
  <2>2. \A c \in Stack' : c.f # "ShowOverlayUI" /\ ~IsDismissal(c)
    BY <1>3, <1>5 DEF IsDismissal
  <2>3. ASSUME presenter.has_context, presenter.queue_replaced_delegate
        PROVE  owner'[context.request] = owner[context.request]
    <3>1. Left(owner[context.request]) /\ IsShowingOverlayUI
      BY <1>5, <2>3 DEF Inv, PresenterOK
    <3>2. context.request \in Requests /\ owner[context.request] \in WebStates
      BY <3>1 DEF Left, IsShowingOverlayUI, HasState, Inv, Types, ContextRecords
    <3> QED
      BY <1>1, <3>2, NullAssumption DEF Inv, Types
  <2> QED
    BY <1>1, <1>5, <2>1, <2>2, <2>3 DEF Inv, PresenterOK, Left
<1> QED
  BY <1>6, <1>7, <1>8, <1>9, <1>10 DEF Inv

LEMMA SetUIDisabledKeeps ==
  ASSUME Inv, NEW disabled \in BOOLEAN, SetUIDisabled(disabled)
  PROVE  Inv'
<1>1. /\ context' = [context EXCEPT !.ui_disabled = disabled]
      /\ UNCHANGED <<phase, queues, delegate, owner, presenter, container>>
  BY DEF SetUIDisabled, otherThanContext
<1>2. KeepsPresentation
  BY <1>1, PhaseTypes DEF KeepsPresentation, ContextRecords, UnstartedOK, Left
<1>3. PICK a : a = Do("UpdatePresentationCapabilities")
  OBVIOUS
<1>4. PICK b : b = Do("OverlayPresentationContextDidEnableUI")
  OBVIOUS
<1>5. PICK test \in BOOLEAN : test <=> ~disabled /\ presenter.has_context
  OBVIOUS
<1>6. /\ a \in CallRecords /\ a.f = "UpdatePresentationCapabilities"
      /\ b \in CallRecords /\ b.f = "OverlayPresentationContextDidEnableUI"
  <2>1. /\ "UpdatePresentationCapabilities" \in Methods
        /\ "OverlayPresentationContextDidEnableUI" \in Methods
    BY DEF Methods
  <2> QED
    BY <1>3, <1>4, <2>1, DoCall
<1> DEFINE s == <<a>>
           made == s \o When(test, b)
<1>7. s \in Seq(CallRecords) /\ Ordered(s) /\ CallsIn(s) = {a}
  BY <1>6, ShortSequences
<1>8. Entering(made)
  <2>1. When(test, b) = When(~disabled /\ presenter.has_context,
                             Do("OverlayPresentationContextDidEnableUI"))
    BY <1>4, <1>5 DEF When
  <2>2. Entering(<<a>> \o When(~disabled /\ presenter.has_context,
                               Do("OverlayPresentationContextDidEnableUI")))
    BY <1>3 DEF SetUIDisabled
  <2> QED
    BY <2>1, <2>2
<1> HIDE DEF s
<1>9. \A c \in CallsIn(s) : MayRunBefore(c, b)
  BY <1>6, <1>7 DEF MayRunBefore, Immediate, GivesContext, ChangesContext
<1>10. /\ made \in Seq(CallRecords) /\ Ordered(made)
       /\ CallsIn(made) = CallsIn(s) \cup {c \in {b} : test}
  BY <1>6, <1>7, <1>9, FollowedBy, ZenonT(30)
<1> HIDE DEF made
<1>11. CallOK(b)' /\ b.f \notin FromWithin
  BY <1>6, PlainCall DEF Plain, FromWithin
<1>12. CallOK(a)' /\ a.f \notin FromWithin
  <2>1. \A c \in Stack' : c = a \/ c = b
    BY <1>7, <1>8, <1>10 DEF Entering, Stack
  <2>2. PresentationKnownTo(a)'
    BY <1>6, <2>1 DEF PresentationKnownTo, GivesContext, ChangesContext
  <2> QED
    BY <1>6, <2>2, CallParts DEF CallOK, FromWithin
<1>13. \A c \in CallsIn(made) : c.f \notin FromWithin /\ CallOK(c)'
  BY <1>7, <1>10, <1>11, <1>12
<1> QED
  BY <1>2, <1>8, <1>10, <1>13, EventKeeps

LEMMA SetWindowKeeps ==
  ASSUME Inv, NEW window \in BOOLEAN, SetWindow(window)
  PROVE  Inv'
<1>1. /\ container' = [container EXCEPT !.window = window]
      /\ UNCHANGED <<phase, queues, delegate, owner, presenter, context>>
  BY DEF SetWindow, otherThanContext
<1>2. KeepsPresentation
  BY <1>1, PhaseTypes DEF KeepsPresentation, ContainerRecords, UnstartedOK, Left
<1>3. PICK a : a = Do("DidMoveToWindow")
  OBVIOUS
<1>4. PICK test \in BOOLEAN : test <=> presenter.has_context /\ window
  OBVIOUS
<1>5. a \in CallRecords /\ a.f = "DidMoveToWindow"
  <2>1. "DidMoveToWindow" \in Methods
    BY DEF Methods
  <2> QED
    BY <1>3, <2>1, DoCall
<1> DEFINE made == When(test, a)
<1>6. Entering(made)
  <2>1. When(test, a) = When(presenter.has_context /\ window, Do("DidMoveToWindow"))
    BY <1>3, <1>4 DEF When
  <2> QED
    BY <2>1 DEF SetWindow
<1>7. made \in Seq(CallRecords) /\ Ordered(made) /\ CallsIn(made) = {c \in {a} : test}
  BY <1>5, WhenCalls
<1> HIDE DEF made
<1>8. \A c \in CallsIn(made) : c.f \notin FromWithin /\ CallOK(c)'
  BY <1>5, <1>7, PlainCall DEF Plain, FromWithin
<1> QED
  BY <1>2, <1>6, <1>7, <1>8, EventKeeps

LEMMA PresentationContextPresentedKeeps ==
  ASSUME Inv, PresentationContextPresented
  PROVE  Inv'
<1>1. /\ container.pc_presenting /\ container' = [container EXCEPT !.pc_presenting = FALSE]
      /\ UNCHANGED <<phase, queues, delegate, owner, presenter, context>>
  BY DEF PresentationContextPresented, otherThanContext
<1>2. KeepsPresentation /\ (container'.started \/ container'.stopped)
  BY <1>1, PhaseTypes DEF KeepsPresentation, ContainerRecords, UnstartedOK, Left
<1>3. PICK a : a = With("SetViewController", Flag(container.pc_view_controller))
  OBVIOUS
<1>4. PICK test \in BOOLEAN : test <=> ~container.stopped
  OBVIOUS
<1>5. a \in CallRecords /\ a.f = "SetViewController"
  <2>1. "SetViewController" \in Methods /\ Flag(container.pc_view_controller) \in Words
    BY DEF Methods, Flag, Words
  <2> QED
    BY <1>3, <2>1, WithCall
<1> DEFINE made == When(test, a)
<1>6. Entering(made)
  <2>1. When(test, a) = When(~container.stopped,
                             With("SetViewController", Flag(container.pc_view_controller)))
    BY <1>3, <1>4 DEF When
  <2> QED
    BY <2>1 DEF PresentationContextPresented
<1>7. made \in Seq(CallRecords) /\ Ordered(made) /\ CallsIn(made) = {c \in {a} : test}
  BY <1>5, WhenCalls
<1> HIDE DEF made
<1>8. CallOK(a)' /\ a.f \notin FromWithin
  <2>1. \A c \in Stack' : c = a
    BY <1>6, <1>7 DEF Entering, Stack
  <2>2. PresentationKnownTo(a)'
    BY <1>5, <2>1 DEF PresentationKnownTo, GivesContext, ChangesContext
  <2>3. ContainerKnownTo(a)'
    BY <1>2, <1>5 DEF ContainerKnownTo, ChangesContext
  <2> QED
    BY <1>5, <2>2, <2>3, CallParts DEF CallOK, FromWithin
<1>9. \A c \in CallsIn(made) : c.f \notin FromWithin /\ CallOK(c)'
  BY <1>7, <1>8
<1> QED
  BY <1>2, <1>6, <1>7, <1>9, EventKeeps

LEMMA StartOrStopContainerKeeps ==
  ASSUME Inv, NEW start \in BOOLEAN, StartOrStopContainer(start)
  PROVE  Inv'
<1>0. PICK stop \in BOOLEAN : stop <=> ~start
  OBVIOUS
<1>1. /\ container.started # start /\ ~container.stopped
      /\ container' = [container EXCEPT !.started = start, !.stopped = ~start]
      /\ context' = [context EXCEPT !.view_controller = FALSE]
      /\ UNCHANGED <<phase, queues, delegate, owner, presenter>>
  BY DEF StartOrStopContainer, otherThanContext
<1>2. /\ container'.started = start /\ container'.stopped = ~start
      /\ container' \in ContainerRecords /\ context' \in ContextRecords
      /\ ~context'.view_controller /\ UNCHANGED context.request
      /\ UNCHANGED context.states /\ UNCHANGED context.capable
  BY <1>1, PhaseTypes DEF ContainerRecords, ContextRecords
<1>3. start => context.request = Null /\ presenter.has_context /\ ~context.capable
  BY <1>1, PhaseTypes DEF UnstartedOK, ContainerRecords
<1>4. KeepsPresentation
  BY <1>1, <1>2, PhaseTypes DEF KeepsPresentation, UnstartedOK, Left
<1>5. PICK a : a = Do("UpdatePresentationCapabilities")
  OBVIOUS
<1>6. PICK b : b = With("SetContextDelegateThen", Flag(start))
  OBVIOUS
<1>7. PICK d : d = Do("StopContainerThen")
  OBVIOUS
<1>8. /\ a \in CallRecords /\ a.f = "UpdatePresentationCapabilities"
      /\ d \in CallRecords /\ d.f = "StopContainerThen"
  <2>1. "UpdatePresentationCapabilities" \in Methods /\ "StopContainerThen" \in Methods
    BY DEF Methods
  <2> QED
    BY <1>5, <1>7, <2>1, DoCall
<1>9. b \in CallRecords /\ b.f = "SetContextDelegateThen" /\ (b.x = "true" <=> start)
  <2>1. "SetContextDelegateThen" \in Methods /\ Flag(start) \in Words
    BY DEF Methods, Flag, Words
  <2> QED
    BY <1>6, <2>1, WithCall DEF Flag
<1> DEFINE s == <<a, b>>
           made == s \o When(stop, d)
<1>10. Entering(made)
  <2>1. When(stop, d) = When(~start, Do("StopContainerThen"))
    BY <1>7, <1>0 DEF When
  <2>2. Entering(<<a, b>> \o When(~start, Do("StopContainerThen")))
    BY <1>5, <1>6 DEF StartOrStopContainer
  <2> QED
    BY <2>1, <2>2
<1>11. MayRunBefore(a, b) /\ MayRunBefore(a, d) /\ MayRunBefore(b, d)
  BY <1>8, <1>9 DEF MayRunBefore, Immediate, GivesContext, ChangesContext
<1>12. s \in Seq(CallRecords) /\ Ordered(s) /\ CallsIn(s) = {a, b}
  BY <1>8, <1>9, <1>11, ShortSequences
<1> HIDE DEF s
<1>13. \A c \in CallsIn(s) : MayRunBefore(c, d)
  BY <1>11, <1>12
<1>14. /\ made \in Seq(CallRecords) /\ Ordered(made)
       /\ CallsIn(made) = CallsIn(s) \cup {c \in {d} : stop}
  BY <1>8, <1>12, <1>13, FollowedBy, ZenonT(30)
<1> HIDE DEF made
<1>15. CallOK(a)' /\ a.f \notin FromWithin
  <2>1. \A c \in Stack' : c = a \/ c = b \/ c = d
    BY <1>10, <1>12, <1>14 DEF Entering, Stack
  <2>2. PresentationKnownTo(a)'
    BY <1>2, <1>3, <1>8, <1>9, <2>1 DEF PresentationKnownTo, GivesContext, ChangesContext
  <2> QED
    BY <1>8, <2>2, CallParts DEF CallOK, FromWithin
<1>16. CallOK(b)' /\ b.f \notin FromWithin
  <2>1. DismissalKnownTo(b)'
    BY <1>1, <1>2, <1>3, <1>9 DEF DismissalKnownTo, IsDismissal, GivesContext, ChangesContext
  <2>2. ContainerKnownTo(b)'
    BY <1>2, <1>9 DEF ContainerKnownTo, ChangesContext
  <2> QED
    BY <1>9, <2>1, <2>2, CallParts DEF CallOK, FromWithin
<1>17. ~start => CallOK(d)' /\ d.f \notin FromWithin
  <2>1. ~start => ContainerKnownTo(d)'
    BY <1>2, <1>8 DEF ContainerKnownTo, ChangesContext
  <2> QED
    BY <1>8, <2>1, CallParts DEF CallOK, FromWithin
<1>18. \A c \in CallsIn(made) : c.f \notin FromWithin /\ CallOK(c)'
  BY <1>0, <1>12, <1>14, <1>15, <1>16, <1>17
<1> QED
  BY <1>4, <1>10, <1>14, <1>18, EventKeeps

\* The coordinator of a request moves on, in an event.
LEMMA CoordinatorChanges ==
  ASSUME Inv, NEW r \in Requests, NEW stage \in {"dismissing", "stopped"},
         context.states[r].coordinator # "stopped",
         context' = [context EXCEPT !.states[r].coordinator = stage],
         UNCHANGED <<phase, queues, delegate, owner, presenter, container>>
  PROVE  /\ Callback(r) /\ context.request = r /\ UNCHANGED context.request
         /\ KeepsKnown /\ IsShowingOverlayUI' = IsShowingOverlayUI
         /\ context' \in ContextRecords /\ UnstartedOK' /\ QueuesOK'
         /\ context'.states[r].exists /\ Callback(r)'
         /\ context'.states[r].coordinator = stage
         /\ context'.states[r].queue = context.states[r].queue
         /\ \A q \in Requests : q # r => context'.states[q] = context.states[q]
<1>1. /\ context \in ContextRecords /\ context.states[r] \in UIStates
      /\ Callback(r) /\ context.request = r /\ context.states[r].exists
  BY DEF Inv, Types, ContextRecords, ContextOK
<1>2. PICK state \in UIStates : state = [context.states[r] EXCEPT !.coordinator = stage]
  BY <1>1 DEF UIStates
<1>3. /\ state.has_callback = context.states[r].has_callback
      /\ state.exists = context.states[r].exists
      /\ state.queue = context.states[r].queue
      /\ state.coordinator = stage
  BY <1>1, <1>2 DEF UIStates
<1>4. context' = [context EXCEPT !.states = [@ EXCEPT ![r] = state]]
  BY <1>1, <1>2 DEF ContextRecords
<1>5. /\ KeepsKnown /\ IsShowingOverlayUI' = IsShowingOverlayUI
      /\ context' \in ContextRecords /\ context'.states[r] = state
      /\ \A q \in Requests : q # r => context'.states[q] = context.states[q]
      /\ UnstartedOK' /\ QueuesOK'
  BY <1>3, <1>4, UIStateChanges
<1> QED
  BY <1>1, <1>3, <1>5 DEF Callback, KeepsKnown

LEMMA UserDismissesKeeps ==
  ASSUME Inv, NEW r \in Requests, UserDismisses(r)
  PROVE  Inv'
<1>1. /\ calls = << >> /\ UNCHANGED calls
      /\ context.states[r].coordinator = "started"
      /\ context' = [context EXCEPT !.states[r].coordinator = "dismissing"]
      /\ UNCHANGED <<phase, queues, delegate, owner, presenter, container>>
  BY DEF UserDismisses, otherThanContext
<1>2. /\ Callback(r) /\ context.request = r /\ UNCHANGED context.request
      /\ IsShowingOverlayUI' = IsShowingOverlayUI
      /\ context' \in ContextRecords /\ UnstartedOK' /\ QueuesOK'
      /\ context'.states[r].exists /\ Callback(r)'
      /\ context'.states[r].coordinator = "dismissing"
      /\ context'.states[r].queue = context.states[r].queue
      /\ \A q \in Requests : q # r => context'.states[q] = context.states[q]
  BY <1>1, CoordinatorChanges
<1>3. Stack = {} /\ Stack' = {}
  BY <1>1, EmptyStack DEF Stack
<1>4. Types' /\ StackOrdered' /\ CallsOK'
  BY <1>1, <1>2, <1>3 DEF Inv, Types, StackOrdered, CallsOK
<1>5. ContextOK'
  BY <1>2, <1>3 DEF Inv, ContextOK, Callback
<1>6. PresenterOK'
  BY <1>1, <1>2, <1>3, PresenterUntouched DEF Inv
<1> QED
  BY <1>2, <1>4, <1>5, <1>6 DEF Inv

LEMMA DismissalFinishesKeeps ==
  ASSUME Inv, NEW r \in Requests, DismissalFinishes(r)
  PROVE  Inv'
<1>1. /\ context.states[r].coordinator = "dismissing"
      /\ context' = [context EXCEPT !.states[r].coordinator = "stopped"]
      /\ UNCHANGED <<phase, queues, delegate, owner, presenter, container>>
  BY DEF DismissalFinishes, otherThanContext
<1>2. /\ Callback(r) /\ context.request = r /\ UNCHANGED context.request
      /\ IsShowingOverlayUI' = IsShowingOverlayUI
      /\ context' \in ContextRecords /\ UnstartedOK' /\ QueuesOK'
      /\ context'.states[r].exists /\ Callback(r)'
      /\ context'.states[r].coordinator = "stopped"
      /\ context'.states[r].queue = context.states[r].queue
      /\ \A q \in Requests : q # r => context'.states[q] = context.states[q]
  BY <1>1, CoordinatorChanges
<1>3. PICK a : a = OnRequest("OverlayUIDidFinishDismissal", r)
  OBVIOUS
<1>4. a \in CallRecords /\ a.f = "OverlayUIDidFinishDismissal" /\ a.r = r
  <2>1. "OverlayUIDidFinishDismissal" \in Methods
    BY DEF Methods
  <2> QED
    BY <1>3, <2>1, RequestCall
<1>5. <<a>> \in Seq(CallRecords) /\ Ordered(<<a>>) /\ CallsIn(<<a>>) = {a}
  BY <1>4, ShortSequences
<1>6. calls = << >> /\ calls' = <<a>> /\ Stack = {} /\ Stack' = {a}
  BY <1>3, <1>5, EmptyStack DEF DismissalFinishes, Entering, Stack
<1>7. Types' /\ StackOrdered'
  BY <1>1, <1>2, <1>5, <1>6 DEF Inv, Types, StackOrdered, Ordered
<1>8. CallsOK'
  <2>1. UIKnownTo(a)'
    BY <1>2, <1>4, NullAssumption DEF UIKnownTo
  <2>2. CallOK(a)'
    BY <1>4, <2>1, CallParts DEF CallOK
  <2> QED
    BY <1>6, <2>2 DEF CallsOK
<1>9. ContextOK'
  BY <1>2, <1>4, <1>6 DEF Inv, ContextOK, Callback
<1>10. PresenterOK'
  <2>1. \A c : c.f = "ShowOverlayUI" \/ IsDismissal(c) => (c \in Stack <=> c \in Stack')
    BY <1>4, <1>6 DEF IsDismissal
  <2> QED
    BY <1>1, <1>2, <2>1, PresenterUntouched DEF Inv
<1> QED
  BY <1>2, <1>7, <1>8, <1>9, <1>10 DEF Inv

----------------------------------------------------------------------------
(* The invariant.                                                          *)

LEMMA InitIsOK ==
  ASSUME Init
  PROVE  Inv
<1>1. << >> \in Seq(CallRecords) /\ << >> \in Seq(Requests) /\ Len(<< >>) = 0
  OBVIOUS
<1>2. Stack = {} /\ Len(calls) = 0
  BY <1>1, EmptyStack DEF Init
<1>3. /\ phase = [w \in WebStates |-> "new"] /\ queues = [w \in WebStates |-> << >>]
      /\ delegate = [w \in WebStates |-> "none"] /\ owner = [r \in Requests |-> Null]
      /\ calls = << >>
  BY DEF Init
<1>4. /\ presenter \in PresenterRecords
      /\ presenter.has_context /\ ~presenter.presenting /\ ~presenter.queue_replaced_delegate
      /\ presenter.presented_request = Null /\ presenter.active_web_state = Null
  BY DEF Init, PresenterRecords
<1>5. NoUIState \in UIStates
  BY DEF NoUIState, UIStates, DismissalReasons
<1>6. /\ context \in ContextRecords /\ context.request = Null /\ ~context.capable
      /\ ~context.view_controller /\ ~context.has_delegate
      /\ \A r \in Requests : context.states[r] = NoUIState
  BY <1>5 DEF Init, ContextRecords
<1>7. container \in ContainerRecords /\ ~container.pc_presenting
  BY DEF Init, ContainerRecords
<1>8. Types
  BY <1>1, <1>3, <1>4, <1>6, <1>7 DEF Types, Delegates
<1>9. StackOrdered /\ CallsOK
  BY <1>2 DEF StackOrdered, CallsOK
<1>10. UnstartedOK
  BY <1>4, <1>6, <1>7 DEF UnstartedOK
<1>11. QueuesOK
  BY <1>1, <1>3 DEF QueuesOK
<1>12. ContextOK
  BY <1>6 DEF ContextOK, Callback, NoUIState
<1>13. PresenterOK
  BY <1>2, <1>4, <1>6 DEF PresenterOK, IsShowingOverlayUI, HasState
<1> QED
  BY <1>8, <1>9, <1>10, <1>11, <1>12, <1>13 DEF Inv

LEMMA EventsKeepInv ==
  ASSUME Inv, TabEvents \/ RequestEvents \/ UIEvents \/ UIKitCompletions
  PROVE  Inv'
<1>1. CASE TabEvents
  BY <1>1, InsertTabKeeps, ActivateTabKeeps, CloseMovedTabKeeps, DetachTabKeeps,
     ReplaceActiveTabKeeps DEF TabEvents
<1>2. CASE RequestEvents
  BY <1>2, InsertRequestKeeps, CancelRequestKeeps DEF RequestEvents
<1>3. CASE UIEvents
  BY <1>3, UserDismissesKeeps, SetUIDisabledKeeps, SetWindowKeeps, StartOrStopContainerKeeps
     DEF UIEvents
<1>4. CASE UIKitCompletions
  BY <1>4, DismissalFinishesKeeps, PresentationContextPresentedKeeps DEF UIKitCompletions
<1> QED
  BY <1>1, <1>2, <1>3, <1>4

LEMMA CallsKeepInv ==
  ASSUME Inv, Calls
  PROVE  Inv'
<1>1. CASE QueueCalls
  BY <1>1, RemoveRequestKeeps, PopFrontRequestKeeps, DestroyQueueKeeps, SetDelegateKeeps
     DEF QueueCalls
<1>2. CASE ContextCalls
  BY <1>2, HideOverlayUIKeeps, CancelOverlayUIKeeps, ShowOverlayUIKeeps,
     DidFinishDismissalKeeps, UIWasDismissedThenKeeps, PrepareKeeps, SetViewControllerKeeps,
     UpdateCapabilitiesKeeps, UpdateCapabilitiesThenKeeps, SetContextDelegateKeeps,
     StopContainerKeeps, UpdatePresentationContextKeeps, StopPresentationContextKeeps
     DEF ContextCalls
<1>3. CASE PresenterCalls
  BY <1>3, PresentKeeps, OverlayWasDismissedKeeps, OverlayWasDismissedThenKeeps,
     DestroyRequestKeeps, SetPresentationContextKeeps, CancelFrontRequestUIKeeps,
     SetPresentationContextThenKeeps, SetActiveWebStateKeeps, WebStateAddedKeeps,
     WebStateRemovedKeeps, WillDetachKeeps, RequestAddedKeeps, OverlayRequestRemovedKeeps,
     QueueWillReplaceDelegateKeeps, WillChangeKeeps, PresentUnlessPresentingKeeps
     DEF PresenterCalls
<1> QED
  BY <1>1, <1>2, <1>3 DEF Calls

LEMMA StutteringKeepsInv ==
  ASSUME Inv, UNCHANGED vars
  PROVE  Inv'
<1>1. /\ UNCHANGED calls /\ UNCHANGED <<phase, queues, delegate, owner>>
      /\ UNCHANGED <<presenter, context, container>> /\ Stack' = Stack
  BY DEF vars, Stack
<1>2. Types' /\ StackOrdered' /\ UnstartedOK' /\ QueuesOK'
  BY <1>1 DEF Inv, Types, StackOrdered, UnstartedOK, QueuesOK
<1>3. ContextOK' /\ PresenterOK'
  <2>1. IsShowingOverlayUI' = IsShowingOverlayUI
    BY <1>1 DEF IsShowingOverlayUI, HasState
  <2> QED
    BY <1>1, <2>1, ContextStaysOK, PresenterUntouched DEF Inv
<1>4. ASSUME NEW c \in Stack' PROVE CallOK(c)'
  <2>1. CallOK(c) /\ c \in Stack
    BY <1>1 DEF Inv, CallsOK
  <2>2. TabsKnownTo(c)'
    BY <1>1, <2>1 DEF CallOK, TabsKnownTo, Left
  <2>3. QueuesKnownTo(c)'
    BY <1>1, <2>1 DEF CallOK, QueuesKnownTo, PresentedInFront, FrontRequest, Left
  <2>4. ActiveRequest' = ActiveRequest
    BY <1>1 DEF ActiveRequest, FrontRequest
  <2>5. UIKnownTo(c)'
    BY <1>1, <2>1, <2>4
       DEF CallOK, UIKnownTo, IsShowingOverlayUI, HasState, CanShowUI, Callback
  <2>6. DismissalKnownTo(c)' /\ ContainerKnownTo(c)'
    BY <1>1, <2>1 DEF CallOK, DismissalKnownTo, Callback, ContainerKnownTo
  <2>7. PresentationKnownTo(c)'
    BY <1>1, <2>1, <2>4 DEF CallOK, PresentationKnownTo
  <2> QED
    BY <2>2, <2>3, <2>5, <2>6, <2>7 DEF CallOK
<1> QED
  BY <1>2, <1>3, <1>4 DEF Inv, CallsOK

LEMMA InvIsInvariant == Spec => []Inv
<1>1. Init => Inv
  BY InitIsOK
<1>2. Inv /\ [Next]_vars => Inv'
  BY EventsKeepInv, CallsKeepInv, StutteringKeepsInv DEF Next
<1> QED
  BY <1>1, <1>2, PTL DEF Spec

----------------------------------------------------------------------------
(* The theorems.                                                           *)

\* The variables keep their types: whatever calls whatever in whatever order,
\* every call on the stack has a request and a tab of the window as its
\* arguments, or none.
THEOREM OverlayTypes == Spec => []TypeOK
<1>1. ASSUME Inv PROVE TypeOK
  <2>1. Types
    BY <1>1 DEF Inv
  <2>2. \A i \in DOMAIN calls : /\ calls[i].f \in Methods
                                /\ calls[i].r \in Requests \cup {Null}
                                /\ calls[i].w \in WebStates \cup {Null}
    <3> SUFFICES ASSUME NEW i \in DOMAIN calls
                 PROVE  /\ calls[i].f \in Methods
                        /\ calls[i].r \in Requests \cup {Null}
                        /\ calls[i].w \in WebStates \cup {Null}
      OBVIOUS
    <3>1. calls[i] \in CallRecords
      BY <2>1 DEF Types
    <3> QED
      BY <3>1 DEF CallRecords
  <2>3. \A w \in WebStates : \A i \in DOMAIN queues[w] : queues[w][i] \in Requests
    BY <2>1 DEF Types
  <2> QED
    BY <2>1, <2>2, <2>3
       DEF Types, TypeOK, Delegates, PresenterRecords, ContextRecords, ContainerRecords
<1> QED
  BY <1>1, InvIsInvariant, PTL

\* presenting_ of the presenter and the UI of the context agree between calls.
THEOREM PresentingAlwaysAgrees == Spec => []PresentingAgreesWithContext
<1>1. ASSUME Inv PROVE PresentingAgreesWithContext
  BY <1>1, EmptyStack DEF PresentingAgreesWithContext, Quiet, Inv, PresenterOK
<1> QED
  BY <1>1, InvIsInvariant, PTL

\* presented_request_ is set exactly while presenting_ is, but for a queue that
\* has gone to another presenter.
THEOREM PresentedExactlyWhilePresenting == Spec => []PresentedWhilePresenting
<1>1. ASSUME Inv PROVE PresentedWhilePresenting
  BY <1>1 DEF PresentedWhilePresenting, Inv, PresenterOK
<1> QED
  BY <1>1, InvIsInvariant, PTL

\* The DCHECKs of HideOverlayUI and DismissPresentedUI hold: there is UI to
\* hide, whatever dismissal was running when the tab was left, a request was
\* inserted in front or the context lost a capability.
THEOREM HidesOnlyShownUI == Spec => []HidesUIThatIsShown
<1>1. ASSUME Inv, Running("HideOverlayUI") PROVE IsShowingOverlayUI
  BY <1>1, RunningFacts DEF CallOK, UIKnownTo
<1>2. ASSUME Inv PROVE HidesUIThatIsShown
  BY <1>1, <1>2 DEF HidesUIThatIsShown
<1> QED
  BY <1>2, InvIsInvariant, PTL

\* The DCHECK of OverlayWasDismissed holds: the dismissed UI is that of
\* presented_request_.
THEOREM DismissesWhatIsPresented == Spec => []DismissalIsOfPresentedRequest
<1>1. ASSUME Inv, Running("OverlayWasDismissed"), presenter.has_context,
             ~presenter.queue_replaced_delegate
      PROVE  arg.r = presenter.presented_request
  <2>1. /\ arg.f = "OverlayWasDismissed" /\ arg \in Stack /\ arg.r = context.request
        /\ \A c \in Stack : c.f # "ShowOverlayUI"
    BY <1>1, RunningFacts, NothingUnderWay DEF CallOK, DismissalKnownTo, IsDismissal
  <2> QED
    BY <1>1, <2>1 DEF Inv, PresenterOK, IsDismissal
<1>2. ASSUME Inv PROVE DismissalIsOfPresentedRequest
  BY <1>1, <1>2 DEF DismissalIsOfPresentedRequest
<1> QED
  BY <1>2, InvIsInvariant, PTL

\* Between calls request_ has a UI state, no other request waits for the end of
\* a dismissal, and the one that waits has a coordinator that can report it.
THEOREM OnlyCurrentRequestWaits == Spec => []OnlyCurrentRequestAwaitsDismissal
<1>1. ASSUME Inv PROVE OnlyCurrentRequestAwaitsDismissal
  BY <1>1, EmptyStack
     DEF OnlyCurrentRequestAwaitsDismissal, Quiet, Inv, ContextOK, Callback, HasState
<1> QED
  BY <1>1, InvIsInvariant, PTL
=============================================================================
