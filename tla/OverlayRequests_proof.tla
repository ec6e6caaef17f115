----------------------- MODULE OverlayRequests_proof -----------------------
(***************************************************************************)
(* More about OverlayPresenter: its requests and the queues they are in.   *)
(*                                                                         *)
(* The invariant of OverlayPresenter_proof is about the UI.  RequestsInv   *)
(* adds who owns a request and whose delegate the presenter is while calls *)
(* are under way, and which answer of the user may still arrive.           *)
(***************************************************************************)
EXTENDS OverlayPresenter_proof

----------------------------------------------------------------------------
(* The requests and the delegates of their queues.                         *)

\* The presenter is about to become the delegate of w's queue.
IsAdding(c, w) ==
  /\ c.w = w
  /\ \/ c.f = "WebStateAddedToBrowser"
     \/ c.f = "SetDelegate" /\ c.x = "presenter"

\* The active tab is about to change.
Activating == \E c \in Stack : c.f = "SetActiveWebState"

\* Before the active tab changes nothing is dismissed, presented or removed,
\* and a tab is added before it becomes the active one.
MayPrecede(a, c) ==
  /\ c.f = "SetActiveWebState" =>
       \/ a.f \in {"WillDetachWebStateAt", "WebStateRemovedFromBrowser",
                   "WebStateAddedToBrowser", "QueueWillReplaceDelegate",
                   "CancelOverlayUI"}
       \/ a.f = "SetDelegate" /\ a.x # "other"
  /\ c.f = "WebStateAddedToBrowser" => a.f # "SetActiveWebState"
  /\ c.f \notin {"WillDetachWebStateAt", "WebStateRemovedFromBrowser", "RequestAddedToQueue"}

InOrder(s) == \A i, j \in 1..Len(s) : i < j => MayPrecede(s[i], s[j])

\* The queue of w holds r.
Holds(w, r) == \E i \in 1..Len(queues[w]) : queues[w][i] = r
Held(r) == \E w \in WebStates : Holds(w, r)

\* r is being taken out of its queue, or destroyed.
IsRemoval(c, r) == c.f = "OverlayRequestRemoved" /\ c.r = r
IsEnd(c, r) == c.f = "DestroyRequest" /\ c.r = r

\* The end of the dismissal of the UI of r would be the user's answer to r.
Answerable(r) ==
  /\ r # Null /\ context.request = r /\ Callback(r)
  /\ context.states[r].dismissal_reason = "kUserInteraction"

\* r is the active request, or was and has been removed.
InFront(r) ==
  /\ presenter.active_web_state = owner[r]
  /\ FrontRequest(owner[r]) = r \/ presenter.removed_request = r

\* c takes back the UI of r.
TakesBack(c, r) ==
  \/ c.f = "HideOverlayUI"
  \/ c.f = "CancelOverlayUI" /\ c.r = r
  \/ c.f = "OverlayRequestRemoved" /\ c.r = r /\ c.x = "cancelled"
  \/ /\ c.f = "RequestAddedToQueue"
     /\ c.w = presenter.active_web_state /\ c.r = ActiveRequest
     /\ Len(queues[c.w]) > 1 /\ queues[c.w][2] = r

\* What a call on the stack knows of the tabs and of the delegates.
DelegatesKnownTo(c) ==
  /\ c.f \in {"WillDetachWebStateAt", "WebStateRemovedFromBrowser"} =>
       /\ Left(c.w) /\ delegate[c.w] # "other"
       /\ Activating => presenter.active_web_state = c.w
  /\ c.f = "SetDelegate" /\ c.x = "none" =>
       /\ Left(c.w) /\ delegate[c.w] # "other"
       /\ ~Holds(c.w, presenter.presented_request)
  /\ IsAdding(c, c.w) => c.w \in Tabs
  /\ c.f = "CancelOverlayUI" /\ Activating => c.r = Null \/ ~Callback(c.r)

\* What it knows of the request it removes, or whose dismissal it reports.
RequestsKnownTo(c) ==
  /\ c.f \in {"RemoveRequest", "OverlayRequestRemoved"} =>
       /\ c.r # Null /\ c.w # Null /\ owner[c.r] = c.w
       /\ c.x \in {"popped", "cancelled"}
       /\ c.x = "popped" => c.r = presenter.presented_request /\ ~Callback(c.r)
  /\ c.f = "OverlayRequestRemoved" => delegate[c.w] = "presenter"
  /\ c.f = "PopFrontRequest" => PresentedInFront(c.w) /\ ~Callback(FrontRequest(c.w))
  /\ c.f = "ShowOverlayUI" => c.w = presenter.active_web_state
  /\ /\ c.f = "OverlayUIDidFinishDismissal" /\ Answerable(c.r)
     /\ c.r = presenter.presented_request
     => InFront(c.r)
  /\ /\ c.f = "OverlayWasDismissed" /\ c.x = "kUserInteraction"
     /\ c.r = presenter.presented_request
     => InFront(c.r) /\ c.w = owner[c.r]

\* The presenter is the delegate of its tabs, and no other is.
TabsOK ==
  /\ \A w \in Tabs : delegate[w] = "presenter" \/ \E c \in Stack : IsAdding(c, w)
  /\ \A w \in WebStates : delegate[w] = "other" => Left(w)
  /\ presenter.active_web_state # Null =>
       \/ Activating
       \/ /\ phase[presenter.active_web_state] = "tab"
          /\ delegate[presenter.active_web_state] = "presenter"
  /\ presenter.detached_queue # Null =>
       /\ Left(presenter.detached_queue)
       /\ presenter.presented_request # Null =>
            owner[presenter.presented_request] = presenter.detached_queue
       /\ presenter.has_context => presenter.presented_request # Null

\* The queue of r is another presenter's.
Moved(r) == owner[r] \in WebStates /\ delegate[owner[r]] = "other"

\* The presenter knows no request that is gone, unless it went with its tab.
RequestsOK ==
  /\ \A r \in presenter.previously_presented :
       Alive(r) \/ \E c \in Stack : IsRemoval(c, r) \/ IsEnd(c, r)
  /\ presenter.presented_request # Null =>
       \/ Alive(presenter.presented_request)
       \/ \E c \in Stack : IsRemoval(c, presenter.presented_request)
       \/ Moved(presenter.presented_request)
  /\ presenter.removed_request # Null =>
       /\ ~Held(presenter.removed_request) /\ owner[presenter.removed_request] # Null
       /\ presenter.has_context
            => presenter.removed_request = presenter.presented_request
  /\ \A w \in WebStates :
       Holds(w, presenter.presented_request) => delegate[w] # "none"

\* The UI of the presented request is answerable only while the request is the
\* active one.
AnswersOK ==
  \A r \in Requests :
    r = presenter.presented_request /\ Answerable(r) =>
      /\ context.states[r].queue = owner[r]
      /\ InFront(r) \/ \E c \in Stack : TakesBack(c, r)

Knows(c) == DelegatesKnownTo(c) /\ RequestsKnownTo(c)

CallsKnow == \A c \in Stack : Knows(c)

RequestsInv ==
  /\ InOrder(calls)
  /\ CallsKnow
  /\ TabsOK
  /\ RequestsOK
  /\ AnswersOK

----------------------------------------------------------------------------
(* Lemmas about the stack.                                                 *)

LEMMA InOrderConcat ==
  ASSUME NEW S, NEW s \in Seq(S), NEW t \in Seq(S)
  PROVE  /\ s \o t \in Seq(S)
         /\ CallsIn(s \o t) = CallsIn(s) \cup CallsIn(t)
         /\ /\ InOrder(s) /\ InOrder(t)
            /\ \A a \in CallsIn(s), c \in CallsIn(t) : MayPrecede(a, c)
            => InOrder(s \o t)
<1>1. /\ s \o t \in Seq(S) /\ Len(s \o t) = Len(s) + Len(t)
      /\ \A i \in 1..Len(s) : (s \o t)[i] = s[i]
      /\ \A i \in 1..Len(t) : (s \o t)[Len(s) + i] = t[i]
      /\ \A i \in 1..(Len(s) + Len(t)) :
           i <= Len(s) \/ (i - Len(s) \in 1..Len(t) /\ (s \o t)[i] = t[i - Len(s)])
  BY ConcatProperties
<1> DEFINE u == s \o t
<1> HIDE DEF u
<1>2. /\ Len(u) = Len(s) + Len(t)
      /\ \A i \in 1..Len(s) : u[i] = s[i]
      /\ \A i \in 1..Len(t) : u[Len(s) + i] = t[i]
      /\ \A i \in 1..(Len(s) + Len(t)) :
           i <= Len(s) \/ (i - Len(s) \in 1..Len(t) /\ u[i] = t[i - Len(s)])
  BY <1>1 DEF u
<1>3. CallsIn(u) = CallsIn(s) \cup CallsIn(t)
  <2>1. \A i \in 1..Len(s) : i \in 1..Len(u) /\ u[i] = s[i]
    BY <1>2
  <2>2. \A i \in 1..Len(t) : Len(s) + i \in 1..Len(u) /\ u[Len(s) + i] = t[i]
    BY <1>2
  <2>3. \A i \in 1..Len(u) : \/ i \in 1..Len(s) /\ u[i] = s[i]
                             \/ i - Len(s) \in 1..Len(t) /\ u[i] = t[i - Len(s)]
    BY <1>2
  <2>4. ASSUME NEW c PROVE c \in CallsIn(u) => c \in CallsIn(s) \cup CallsIn(t)
    BY <2>3 DEF CallsIn
  <2>5. ASSUME NEW c PROVE c \in CallsIn(s) \cup CallsIn(t) => c \in CallsIn(u)
    BY <2>1, <2>2 DEF CallsIn
  <2> QED
    BY <2>4, <2>5
<1>4. ASSUME InOrder(s), InOrder(t),
             \A a \in CallsIn(s), c \in CallsIn(t) : MayPrecede(a, c),
             NEW i \in 1..Len(u), NEW j \in 1..Len(u), i < j
      PROVE  MayPrecede(u[i], u[j])
  <2>1. CASE j <= Len(s)
    BY <1>2, <1>4, <2>1 DEF InOrder
  <2>2. CASE i <= Len(s) /\ j > Len(s)
    BY <1>2, <1>4, <2>2 DEF CallsIn
  <2>3. CASE i > Len(s)
    <3>1. /\ i - Len(s) \in 1..Len(t) /\ j - Len(s) \in 1..Len(t)
          /\ i - Len(s) < j - Len(s)
          /\ u[i] = t[i - Len(s)] /\ u[j] = t[j - Len(s)]
      BY <1>2, <1>4, <2>3
    <3> QED
      BY <1>4, <3>1 DEF InOrder
  <2> QED
    BY <2>1, <2>2, <2>3, LenProperties
<1> QED
  BY <1>1, <1>3, <1>4 DEF InOrder, u

\* The calls that wait, when a method runs.
LEMMA RunningKnows ==
  ASSUME Inv, RequestsInv, calls # << >>
  PROVE  /\ Stack = {arg} \cup Waiting /\ Knows(arg)
         /\ \A c \in Waiting : MayPrecede(arg, c) /\ Knows(c)
<1>1. Len(calls) \in Nat /\ Len(calls) > 0
  BY EmptySeq DEF Inv, Types
<1>2. Stack = {arg} \cup Waiting
  BY WaitingFacts DEF Inv
<1> QED
  BY <1>1, <1>2 DEF RequestsInv, CallsKnow, InOrder, Waiting, arg

\* The stack after the method that runs has made the calls in made.
LEMMA InOrderPushed ==
  ASSUME Inv, RequestsInv, calls # << >>,
         NEW S, NEW made \in Seq(S), Making(made), InOrder(made),
         \A a \in CallsIn(made), c \in Waiting : MayPrecede(a, c)
  PROVE  Stack' = CallsIn(made) \cup Waiting /\ InOrder(calls)'
<1>1. /\ Len(calls) \in Nat /\ Len(calls) > 0 /\ calls \in Seq(CallRecords)
      /\ Tail(calls) \in Seq(CallRecords) /\ Len(Tail(calls)) = Len(calls) - 1
      /\ \A i \in 1..(Len(calls) - 1) : Tail(calls)[i] = calls[i + 1]
  BY EmptySeq, HeadTailProperties DEF Inv, Types
<1> DEFINE rest == Tail(calls)
<1>2. CallsIn(rest) = Waiting
  <2>1. \A i \in 1..Len(rest) : i + 1 \in 2..Len(calls) /\ rest[i] = calls[i + 1]
    BY <1>1
  <2>2. \A i \in 2..Len(calls) : i - 1 \in 1..Len(rest) /\ rest[i - 1] = calls[i]
    BY <1>1
  <2> HIDE DEF rest
  <2>3. ASSUME NEW c PROVE c \in CallsIn(rest) => c \in Waiting
    BY <2>1 DEF CallsIn, Waiting
  <2>4. ASSUME NEW c PROVE c \in Waiting => c \in CallsIn(rest)
    BY <2>2 DEF CallsIn, Waiting
  <2> QED
    BY <2>3, <2>4
<1>3. InOrder(rest)
  BY <1>1 DEF RequestsInv, InOrder
<1>4. calls' = made \o rest
  BY DEF Making
<1> DEFINE T == S \cup CallRecords
<1>5. rest \in Seq(T) /\ made \in Seq(T)
  BY <1>1, SeqMonotonic
<1> HIDE DEF rest, T
<1>6. Stack' = CallsIn(made) \cup Waiting
  BY <1>2, <1>4, <1>5, InOrderConcat DEF Stack
<1>7. InOrder(calls')
  BY <1>2, <1>3, <1>4, <1>5, InOrderConcat
<1> QED
  BY <1>6, <1>7 DEF InOrder

LEMMA PerhapsOne ==
  ASSUME NEW S, NEW test \in BOOLEAN, NEW a \in S
  PROVE  /\ When(test, a) \in Seq(S) /\ CallsIn(When(test, a)) = {c \in {a} : test}
         /\ InOrder(When(test, a))
<1>1. << >> \in Seq(S) /\ Len(<< >>) = 0
  OBVIOUS
<1>2. <<a>> \in Seq(S) /\ Len(<<a>>) = 1 /\ <<a>>[1] = a
  OBVIOUS
<1>3. CASE test
  <2>1. When(test, a) = <<a>>
    BY <1>3 DEF When
  <2>2. CallsIn(<<a>>) = {a} /\ InOrder(<<a>>)
    BY <1>2 DEF CallsIn, InOrder
  <2> QED
    BY <1>2, <1>3, <2>1, <2>2
<1>4. CASE ~test
  <2>1. When(test, a) = << >>
    BY <1>4 DEF When
  <2>2. CallsIn(<< >>) = {} /\ InOrder(<< >>)
    BY <1>1 DEF CallsIn, InOrder
  <2> QED
    BY <1>1, <1>4, <2>1, <2>2
<1> QED
  BY <1>3, <1>4

LEMMA PerhapsTwo ==
  ASSUME NEW S, NEW test \in BOOLEAN, NEW a \in S, NEW also \in BOOLEAN, NEW b \in S,
         test /\ also => MayPrecede(a, b)
  PROVE  /\ When(test, a) \o When(also, b) \in Seq(S)
         /\ CallsIn(When(test, a) \o When(also, b))
              = {c \in {a} : test} \cup {c \in {b} : also}
         /\ InOrder(When(test, a) \o When(also, b))
<1> DEFINE s == When(test, a)
           t == When(also, b)
<1>1. /\ s \in Seq(S) /\ CallsIn(s) = {c \in {a} : test} /\ InOrder(s)
      /\ t \in Seq(S) /\ CallsIn(t) = {c \in {b} : also} /\ InOrder(t)
  BY PerhapsOne
<1> HIDE DEF s, t
<1>2. /\ s \o t \in Seq(S) /\ CallsIn(s \o t) = CallsIn(s) \cup CallsIn(t)
      /\ InOrder(s \o t)
  BY <1>1, InOrderConcat
<1> QED
  BY <1>1, <1>2 DEF s, t

\* The same, whatever the calls are.
LEMMA TwoInOrder ==
  ASSUME NEW test \in BOOLEAN, NEW a, NEW also \in BOOLEAN, NEW b,
         test /\ also => MayPrecede(a, b)
  PROVE  /\ CallsIn(When(test, a) \o When(also, b))
              = {c \in {a} : test} \cup {c \in {b} : also}
         /\ InOrder(When(test, a) \o When(also, b))
<1> DEFINE S == {a, b}
<1>1. a \in S /\ b \in S
  OBVIOUS
<1> HIDE DEF S
<1>2. /\ When(test, a) \o When(also, b) \in Seq(S)
      /\ CallsIn(When(test, a) \o When(also, b))
           = {c \in {a} : test} \cup {c \in {b} : also}
      /\ InOrder(When(test, a) \o When(also, b))
  BY <1>1, PerhapsTwo
<1> QED
  BY <1>2

\* The stack when the method that runs makes a call, or two, or three, or none.
LEMMA MakesOne ==
  ASSUME Inv, RequestsInv, calls # << >>,
         NEW test \in BOOLEAN, NEW a, Making(When(test, a)),
         test => \A c \in Waiting : MayPrecede(a, c)
  PROVE  Stack' = {c \in {a} : test} \cup Waiting /\ InOrder(calls)'
<1> DEFINE made == When(test, a)
           S == {a}
<1>1. made \in Seq(S) /\ CallsIn(made) = {c \in {a} : test} /\ InOrder(made)
  BY PerhapsOne
<1>2. Making(made)
  OBVIOUS
<1> HIDE DEF made, S
<1> QED
  BY <1>1, <1>2, InOrderPushed

LEMMA MakesTwo ==
  ASSUME Inv, RequestsInv, calls # << >>,
         NEW test \in BOOLEAN, NEW a, NEW also \in BOOLEAN, NEW b,
         Making(When(test, a) \o When(also, b)),
         test => \A c \in Waiting : MayPrecede(a, c),
         also => \A c \in Waiting : MayPrecede(b, c),
         test /\ also => MayPrecede(a, b)
  PROVE  /\ Stack' = {c \in {a} : test} \cup {c \in {b} : also} \cup Waiting
         /\ InOrder(calls)'
<1> DEFINE made == When(test, a) \o When(also, b)
           S == {a, b}
<1>1. /\ made \in Seq(S) /\ InOrder(made)
      /\ CallsIn(made) = {c \in {a} : test} \cup {c \in {b} : also}
  <2>1. a \in S /\ b \in S
    OBVIOUS
  <2> HIDE DEF S
  <2> QED
    BY <2>1, PerhapsTwo
<1>2. Making(made)
  OBVIOUS
<1> HIDE DEF made, S
<1> QED
  BY <1>1, <1>2, InOrderPushed

LEMMA MakesThree ==
  ASSUME Inv, RequestsInv, calls # << >>,
         NEW test \in BOOLEAN, NEW a, NEW also \in BOOLEAN, NEW b, NEW last \in BOOLEAN, NEW d,
         Making(When(test, a) \o When(also, b) \o When(last, d)),
         \A c \in Waiting : MayPrecede(a, c) /\ MayPrecede(b, c) /\ MayPrecede(d, c),
         MayPrecede(a, b), MayPrecede(a, d), MayPrecede(b, d)
  PROVE  /\ Stack' = {c \in {a} : test} \cup {c \in {b} : also} \cup {c \in {d} : last}
                       \cup Waiting
         /\ InOrder(calls)'
<1> DEFINE s == When(test, a) \o When(also, b)
           t == When(last, d)
           made == s \o t
           S == {a, b, d}
<1>1. /\ s \in Seq(S) /\ InOrder(s)
      /\ CallsIn(s) = {c \in {a} : test} \cup {c \in {b} : also}
      /\ t \in Seq(S) /\ InOrder(t) /\ CallsIn(t) = {c \in {d} : last}
  BY PerhapsOne, PerhapsTwo
<1>2. Making(made)
  OBVIOUS
<1> HIDE DEF s, t, S
<1>3. made \in Seq(S) /\ InOrder(made) /\ CallsIn(made) = CallsIn(s) \cup CallsIn(t)
  BY <1>1, InOrderConcat
<1> HIDE DEF made
<1> QED
  BY <1>1, <1>2, <1>3, InOrderPushed

LEMMA MakesPair ==
  ASSUME Inv, RequestsInv, calls # << >>, NEW a, NEW b, Making(<<a, b>>),
         \A c \in Waiting : MayPrecede(a, c) /\ MayPrecede(b, c),
         MayPrecede(a, b)
  PROVE  Stack' = {a, b} \cup Waiting /\ InOrder(calls)'
<1> DEFINE made == <<a, b>>
           S == {a, b}
<1>1. made \in Seq(S) /\ Len(made) = 2 /\ made[1] = a /\ made[2] = b
  OBVIOUS
<1>2. Making(made)
  OBVIOUS
<1> HIDE DEF made, S
<1>3. CallsIn(made) = {a, b} /\ InOrder(made)
  BY <1>1 DEF CallsIn, InOrder
<1> QED
  BY <1>1, <1>2, <1>3, InOrderPushed

LEMMA MakesNone ==
  ASSUME Inv, RequestsInv, calls # << >>, Returning
  PROVE  Stack' = Waiting /\ InOrder(calls)'
<1> DEFINE made == << >>
           S == {}
<1>1. made \in Seq(S) /\ Len(made) = 0
  OBVIOUS
<1>2. Making(made)
  BY DEF Returning
<1> HIDE DEF made, S
<1>3. CallsIn(made) = {} /\ InOrder(made)
  BY <1>1 DEF CallsIn, InOrder
<1> QED
  BY <1>1, <1>2, <1>3, InOrderPushed

----------------------------------------------------------------------------
(* What a step leaves alone.                                               *)

Adding(w) == \E c \in Stack : IsAdding(c, w)

\* The fields of the presenter that the invariant speaks of.
KeepsPresented ==
  /\ UNCHANGED presenter.has_context
  /\ UNCHANGED presenter.presented_request
  /\ UNCHANGED presenter.removed_request
  /\ presenter'.previously_presented \subseteq presenter.previously_presented

KeepsPresenter ==
  /\ KeepsPresented
  /\ UNCHANGED presenter.active_web_state
  /\ UNCHANGED presenter.detached_queue

\* No UI becomes one whose dismissal would be an answer.
KeepsAnswers ==
  \A r \in Requests : Answerable(r)' => Answerable(r) /\ UNCHANGED context.states[r].queue

LEMMA TabsStayOK ==
  ASSUME TabsOK, UNCHANGED <<phase, delegate, owner>>, KeepsPresenter,
         \A w \in WebStates : Adding(w) => Adding(w)',
         Activating => Activating'
  PROVE  TabsOK'
<1>1. Tabs' = Tabs
  BY DEF Tabs
<1>2. \A w \in Tabs' : delegate'[w] = "presenter" \/ (\E c \in Stack : IsAdding(c, w))'
  BY <1>1 DEF TabsOK, Adding, Tabs
<1>3. \A w : Left(w)' = Left(w)
  BY DEF Left
<1> QED
  BY <1>2, <1>3 DEF TabsOK, KeepsPresenter, KeepsPresented

LEMMA HoldersHold ==
  \A r : Holders(r) # {} <=> Held(r)
  BY DEF Holders, Held, Holds

LEMMA SameHolds ==
  ASSUME UNCHANGED queues
  PROVE  \A r : /\ Held(r)' = Held(r)
                /\ \A w : Holds(w, r)' = Holds(w, r)
                /\ Holders(r)' = Holders(r)
  BY DEF Held, Holds, Holders

LEMMA RequestsStayOK ==
  ASSUME RequestsOK, UNCHANGED <<queues, owner>>, KeepsPresented,
         \A w \in WebStates : delegate'[w] = "none" => delegate[w] = "none",
         \A w \in WebStates : delegate[w] = "other" => delegate'[w] = "other",
         \A c \in Stack : c.f = "OverlayRequestRemoved" => c \in Stack',
         \A c \in Stack : c.f = "DestroyRequest"
                            => c \in Stack' \/ c.r \notin presenter'.previously_presented
  PROVE  RequestsOK'
<1>1. \A r : Alive(r)' = Alive(r)
  BY SameHolds DEF Alive, KeepsPresented
<1>2. \A r, c : IsRemoval(c, r)' = IsRemoval(c, r) /\ IsEnd(c, r)' = IsEnd(c, r)
  BY DEF IsRemoval, IsEnd
<1>3. \A r \in presenter'.previously_presented :
        Alive(r)' \/ (\E c \in Stack : IsRemoval(c, r) \/ IsEnd(c, r))'
  BY <1>1 DEF RequestsOK, KeepsPresented, IsRemoval, IsEnd
<1>4. presenter'.presented_request # Null =>
        \/ Alive(presenter.presented_request)'
        \/ (\E c \in Stack : IsRemoval(c, presenter.presented_request))'
        \/ Moved(presenter.presented_request)'
  BY <1>1 DEF RequestsOK, KeepsPresented, IsRemoval, Moved
<1>5. presenter'.removed_request # Null =>
        /\ ~Held(presenter.removed_request)' /\ owner'[presenter'.removed_request] # Null
        /\ presenter'.has_context
             => presenter'.removed_request = presenter'.presented_request
  BY SameHolds DEF RequestsOK, KeepsPresented
<1>6. \A w \in WebStates :
        Holds(w, presenter.presented_request)' => delegate'[w] # "none"
  BY SameHolds DEF RequestsOK, KeepsPresented
<1> QED
  BY <1>3, <1>4, <1>5, <1>6 DEF RequestsOK

LEMMA SameFront ==
  ASSUME UNCHANGED queues, UNCHANGED presenter.active_web_state
  PROVE  /\ \A w : FrontRequest(w)' = FrontRequest(w)
         /\ ActiveRequest' = ActiveRequest
  BY DEF FrontRequest, ActiveRequest

LEMMA AnswersStayOK ==
  ASSUME AnswersOK, UNCHANGED <<queues, owner>>, KeepsPresented, UNCHANGED presenter.active_web_state,
         KeepsAnswers,
         \A c \in Stack : c.f \in {"HideOverlayUI", "CancelOverlayUI",
                                   "OverlayRequestRemoved", "RequestAddedToQueue"}
                            => c \in Stack'
  PROVE  AnswersOK'
<1> SUFFICES ASSUME NEW r \in Requests, r = presenter'.presented_request, Answerable(r)'
             PROVE  /\ context'.states[r].queue = owner'[r]
                    /\ InFront(r)' \/ (\E c \in Stack : TakesBack(c, r))'
  BY DEF AnswersOK
<1>1. /\ Answerable(r) /\ context'.states[r].queue = context.states[r].queue
      /\ r = presenter.presented_request
  BY DEF KeepsAnswers, KeepsPresented
<1>2. /\ context.states[r].queue = owner[r]
      /\ InFront(r) \/ \E c \in Stack : TakesBack(c, r)
  BY <1>1 DEF AnswersOK
<1>3. InFront(r)' = InFront(r)
  BY SameFront DEF InFront, KeepsPresented
<1>4. \A c : TakesBack(c, r)' = TakesBack(c, r)
  BY SameFront DEF TakesBack, KeepsPresented
<1>5. \A c \in Stack : TakesBack(c, r) => c \in Stack'
  BY DEF TakesBack
<1> QED
  BY <1>1, <1>2, <1>3, <1>4, <1>5

\* What the calls that wait know is not about the requests.
LEMMA WaitingKnows ==
  ASSUME Inv, RequestsInv, calls # << >>,
         \A w \in WebStates : phase[w] = "tab" => phase'[w] = "tab",
         ~Activating' \/ \A r \in Requests : Callback(r)' => Callback(r),
         \A a \in Stack' : a.f = "SetActiveWebState" => a \in Stack,
         NEW c \in Waiting
  PROVE  Knows(c)'
<1>1. /\ c \in Stack /\ c \in CallRecords /\ CallOK(c) /\ Knows(c)
      /\ MayRunBefore(arg, c) /\ MayPrecede(arg, c)
  BY RunningKnows, WaitingFacts DEF Inv, CallsOK
<1>2. /\ c.f \notin Immediate /\ (c.f = "SetDelegate" => c.x = "other")
      /\ c.f \notin {"WillDetachWebStateAt", "WebStateRemovedFromBrowser"}
  BY <1>1 DEF MayRunBefore, MayPrecede
<1>3. RequestsKnownTo(c)'
  BY <1>2 DEF RequestsKnownTo, Immediate
<1>5. c.r = Null \/ c.r \in Requests
  BY <1>1 DEF CallRecords
<1>6. Activating' => Activating
  BY DEF Activating
<1>7. IsAdding(c, c.w)' => c.w \in Tabs'
  BY <1>1 DEF Knows, DelegatesKnownTo, IsAdding, Tabs
<1>9. c.f = "CancelOverlayUI" /\ Activating' => c.r = Null \/ ~Callback(c.r)'
  BY <1>1, <1>5, <1>6 DEF Knows, DelegatesKnownTo
<1>10. DelegatesKnownTo(c)'
  BY <1>2, <1>7, <1>9 DEF DelegatesKnownTo
<1> QED
  BY <1>3, <1>10 DEF Knows

\* The methods that may run before the active tab changes.
Preceders ==
  {"WillDetachWebStateAt", "WebStateRemovedFromBrowser", "WebStateAddedToBrowser",
   "QueueWillReplaceDelegate", "CancelOverlayUI", "SetDelegate"}

LEMMA NotActivating ==
  ASSUME Inv, RequestsInv, calls # << >>, arg.f \notin Preceders
  PROVE  \A c \in Waiting : /\ c.f # "SetActiveWebState"
                            /\ \A a : a.f # "SetActiveWebState" => MayPrecede(a, c)
  BY RunningKnows DEF MayPrecede, Preceders

\* Calls whose being on the stack another part of the state relies on.
Relied ==
  {"WebStateAddedToBrowser", "SetDelegate", "SetActiveWebState", "HideOverlayUI",
   "CancelOverlayUI", "OverlayRequestRemoved", "DestroyRequest", "RequestAddedToQueue"}

\* Calls that have to know something of the state.
Demanding ==
  {"SetActiveWebState", "WillDetachWebStateAt", "WebStateRemovedFromBrowser",
   "WebStateAddedToBrowser", "SetDelegate",
   "RemoveRequest", "OverlayRequestRemoved", "PopFrontRequest", "ShowOverlayUI",
   "OverlayUIDidFinishDismissal", "OverlayWasDismissed"}

LEMMA UndemandingKnows ==
  ASSUME NEW a, a.f \notin Demanding, ~Activating' \/ a.f # "CancelOverlayUI"
  PROVE  Knows(a)'
<1>1. RequestsKnownTo(a)'
  BY DEF RequestsKnownTo, Demanding
<1>2. DelegatesKnownTo(a)'
  BY DEF DelegatesKnownTo, IsAdding, Demanding
<1> QED
  BY <1>1, <1>2 DEF Knows

\* A step that changes nothing the invariant speaks of but the stack.
KeepsRequests ==
  /\ UNCHANGED <<phase, queues, delegate, owner>>
  /\ KeepsPresenter
  /\ KeepsAnswers
  /\ \A r \in Requests : Callback(r)' => Callback(r)

\* The state parts of the invariant hold after such a step, whatever calls are
\* made, if nothing relies on the call that returns.
LEMMA StateStaysOK ==
  ASSUME RequestsInv, KeepsRequests,
         \A c \in Stack : c.f \in Relied => c \in Stack'
  PROVE  TabsOK' /\ RequestsOK' /\ AnswersOK'
<1>1. TabsOK'
  <2>1. \A w \in WebStates : Adding(w) => Adding(w)'
    BY DEF Adding, IsAdding, Relied
  <2>2. Activating => Activating'
    BY DEF Activating, Relied
  <2> QED
    BY <2>1, <2>2, TabsStayOK DEF RequestsInv, KeepsRequests
<1>2. RequestsOK'
  BY RequestsStayOK DEF RequestsInv, KeepsRequests, KeepsPresenter, Relied
<1>3. AnswersOK'
  BY AnswersStayOK DEF RequestsInv, KeepsRequests, KeepsPresenter, Relied
<1> QED
  BY <1>1, <1>2, <1>3

LEMMA Undisturbed ==
  ASSUME Inv, RequestsInv, calls # << >>, KeepsRequests,
         arg.f \notin Preceders \cup Relied,
         NEW S, NEW made \in Seq(S), Making(made), InOrder(made),
         \A a \in CallsIn(made) : a.f \in Demanding => a.f # "SetActiveWebState" /\ Knows(a)'
  PROVE  RequestsInv'
<1>1. /\ Stack = {arg} \cup Waiting
      /\ \A c \in Waiting : /\ c.f # "SetActiveWebState"
                            /\ \A a : a.f # "SetActiveWebState" => MayPrecede(a, c)
  BY RunningKnows, NotActivating
<1>2. \A a \in CallsIn(made) : a.f # "SetActiveWebState"
  BY DEF Demanding
<1>3. Stack' = CallsIn(made) \cup Waiting /\ InOrder(calls)'
  BY <1>1, <1>2, InOrderPushed
<1>4. ~Activating'
  BY <1>1, <1>2, <1>3 DEF Activating
<1>5. ASSUME NEW c \in Stack' PROVE Knows(c)'
  <2>1. CASE c \in CallsIn(made)
    BY <1>4, <2>1, UndemandingKnows
  <2>2. CASE c \in Waiting
    <3>1. \A a \in Stack' : a.f = "SetActiveWebState" => a \in Stack
      BY <1>1, <1>2, <1>3
    <3> QED
      BY <2>2, <3>1, WaitingKnows DEF KeepsRequests
  <2> QED
    BY <1>3, <2>1, <2>2
<1>6. \A c \in Stack : c.f \in Relied => c \in Stack'
  BY <1>1, <1>3
<1> QED
  BY <1>3, <1>5, <1>6, StateStaysOK DEF RequestsInv, CallsKnow

LEMMA UndisturbedByOne ==
  ASSUME Inv, RequestsInv, calls # << >>, KeepsRequests,
         arg.f \notin Preceders \cup Relied,
         NEW test \in BOOLEAN, NEW a, Making(When(test, a)),
         test /\ a.f \in Demanding => a.f # "SetActiveWebState" /\ Knows(a)'
  PROVE  RequestsInv'
<1> DEFINE made == When(test, a)
           S == {a}
<1>1. made \in Seq(S) /\ CallsIn(made) = {c \in {a} : test} /\ InOrder(made)
  BY PerhapsOne
<1>2. Making(made)
  OBVIOUS
<1> HIDE DEF made, S
<1> QED
  BY <1>1, <1>2, Undisturbed

LEMMA UndisturbedByTwo ==
  ASSUME Inv, RequestsInv, calls # << >>, KeepsRequests,
         arg.f \notin Preceders \cup Relied,
         NEW test \in BOOLEAN, NEW a, NEW also \in BOOLEAN, NEW b,
         Making(When(test, a) \o When(also, b)), MayPrecede(a, b),
         test /\ a.f \in Demanding => a.f # "SetActiveWebState" /\ Knows(a)',
         b.f \notin Demanding
  PROVE  RequestsInv'
<1> DEFINE made == When(test, a) \o When(also, b)
           S == {a, b}
<1>1. /\ made \in Seq(S) /\ InOrder(made)
      /\ CallsIn(made) = {c \in {a} : test} \cup {c \in {b} : also}
  <2>1. a \in S /\ b \in S
    OBVIOUS
  <2> HIDE DEF S
  <2> QED
    BY <2>1, PerhapsTwo
<1>2. Making(made)
  OBVIOUS
<1> HIDE DEF made, S
<1> QED
  BY <1>1, <1>2, Undisturbed

LEMMA UndisturbedByNone ==
  ASSUME Inv, RequestsInv, calls # << >>, KeepsRequests,
         arg.f \notin Preceders \cup Relied, Returning
  PROVE  RequestsInv'
<1>1. PICK test \in BOOLEAN : ~test
  OBVIOUS
<1>2. Making(When(test, arg))
  BY <1>1 DEF Returning, When
<1> QED
  BY <1>1, <1>2, UndisturbedByOne

\* Nothing but the capabilities of the context and the container changes.
LEMMA RequestsUntouched ==
  ASSUME UNCHANGED <<phase, queues, delegate, owner, presenter>>,
         UNCHANGED context.request, UNCHANGED context.states
  PROVE  KeepsRequests
  BY DEF KeepsRequests, KeepsPresenter, KeepsPresented, KeepsAnswers, Answerable, Callback

----------------------------------------------------------------------------
(* The methods that change neither the requests nor the delegates.         *)

\* The parts of a call.
LEMMA PartsOfCalls ==
  /\ \A f, r, w, x : /\ Call(f, r, w, x).f = f /\ Call(f, r, w, x).r = r
                     /\ Call(f, r, w, x).w = w /\ Call(f, r, w, x).x = x
  /\ \A f : Do(f).f = f
  /\ \A f, r : OnRequest(f, r).f = f /\ OnRequest(f, r).r = r
  /\ \A f, w : OnWebState(f, w).f = f /\ OnWebState(f, w).w = w
  /\ \A f, x : With(f, x).f = f /\ With(f, x).x = x
  BY DEF Call, Do, OnRequest, OnWebState, With

\* A call to one of these methods.
ContextMethods ==
  {"PrepareToShowOverlayUI", "SetViewController", "UpdatePresentationCapabilities",
   "UpdatePresentationCapabilitiesThen", "SetContextDelegateThen", "StopContainerThen",
   "updatePresentationContext", "StopPresentationContextThen", "SetPresentationContext",
   "SetPresentationContextThen", "CancelFrontRequestUI",
   "WillChangePresentationCapabilities", "DidChangePresentationCapabilities",
   "OverlayPresentationContextDidEnableUI", "DidMoveToWindow",
   "PresentOverlayForActiveRequest", "OverlayUIWasDismissedThen", "OverlayWasDismissedThen",
   "OverlayWasDismissed", "PopFrontRequest"}

LEMMA ContextMethodRuns ==
  ASSUME NEW f \in ContextMethods, Running(f)
  PROVE  calls # << >> /\ arg.f = f /\ arg.f \notin Preceders \cup Relied
  BY DEF Running, arg, ContextMethods, Preceders, Relied

\* The calls these methods make, but for those that dismissals make.
Undemanding ==
  {"PrepareToShowOverlayUI", "SetViewController", "UpdatePresentationCapabilities",
   "UpdatePresentationCapabilitiesThen", "SetContextDelegateThen", "StopContainerThen",
   "updatePresentationContext", "StopPresentationContextThen", "SetPresentationContext",
   "SetPresentationContextThen", "CancelFrontRequestUI", "DestroyRequest",
   "WillChangePresentationCapabilities", "DidChangePresentationCapabilities",
   "OverlayPresentationContextDidEnableUI", "DidMoveToWindow", "HideOverlayUI",
   "CancelOverlayUI", "PresentOverlayForActiveRequest", "OverlayUIWasDismissedThen",
   "OverlayWasDismissedThen", "QueueWillReplaceDelegate"}

LEMMA UndemandingCalls ==
  /\ \A f \in Undemanding : f \notin Demanding
  /\ \A a, b : b.f \in Undemanding => MayPrecede(a, b)
  BY DEF Undemanding, Demanding, MayPrecede

LEMMA PrepareSafe ==
  ASSUME Inv, RequestsInv, PrepareToShowOverlayUI
  PROVE  RequestsInv'
<1>1. KeepsRequests /\ Running("PrepareToShowOverlayUI")
  BY RequestsUntouched DEF PrepareToShowOverlayUI, otherThanContext
<1>2. PICK a : a = With("updatePresentationContext", "required")
  OBVIOUS
<1>3. PICK test \in BOOLEAN : test <=> context.has_delegate
  OBVIOUS
<1>4. Making(When(test, a))
  BY <1>2, <1>3 DEF PrepareToShowOverlayUI, When
<1>5. a.f \in Undemanding
  BY <1>2, PartsOfCalls DEF Undemanding
<1>6. calls # << >> /\ arg.f \notin Preceders \cup Relied
  BY <1>1, ContextMethodRuns DEF ContextMethods
<1> QED
  BY <1>1, <1>4, <1>5, <1>6, UndemandingCalls, UndisturbedByOne

LEMMA SetViewControllerSafe ==
  ASSUME Inv, RequestsInv, SetViewController
  PROVE  RequestsInv'
<1>1. KeepsRequests /\ Running("SetViewController")
  <2>1. UNCHANGED context.request /\ UNCHANGED context.states
    BY DEF SetViewController, Inv, Types, ContextRecords
  <2> QED
    BY <2>1, RequestsUntouched DEF SetViewController, otherThanContext
<1>2. PICK a : a = Do("UpdatePresentationCapabilities")
  OBVIOUS
<1>3. PICK test \in BOOLEAN : test <=> context.view_controller # argFlag
  OBVIOUS
<1>4. Making(When(test, a))
  BY <1>2, <1>3 DEF SetViewController, When
<1>5. a.f \in Undemanding
  BY <1>2, PartsOfCalls DEF Undemanding
<1>6. calls # << >> /\ arg.f \notin Preceders \cup Relied
  BY <1>1, ContextMethodRuns DEF ContextMethods
<1> QED
  BY <1>1, <1>4, <1>5, <1>6, UndemandingCalls, UndisturbedByOne

LEMMA UpdateCapabilitiesSafe ==
  ASSUME Inv, RequestsInv, UpdatePresentationCapabilities
  PROVE  RequestsInv'
<1>1. KeepsRequests /\ Running("UpdatePresentationCapabilities")
  BY RequestsUntouched DEF UpdatePresentationCapabilities, otherThanContext
<1>2. calls # << >> /\ arg.f \notin Preceders \cup Relied
  BY <1>1, ContextMethodRuns DEF ContextMethods
<1>3. PICK capabilities : capabilities = (context.view_controller /\ ~context.ui_disabled)
  OBVIOUS
<1>4. CASE capabilities = context.capable
  BY <1>1, <1>2, <1>3, <1>4, UndisturbedByNone DEF UpdatePresentationCapabilities, Returning
<1>5. CASE capabilities # context.capable
  <2>1. PICK a : a = With("WillChangePresentationCapabilities", Flag(capabilities))
    OBVIOUS
  <2>2. PICK b : b = With("UpdatePresentationCapabilitiesThen", Flag(capabilities))
    OBVIOUS
  <2>3. PICK test \in BOOLEAN : test <=> presenter.has_context
    OBVIOUS
  <2>4. PICK also \in BOOLEAN : also
    OBVIOUS
  <2>5. Making(When(test, a) \o When(also, b))
    BY <1>3, <1>5, <2>1, <2>2, <2>3, <2>4 DEF UpdatePresentationCapabilities, When
  <2>6. a.f \in Undemanding /\ b.f \in Undemanding
    BY <2>1, <2>2, PartsOfCalls DEF Undemanding
  <2> QED
    BY <1>1, <1>2, <2>5, <2>6, UndemandingCalls, UndisturbedByTwo
<1> QED
  BY <1>4, <1>5

LEMMA UpdateCapabilitiesThenSafe ==
  ASSUME Inv, RequestsInv, UpdatePresentationCapabilitiesThen
  PROVE  RequestsInv'
<1>1. KeepsRequests /\ Running("UpdatePresentationCapabilitiesThen")
  <2>1. UNCHANGED context.request /\ UNCHANGED context.states
    BY DEF UpdatePresentationCapabilitiesThen, Inv, Types, ContextRecords
  <2> QED
    BY <2>1, RequestsUntouched DEF UpdatePresentationCapabilitiesThen, otherThanContext
<1>2. PICK a : a = Do("DidChangePresentationCapabilities")
  OBVIOUS
<1>3. PICK test \in BOOLEAN : test <=> presenter.has_context
  OBVIOUS
<1>4. Making(When(test, a))
  BY <1>2, <1>3 DEF UpdatePresentationCapabilitiesThen, When
<1>5. a.f \in Undemanding
  BY <1>2, PartsOfCalls DEF Undemanding
<1>6. calls # << >> /\ arg.f \notin Preceders \cup Relied
  BY <1>1, ContextMethodRuns DEF ContextMethods
<1> QED
  BY <1>1, <1>4, <1>5, <1>6, UndemandingCalls, UndisturbedByOne

LEMMA SetContextDelegateSafe ==
  ASSUME Inv, RequestsInv, SetContextDelegateThen
  PROVE  RequestsInv'
<1>1. KeepsRequests /\ Running("SetContextDelegateThen")
  <2>1. UNCHANGED context.request /\ UNCHANGED context.states
    BY DEF SetContextDelegateThen, Inv, Types, ContextRecords
  <2> QED
    BY <2>1, RequestsUntouched DEF SetContextDelegateThen, otherThanContext
<1>2. PICK a : a = With("SetPresentationContext", arg.x)
  OBVIOUS
<1>3. PICK test \in BOOLEAN : test
  OBVIOUS
<1>4. Making(When(test, a))
  BY <1>2, <1>3 DEF SetContextDelegateThen, When
<1>5. a.f \in Undemanding
  BY <1>2, PartsOfCalls DEF Undemanding
<1>6. calls # << >> /\ arg.f \notin Preceders \cup Relied
  BY <1>1, ContextMethodRuns DEF ContextMethods
<1> QED
  BY <1>1, <1>4, <1>5, <1>6, UndemandingCalls, UndisturbedByOne

LEMMA StopContainerSafe ==
  ASSUME Inv, RequestsInv, StopContainerThen
  PROVE  RequestsInv'
<1>1. KeepsRequests /\ Running("StopContainerThen")
  BY RequestsUntouched DEF StopContainerThen, otherThanContext
<1>2. PICK a : a = With("SetViewController", "false")
  OBVIOUS
<1>3. PICK test \in BOOLEAN : test <=> container.pc_started
  OBVIOUS
<1>4. Making(When(test, a))
  BY <1>2, <1>3 DEF StopContainerThen, When
<1>5. a.f \in Undemanding
  BY <1>2, PartsOfCalls DEF Undemanding
<1>6. calls # << >> /\ arg.f \notin Preceders \cup Relied
  BY <1>1, ContextMethodRuns DEF ContextMethods
<1> QED
  BY <1>1, <1>4, <1>5, <1>6, UndemandingCalls, UndisturbedByOne

LEMMA StopPresentationContextSafe ==
  ASSUME Inv, RequestsInv, StopPresentationContextThen
  PROVE  RequestsInv'
<1>1. KeepsRequests /\ Running("StopPresentationContextThen")
  BY RequestsUntouched DEF StopPresentationContextThen, otherThanContext
<1>2. calls # << >> /\ arg.f \notin Preceders \cup Relied
  BY <1>1, ContextMethodRuns DEF ContextMethods
<1> QED
  BY <1>1, <1>2, UndisturbedByNone DEF StopPresentationContextThen

LEMMA UpdatePresentationContextSafe ==
  ASSUME Inv, RequestsInv, UpdatePresentationContext
  PROVE  RequestsInv'
<1>1. KeepsRequests /\ Running("updatePresentationContext")
  BY RequestsUntouched DEF UpdatePresentationContext, otherThanContext
<1>2. calls # << >> /\ arg.f \notin Preceders \cup Relied
  BY <1>1, ContextMethodRuns DEF ContextMethods
<1>3. PICK yes \in BOOLEAN : yes
  OBVIOUS
<1>4. CASE Making(<<With("SetViewController", Flag(arg.x # "kNone"))>>)
  <2>1. PICK a : a = With("SetViewController", Flag(arg.x # "kNone"))
    OBVIOUS
  <2>2. Making(When(yes, a)) /\ a.f \in Undemanding
    BY <1>3, <1>4, <2>1, PartsOfCalls DEF When, Undemanding
  <2> QED
    BY <1>1, <1>2, <2>2, UndemandingCalls, UndisturbedByOne
<1>5. CASE Returning
  BY <1>1, <1>2, <1>5, UndisturbedByNone
<1>6. CASE Making(<<With("SetViewController", "false"), Do("StopPresentationContextThen")>>)
  <2>1. PICK a, b : /\ a = With("SetViewController", "false")
                    /\ b = Do("StopPresentationContextThen")
    OBVIOUS
  <2>2. Making(<<a, b>>) /\ a.f \in Undemanding /\ b.f \in Undemanding
    BY <1>6, <2>1, PartsOfCalls DEF Undemanding
  <2> DEFINE made == <<a, b>>
             S == {a, b}
  <2>3. made \in Seq(S) /\ Len(made) = 2 /\ made[1] = a /\ made[2] = b /\ Making(made)
    BY <2>2
  <2> HIDE DEF made, S
  <2>4. CallsIn(made) = {a, b} /\ InOrder(made)
    BY <2>2, <2>3, UndemandingCalls DEF CallsIn, InOrder
  <2> QED
    BY <1>1, <1>2, <2>2, <2>3, <2>4, UndemandingCalls, Undisturbed
<1>7. \/ Making(<<With("SetViewController", Flag(arg.x # "kNone"))>>)
      \/ Returning
      \/ Making(<<With("SetViewController", "false"), Do("StopPresentationContextThen")>>)
  BY DEF UpdatePresentationContext, Returning
<1> QED
  BY <1>4, <1>5, <1>6, <1>7

LEMMA SetPresentationContextSafe ==
  ASSUME Inv, RequestsInv, SetPresentationContext
  PROVE  RequestsInv'
<1>1. KeepsRequests /\ Running("SetPresentationContext")
  BY RequestsUntouched DEF SetPresentationContext, otherThanPresenter
<1>2. calls # << >> /\ arg.f \notin Preceders \cup Relied
  BY <1>1, ContextMethodRuns DEF ContextMethods
<1>3. PICK order \in SetToSeqs(Tabs) :
        Making((IF presenter.has_context
                THEN [i \in 1..Len(order) |-> OnWebState("CancelFrontRequestUI", order[i])]
                ELSE <<>>)
               \o <<With("SetPresentationContextThen", arg.x)>>)
  BY DEF SetPresentationContext
<1> DEFINE first == IF presenter.has_context
                    THEN [i \in 1..Len(order) |->
                            OnWebState("CancelFrontRequestUI", order[i])]
                    ELSE <<>>
<1>4. /\ first \in Seq(CallRecords)
      /\ \A c \in CallsIn(first) : c.f \in Undemanding
  <2>1. CASE presenter.has_context
    <3>1. Tabs \in SUBSET WebStates
      BY DEF Tabs
    <3> QED
      BY <2>1, <3>1, CancelAllCalls DEF Undemanding
  <2>2. CASE ~presenter.has_context
    <3>1. << >> \in Seq(CallRecords) /\ Len(<< >>) = 0 /\ first = << >>
      BY <2>2
    <3> HIDE DEF first
    <3> QED
      BY <3>1 DEF CallsIn
  <2> QED
    BY <2>1, <2>2
<1>5. PICK b : b = With("SetPresentationContextThen", arg.x)
  OBVIOUS
<1>6. b.f \in Undemanding
  BY <1>5, PartsOfCalls DEF Undemanding
<1> DEFINE second == <<b>>
           made == first \o second
           S == CallRecords \cup {b}
<1>7. Making(made)
  BY <1>3, <1>5
<1>8. second \in Seq(S) /\ Len(second) = 1 /\ second[1] = b
  OBVIOUS
<1> HIDE DEF first, second, S
<1>9. CallsIn(second) = {b} /\ InOrder(second)
  BY <1>8 DEF CallsIn, InOrder
<1>10. first \in Seq(S)
  BY <1>4, SeqMonotonic DEF S
<1>11. InOrder(first)
  BY <1>4, UndemandingCalls DEF InOrder, CallsIn
<1>12. made \in Seq(S) /\ CallsIn(made) = CallsIn(first) \cup {b} /\ InOrder(made)
  BY <1>6, <1>8, <1>9, <1>10, <1>11, UndemandingCalls, InOrderConcat
<1> HIDE DEF made
<1>13. \A a \in CallsIn(made) : a.f \in Undemanding
  BY <1>4, <1>6, <1>12
<1> QED
  BY <1>1, <1>2, <1>7, <1>12, <1>13, UndemandingCalls, Undisturbed

LEMMA CancelFrontRequestUISafe ==
  ASSUME Inv, RequestsInv, CancelFrontRequestUI
  PROVE  RequestsInv'
<1>1. KeepsRequests /\ Running("CancelFrontRequestUI")
  BY RequestsUntouched DEF CancelFrontRequestUI, otherThanPresenter
<1>2. PICK a : a = OnRequest("CancelOverlayUI", FrontRequest(arg.w))
  OBVIOUS
<1>3. PICK test \in BOOLEAN : test <=> presenter.has_context /\ FrontRequest(arg.w) # Null
  OBVIOUS
<1>4. Making(When(test, a))
  BY <1>2, <1>3 DEF CancelFrontRequestUI, CancelUI, When
<1>5. a.f \in Undemanding
  BY <1>2, PartsOfCalls DEF Undemanding
<1>6. calls # << >> /\ arg.f \notin Preceders \cup Relied
  BY <1>1, ContextMethodRuns DEF ContextMethods
<1> QED
  BY <1>1, <1>4, <1>5, <1>6, UndemandingCalls, UndisturbedByOne

LEMMA WillChangeSafe ==
  ASSUME Inv, RequestsInv, WillChangePresentationCapabilities
  PROVE  RequestsInv'
<1>1. KeepsRequests /\ Running("WillChangePresentationCapabilities")
  BY RequestsUntouched DEF WillChangePresentationCapabilities, otherThanPresenter
<1>2. PICK a : a = OnRequest("HideOverlayUI", presenter.presented_request)
  OBVIOUS
<1>3. PICK test \in BOOLEAN : test <=> presenter.presented_request # Null /\ ~argFlag
  OBVIOUS
<1>4. Making(When(test, a))
  BY <1>2, <1>3 DEF WillChangePresentationCapabilities, When
<1>5. a.f \in Undemanding
  BY <1>2, PartsOfCalls DEF Undemanding
<1>6. calls # << >> /\ arg.f \notin Preceders \cup Relied
  BY <1>1, ContextMethodRuns DEF ContextMethods
<1> QED
  BY <1>1, <1>4, <1>5, <1>6, UndemandingCalls, UndisturbedByOne

LEMMA PresentUnlessPresentingSafe ==
  ASSUME Inv, RequestsInv, PresentUnlessPresenting
  PROVE  RequestsInv'
<1>1. KeepsRequests
  BY RequestsUntouched DEF PresentUnlessPresenting, otherThanPresenter
<1>2. PICK a : a = Do("PresentOverlayForActiveRequest")
  OBVIOUS
<1>3. PICK test \in BOOLEAN : test <=> ~presenter.presenting
  OBVIOUS
<1>4. Making(When(test, a))
  BY <1>2, <1>3 DEF PresentUnlessPresenting, When
<1>5. a.f \in Undemanding
  BY <1>2, PartsOfCalls DEF Undemanding
<1>6. calls # << >> /\ arg.f \notin Preceders \cup Relied
  BY ContextMethodRuns DEF ContextMethods, PresentUnlessPresenting
<1> QED
  BY <1>1, <1>4, <1>5, <1>6, UndemandingCalls, UndisturbedByOne

\* What the user has dismissed is still in front when it is popped.
LEMMA PopFrontRequestSafe ==
  ASSUME Inv, RequestsInv, PopFrontRequest
  PROVE  RequestsInv'
<1>1. /\ KeepsRequests /\ Running("PopFrontRequest")
      /\ UNCHANGED <<queues, delegate, owner, presenter, context>>
  BY RequestsUntouched DEF PopFrontRequest, otherThanQueues
<1>2. calls # << >> /\ arg.f = "PopFrontRequest" /\ arg.f \notin Preceders \cup Relied
  BY <1>1, ContextMethodRuns DEF ContextMethods
<1>3. arg.w \in WebStates
  BY <1>1, RunningFacts DEF CallOK, TabsKnownTo
<1>4. PresentedInFront(arg.w) /\ ~Callback(FrontRequest(arg.w))
  BY <1>2, RunningKnows DEF Knows, RequestsKnownTo
<1>5. /\ FrontRequest(arg.w) # Null /\ FrontRequest(arg.w) = presenter.presented_request
      /\ FrontRequest(arg.w) \in Requests /\ owner[FrontRequest(arg.w)] = arg.w
  BY <1>3, <1>4, FrontRequestOwner DEF PresentedInFront
<1>6. PICK a : a = Call("RemoveRequest", FrontRequest(arg.w), arg.w, "popped")
  OBVIOUS
<1>7. /\ a.f = "RemoveRequest" /\ a.r = FrontRequest(arg.w) /\ a.w = arg.w /\ a.x = "popped"
  BY <1>6, PartsOfCalls
<1>8. PICK test \in BOOLEAN : test
  OBVIOUS
<1>9. Making(When(test, a))
  BY <1>6, <1>8 DEF PopFrontRequest, When
<1>10. Knows(a)'
  <2>1. DelegatesKnownTo(a)'
    BY <1>7 DEF DelegatesKnownTo, IsAdding
  <2>2. RequestsKnownTo(a)'
    BY <1>1, <1>3, <1>4, <1>5, <1>7, NullAssumption DEF RequestsKnownTo, Callback
  <2> QED
    BY <2>1, <2>2 DEF Knows
<1> QED
  BY <1>1, <1>2, <1>7, <1>9, <1>10, UndisturbedByOne

----------------------------------------------------------------------------
(* Dismissals.                                                             *)

LEMMA PresenterTyped ==
  ASSUME Inv
  PROVE  /\ presenter \in PresenterRecords /\ context \in ContextRecords
         /\ presenter.presented_request \in Requests \cup {Null}
         /\ presenter.removed_request \in Requests \cup {Null}
         /\ presenter.previously_presented \subseteq Requests
         /\ presenter.active_web_state \in WebStates \cup {Null}
         /\ presenter.detached_queue \in WebStates \cup {Null}
         /\ context.request \in Requests \cup {Null}
  BY DEF Inv, Types, PresenterRecords, ContextRecords

LEMMA DismissedIsPresented ==
  ASSUME Inv, Running("OverlayWasDismissed"), presenter.has_context,
         ~presenter.queue_replaced_delegate
  PROVE  arg.r \in Requests /\ arg.r = presenter.presented_request /\ ~Callback(arg.r)
<1>1. /\ arg.f = "OverlayWasDismissed" /\ arg \in Stack /\ arg.r = context.request
      /\ arg.r # Null /\ ~Callback(arg.r) /\ arg.r \in Requests \cup {Null}
      /\ \A c \in Stack : c.f # "ShowOverlayUI"
  BY RunningFacts, NothingUnderWay DEF CallOK, DismissalKnownTo, IsDismissal
<1> QED
  BY <1>1 DEF Inv, PresenterOK, IsDismissal

\* The tab of the active request is a tab of the window, whose queue tells the
\* presenter of removed requests, unless the active tab is about to change.
LEMMA ActiveIsTab ==
  ASSUME Inv, RequestsInv, calls # << >>, arg.f \notin Preceders,
         arg.f # "SetActiveWebState", presenter.active_web_state # Null
  PROVE  /\ phase[presenter.active_web_state] = "tab"
         /\ delegate[presenter.active_web_state] = "presenter"
<1>1. ~Activating
  BY RunningKnows, NotActivating DEF Activating
<1> QED
  BY <1>1 DEF RequestsInv, TabsOK

LEMMA OverlayWasDismissedSafe ==
  ASSUME Inv, RequestsInv, OverlayWasDismissed
  PROVE  RequestsInv'
<1>1. /\ Running("OverlayWasDismissed")
      /\ UNCHANGED <<phase, queues, delegate, owner, context>>
  BY DEF OverlayWasDismissed, otherThanPresenter
<1>2. calls # << >> /\ arg.f = "OverlayWasDismissed" /\ arg.f \notin Preceders \cup Relied
  BY <1>1, ContextMethodRuns DEF ContextMethods
<1>3. CASE Returning /\ UNCHANGED presenter
  BY <1>1, <1>2, <1>3, RequestsUntouched, UndisturbedByNone
<1>4. CASE /\ presenter' = [presenter EXCEPT !.presenting = FALSE,
                                             !.queue_replaced_delegate = FALSE]
           /\ Making(When(ActiveRequest # Null, Do("PresentOverlayForActiveRequest")))
  <2>1. KeepsPresenter
    BY <1>4, PresenterTyped DEF KeepsPresenter, KeepsPresented, PresenterRecords
  <2>2. KeepsRequests
    BY <1>1, <2>1 DEF KeepsRequests, KeepsAnswers, Answerable, Callback
  <2>3. PICK a : a = Do("PresentOverlayForActiveRequest")
    OBVIOUS
  <2>4. PICK test \in BOOLEAN : test <=> ActiveRequest # Null
    OBVIOUS
  <2>5. Making(When(test, a)) /\ a.f \in Undemanding
    BY <1>4, <2>3, <2>4, PartsOfCalls DEF When, Undemanding
  <2> QED
    BY <1>2, <2>2, <2>5, UndemandingCalls, UndisturbedByOne
<1>5. CASE /\ presenter.has_context /\ ~presenter.queue_replaced_delegate
           /\ UNCHANGED presenter
           /\ Making(When(/\ arg.x = "kUserInteraction"
                          /\ phase[arg.w] # "destroyed"
                          /\ arg.r # presenter.removed_request,
                          OnWebState("PopFrontRequest", arg.w))
                     \o <<OnRequest("OverlayWasDismissedThen", arg.r)>>)
  <2>1. KeepsRequests
    BY <1>1, <1>5, RequestsUntouched
  <2>2. PICK a : a = OnWebState("PopFrontRequest", arg.w)
    OBVIOUS
  <2>3. PICK b : b = OnRequest("OverlayWasDismissedThen", arg.r)
    OBVIOUS
  <2>4. PICK test \in BOOLEAN :
          test <=> /\ arg.x = "kUserInteraction"
                   /\ phase[arg.w] # "destroyed"
                   /\ arg.r # presenter.removed_request
    OBVIOUS
  <2>5. PICK also \in BOOLEAN : also
    OBVIOUS
  <2>6. Making(When(test, a) \o When(also, b))
    BY <1>5, <2>2, <2>3, <2>4, <2>5 DEF When
  <2>7. a.f = "PopFrontRequest" /\ a.w = arg.w /\ b.f \in Undemanding
    BY <2>2, <2>3, PartsOfCalls DEF Undemanding
  <2>8. ASSUME test PROVE Knows(a)'
    <3>1. arg.r \in Requests /\ arg.r = presenter.presented_request /\ ~Callback(arg.r)
      BY <1>1, <1>5, DismissedIsPresented
    <3>2. InFront(arg.r) /\ arg.w = owner[arg.r]
      BY <1>2, <2>4, <2>8, <3>1, RunningKnows DEF Knows, RequestsKnownTo
    <3>3. FrontRequest(arg.w) = arg.r /\ presenter.active_web_state = arg.w
      BY <2>4, <2>8, <3>2 DEF InFront
    <3>4. arg.w # Null
      BY <3>1, <3>3, NullAssumption DEF FrontRequest
    <3>5. delegate[arg.w] = "presenter"
      BY <1>2, <3>3, <3>4, ActiveIsTab DEF Relied
    <3>6. FrontRequest(a.w)' = presenter.presented_request
      BY <1>1, <1>5, <2>7, <3>1, <3>3, SameFront
    <3>7. PresentedInFront(a.w)' /\ ~Callback(FrontRequest(a.w))'
      <4>1. ~Callback(presenter.presented_request)'
        BY <1>1, <1>5, <3>1 DEF Callback
      <4> QED
        BY <1>1, <1>5, <2>7, <3>1, <3>5, <3>6, <4>1, NullAssumption DEF PresentedInFront, Callback
    <3>8. RequestsKnownTo(a)' /\ DelegatesKnownTo(a)'
      BY <2>7, <3>7 DEF RequestsKnownTo, DelegatesKnownTo, IsAdding
    <3> QED
      BY <3>8 DEF Knows
  <2> QED
    BY <1>2, <2>1, <2>6, <2>7, <2>8, UndemandingCalls, UndisturbedByTwo
<1> QED
  BY <1>3, <1>4, <1>5 DEF OverlayWasDismissed

\* A method that runs while the active tab is not about to change, and that
\* makes calls of no consequence; what it does to the state is left to show.
LEMMA CallsOfNoConsequence ==
  ASSUME Inv, RequestsInv, calls # << >>, arg.f \notin Preceders,
         \A w \in WebStates : phase[w] = "tab" => phase'[w] = "tab",
         NEW test \in BOOLEAN, NEW a, NEW also \in BOOLEAN, NEW b,
         Making(When(test, a) \o When(also, b)) \/ (Making(When(test, a)) /\ ~also),
         a.f \in Undemanding, b.f \in Undemanding
  PROVE  /\ InOrder(calls)' /\ CallsKnow' /\ ~Activating'
         /\ Stack' = {c \in {a} : test} \cup {c \in {b} : also} \cup Waiting
<1>1. /\ Stack = {arg} \cup Waiting
      /\ \A c \in Waiting : /\ c.f # "SetActiveWebState"
                            /\ \A d : d.f # "SetActiveWebState" => MayPrecede(d, c)
  BY RunningKnows, NotActivating
<1>2. /\ a.f # "SetActiveWebState"
      /\ b.f # "SetActiveWebState"
      /\ a.f \notin Demanding /\ b.f \notin Demanding /\ MayPrecede(a, b)
  BY UndemandingCalls DEF Demanding
<1>3. /\ InOrder(calls)'
      /\ Stack' = {c \in {a} : test} \cup {c \in {b} : also} \cup Waiting
  BY <1>1, <1>2, MakesOne, MakesTwo
<1>4. ~Activating'
  BY <1>1, <1>2, <1>3 DEF Activating
<1>5. \A c \in Stack' : c.f = "SetActiveWebState" => c \in Stack
  BY <1>1, <1>2, <1>3
<1>6. \A c \in Waiting : Knows(c)'
  BY <1>4, <1>5, WaitingKnows
<1>7. Knows(a)' /\ Knows(b)'
  BY <1>2, <1>4, UndemandingKnows
<1> QED
  BY <1>3, <1>4, <1>6, <1>7 DEF CallsKnow

\* The second half of the dismissal callback forgets the presented request and
\* destroys the removed one.
LEMMA OverlayWasDismissedThenSafe ==
  ASSUME Inv, RequestsInv, OverlayWasDismissedThen
  PROVE  RequestsInv'
<1>1. /\ Running("OverlayWasDismissedThen")
      /\ UNCHANGED <<phase, queues, delegate, owner, context>>
  BY DEF OverlayWasDismissedThen, otherThanPresenter
<1>2. /\ calls # << >> /\ arg.f = "OverlayWasDismissedThen"
      /\ arg.f \notin Preceders \cup Relied /\ Stack = {arg} \cup Waiting
  BY <1>1, ContextMethodRuns, RunningKnows DEF ContextMethods
<1>3. /\ presenter'.presented_request = Null /\ presenter'.detached_queue = Null
      /\ presenter'.removed_request = Null
      /\ UNCHANGED presenter.has_context /\ UNCHANGED presenter.active_web_state
      /\ UNCHANGED presenter.previously_presented
  BY PresenterTyped DEF OverlayWasDismissedThen, PresenterRecords
<1>4. PICK a : a = OnRequest("DestroyRequest", presenter.removed_request)
  OBVIOUS
<1>5. PICK b : b = Do("PresentOverlayForActiveRequest")
  OBVIOUS
<1>6. PICK test \in BOOLEAN : test <=> presenter.removed_request # Null
  OBVIOUS
<1>7. PICK also \in BOOLEAN : also <=> ActiveRequest # arg.r
  OBVIOUS
<1>8. Making(When(test, a) \o When(also, b))
  BY <1>4, <1>5, <1>6, <1>7 DEF OverlayWasDismissedThen, When
<1>9. /\ a.f = "DestroyRequest" /\ a.r = presenter.removed_request
      /\ a.f \in Undemanding /\ b.f \in Undemanding
  BY <1>4, <1>5, PartsOfCalls DEF Undemanding
<1>10. /\ InOrder(calls)' /\ CallsKnow' /\ ~Activating'
       /\ Stack' = {c \in {a} : test} \cup {c \in {b} : also} \cup Waiting
  BY <1>1, <1>2, <1>8, <1>9, CallsOfNoConsequence DEF Callback
<1>11. \A c \in Stack : c.f \in Relied => c \in Stack'
  BY <1>2, <1>10
<1>12. TabsOK'
  <2>1. Tabs' = Tabs /\ \A w : Left(w)' = Left(w)
    BY <1>1 DEF Tabs, Left
  <2>2. /\ \A w \in Tabs' : delegate'[w] = "presenter" \/ (\E c \in Stack : IsAdding(c, w))'
        /\ \A w \in WebStates : delegate'[w] = "other" => Left(w)'
    BY <1>1, <1>11, <2>1 DEF RequestsInv, TabsOK, IsAdding, Relied
  <2>3. presenter'.active_web_state # Null =>
          /\ phase'[presenter'.active_web_state] = "tab"
          /\ delegate'[presenter'.active_web_state] = "presenter"
    BY <1>1, <1>2, <1>3, ActiveIsTab DEF Relied
  <2> QED
    BY <1>3, <2>2, <2>3 DEF TabsOK
<1>13. RequestsOK'
  <2>1. ASSUME NEW r \in presenter'.previously_presented
        PROVE  Alive(r)' \/ (\E c \in Stack : IsRemoval(c, r) \/ IsEnd(c, r))'
    <3>1. r \in Requests /\ r # Null
      BY <1>3, PresenterTyped, NullAssumption
    <3>2. Alive(r) \/ \E c \in Stack : IsRemoval(c, r) \/ IsEnd(c, r)
      BY <1>3 DEF RequestsInv, RequestsOK
    <3>3. CASE r = presenter.removed_request
      BY <1>6, <1>9, <1>10, <3>1, <3>3 DEF IsEnd
    <3>4. CASE Holders(r) # {}
      BY <1>1, <3>4, SameHolds DEF Alive
    <3>5. CASE \E c \in Stack : IsRemoval(c, r) \/ IsEnd(c, r)
      BY <1>11, <3>5 DEF IsRemoval, IsEnd, Relied
    <3> QED
      BY <3>2, <3>3, <3>4, <3>5 DEF Alive
  <2>2. \A w \in WebStates : ~Holds(w, Null)'
    BY <1>1, NullAssumption DEF Holds, Inv, Types
  <2> QED
    BY <1>3, <2>1, <2>2 DEF RequestsOK
<1>14. AnswersOK'
  BY <1>3, NullAssumption DEF AnswersOK
<1> QED
  BY <1>10, <1>12, <1>13, <1>14 DEF RequestsInv

\* The same for a method that makes no call.
LEMMA ReturnsOfNoConsequence ==
  ASSUME Inv, RequestsInv, calls # << >>, arg.f \notin Preceders,
         \A w \in WebStates : phase[w] = "tab" => phase'[w] = "tab",
         Returning
  PROVE  InOrder(calls)' /\ CallsKnow' /\ ~Activating' /\ Stack' = Waiting
<1>1. PICK no \in BOOLEAN : ~no
  OBVIOUS
<1>2. PICK a : a = Do("PrepareToShowOverlayUI")
  OBVIOUS
<1>3. Making(When(no, a)) /\ a.f \in Undemanding
  BY <1>1, <1>2, PartsOfCalls DEF Returning, When, Undemanding
<1> QED
  BY <1>1, <1>3, CallsOfNoConsequence, ZenonT(30)

\* A request that is destroyed is forgotten.
LEMMA DestroyRequestSafe ==
  ASSUME Inv, RequestsInv, DestroyRequest
  PROVE  RequestsInv'
<1>1. /\ calls # << >> /\ arg.f = "DestroyRequest" /\ arg.f \notin Preceders
      /\ UNCHANGED <<phase, queues, delegate, owner, context>> /\ Returning
  BY DEF DestroyRequest, otherThanPresenter, Running, arg, Preceders
<1>2. KeepsPresenter /\ arg.r \notin presenter'.previously_presented
  BY PresenterTyped DEF DestroyRequest, KeepsPresenter, KeepsPresented, PresenterRecords
<1>3. KeepsAnswers
  BY <1>1 DEF KeepsAnswers, Answerable, Callback
<1>4. InOrder(calls)' /\ CallsKnow' /\ ~Activating' /\ Stack' = Waiting
  BY <1>1, ReturnsOfNoConsequence
<1>5. Stack = {arg} \cup Waiting
  BY <1>1, RunningKnows
<1>6. TabsOK'
  <2>1. \A w \in WebStates : Adding(w) => Adding(w)'
    BY <1>1, <1>4, <1>5 DEF Adding, IsAdding
  <2>2. ~Activating
    BY <1>1, <1>4, <1>5 DEF Activating
  <2> QED
    BY <1>1, <1>2, <2>1, <2>2, TabsStayOK DEF RequestsInv
<1>7. RequestsOK'
  BY <1>1, <1>2, <1>4, <1>5, RequestsStayOK DEF RequestsInv, KeepsPresenter
<1>8. AnswersOK'
  BY <1>1, <1>2, <1>3, <1>4, <1>5, AnswersStayOK DEF RequestsInv, KeepsPresenter
<1> QED
  BY <1>4, <1>6, <1>7, <1>8 DEF RequestsInv

\* request_ is reset.
LEMMA UIWasDismissedThenSafe ==
  ASSUME Inv, RequestsInv, OverlayUIWasDismissedThen
  PROVE  RequestsInv'
<1>1. /\ Running("OverlayUIWasDismissedThen")
      /\ UNCHANGED <<phase, queues, delegate, owner, presenter>>
  BY DEF OverlayUIWasDismissedThen, otherThanContext
<1>2. calls # << >> /\ arg.f \notin Preceders \cup Relied
  BY <1>1, ContextMethodRuns DEF ContextMethods
<1>3. CASE UNCHANGED context /\ Returning
  BY <1>1, <1>2, <1>3, RequestsUntouched, UndisturbedByNone
<1>4. CASE /\ context' = [context EXCEPT
                            !.request = Null,
                            !.states = StatesAfterLeaving(arg.r, context.states)]
           /\ Making(When(context.has_delegate, With("updatePresentationContext", "kNone")))
  <2>1. PICK q : q = arg.r
    OBVIOUS
  <2>2. context'.request = Null /\ context'.states = StatesAfterLeaving(q, context.states)
    BY <1>4, <2>1, PresenterTyped DEF ContextRecords
  <2>3. \A r \in Requests : Callback(r)' => Callback(r)
    <3>1. context.states \in [Requests -> UIStates]
      BY PresenterTyped DEF ContextRecords
    <3>2. ~NoUIState.has_callback
      BY DEF NoUIState
    <3> QED
      BY <2>2, <3>1, <3>2 DEF Callback, StatesAfterLeaving
  <2>4. KeepsRequests
    BY <1>1, <2>2, <2>3 DEF KeepsRequests, KeepsPresenter, KeepsPresented, KeepsAnswers, Answerable
  <2>5. PICK a : a = With("updatePresentationContext", "kNone")
    OBVIOUS
  <2>6. PICK test \in BOOLEAN : test <=> context.has_delegate
    OBVIOUS
  <2>7. Making(When(test, a)) /\ a.f \in Undemanding
    BY <1>4, <2>5, <2>6, PartsOfCalls DEF When, Undemanding
  <2> QED
    BY <1>2, <2>4, <2>7, UndemandingCalls, UndisturbedByOne
<1> QED
  BY <1>3, <1>4 DEF OverlayUIWasDismissedThen

\* Null is in no queue.
LEMMA NullNotHeld ==
  ASSUME Inv
  PROVE  \A w \in WebStates : ~Holds(w, Null)
  BY NullAssumption DEF Holds, Inv, Types

\* A request is held by the queue of its owner only.
LEMMA HolderIsOwner ==
  ASSUME Inv, NEW w \in WebStates, NEW r, Holds(w, r)
  PROVE  r \in Requests /\ owner[r] = w /\ r # Null
  BY NullAssumption DEF Holds, Inv, Types, QueuesOK

\* The request in front is held.
LEMMA FrontIsHeld ==
  ASSUME Inv, NEW w \in WebStates, FrontRequest(w) # Null
  PROVE  Holds(w, FrontRequest(w)) /\ Held(FrontRequest(w))
<1>1. queues[w] # << >> /\ FrontRequest(w) = queues[w][1] /\ queues[w] \in Seq(Requests)
  BY DEF FrontRequest, Inv, Types
<1>2. 1 \in 1..Len(queues[w])
  BY <1>1, EmptySeq
<1> QED
  BY <1>1, <1>2 DEF Holds, Held

\* Nothing is presented, removed or detached while presenting_ is not set.
LEMMA NothingPresented ==
  ASSUME Inv, RequestsInv, presenter.has_context, ~presenter.presenting
  PROVE  /\ presenter.presented_request = Null /\ presenter.removed_request = Null
         /\ presenter.detached_queue = Null
  BY DEF Inv, PresenterOK, RequestsInv, RequestsOK, TabsOK

\* Without a detached queue, and while the active tab does not change.
LEMMA TabsOKNotDetached ==
  ASSUME TabsOK, UNCHANGED <<phase, delegate>>, UNCHANGED presenter.active_web_state,
         presenter'.detached_queue = Null,
         \A w \in WebStates : Adding(w) => Adding(w)',
         Activating => Activating'
  PROVE  TabsOK'
<1>1. Tabs' = Tabs /\ \A w : Left(w)' = Left(w)
  BY DEF Tabs, Left
<1>2. \A w \in Tabs' : delegate'[w] = "presenter" \/ (\E c \in Stack : IsAdding(c, w))'
  BY <1>1 DEF TabsOK, Adding, Tabs
<1> QED
  BY <1>1, <1>2 DEF TabsOK

\* The active request is presented; no other is, and none waits for the end of
\* its dismissal.
LEMMA PresentSafe ==
  ASSUME Inv, RequestsInv, PresentOverlayForActiveRequest
  PROVE  RequestsInv'
<1>1. /\ Running("PresentOverlayForActiveRequest")
      /\ UNCHANGED <<phase, queues, delegate, owner, context>>
  BY DEF PresentOverlayForActiveRequest, otherThanPresenter
<1>2. /\ calls # << >> /\ arg.f = "PresentOverlayForActiveRequest"
      /\ arg.f \notin Preceders \cup Relied /\ Stack = {arg} \cup Waiting
  BY <1>1, ContextMethodRuns, RunningKnows DEF ContextMethods
<1>3. PICK yes \in BOOLEAN : yes
  OBVIOUS
<1>4. CASE Returning /\ UNCHANGED presenter
  BY <1>1, <1>2, <1>4, RequestsUntouched, UndisturbedByNone
<1>5. CASE Making(<<Do("PrepareToShowOverlayUI")>>) /\ UNCHANGED presenter
  <2>1. PICK a : a = Do("PrepareToShowOverlayUI")
    OBVIOUS
  <2>2. Making(When(yes, a)) /\ a.f \in Undemanding
    BY <1>3, <1>5, <2>1, PartsOfCalls DEF When, Undemanding
  <2> QED
    BY <1>1, <1>2, <1>5, <2>2, RequestsUntouched, UndemandingCalls, UndisturbedByOne
<1>6. ASSUME presenter.has_context, ~IsShowingOverlayUI, NEW request,
             request = ActiveRequest, request # Null,
             presenter' = [presenter EXCEPT
                             !.presenting = TRUE,
                             !.presented_request = request,
                             !.previously_presented = @ \cup {request}],
             Making(<<Call("ShowOverlayUI", request, presenter.active_web_state, "none")>>)
      PROVE  RequestsInv'
  <2>1. /\ presenter'.presented_request = request
        /\ presenter'.previously_presented = presenter.previously_presented \cup {request}
        /\ UNCHANGED presenter.has_context /\ UNCHANGED presenter.active_web_state
        /\ UNCHANGED presenter.removed_request /\ UNCHANGED presenter.detached_queue
    BY <1>6, PresenterTyped DEF PresenterRecords
  <2>2. /\ presenter.presented_request = Null /\ presenter.removed_request = Null
        /\ presenter.detached_queue = Null
    <3>1. ~presenter.presenting
      <4>1. \A c \in Stack : c.f # "ShowOverlayUI" /\ ~IsDismissal(c)
        BY <1>2, NothingUnderWay DEF IsDismissal, IsPopping
      <4> QED
        BY <1>6, <4>1 DEF Inv, PresenterOK
    <3> QED
      BY <1>6, <3>1, NothingPresented
  <2>3. /\ request \in Requests /\ presenter.active_web_state \in WebStates
        /\ owner[request] = presenter.active_web_state
    BY <1>6, ActiveRequestOwner
  <2>4. Held(request)
    BY <1>6, <2>3, FrontIsHeld DEF ActiveRequest
  <2>5. delegate[owner[request]] = "presenter"
    BY <1>2, <2>3, ActiveIsTab, NullAssumption DEF Relied
  <2>6. PICK a : a = Call("ShowOverlayUI", request, presenter.active_web_state, "none")
    OBVIOUS
  <2>7. /\ Making(When(yes, a)) /\ a.f = "ShowOverlayUI"
        /\ a.w = presenter.active_web_state
    BY <1>3, <1>6, <2>6, PartsOfCalls DEF When
  <2>8. /\ InOrder(calls)' /\ Stack' = {c \in {a} : yes} \cup Waiting
        /\ ~Activating /\ ~Activating'
    <3>1. \A c \in Waiting : c.f # "SetActiveWebState" /\ MayPrecede(a, c)
      BY <1>2, <2>7, NotActivating
    <3>2. InOrder(calls)' /\ Stack' = {c \in {a} : yes} \cup Waiting
      BY <1>2, <2>7, <3>1, MakesOne
    <3> QED
      BY <1>2, <2>7, <3>1, <3>2 DEF Activating
  <2>9. CallsKnow'
    <3>1. Knows(a)'
      BY <2>1, <2>7 DEF Knows, DelegatesKnownTo, RequestsKnownTo, IsAdding
    <3>2. \A c \in Stack' : c.f = "SetActiveWebState" => c \in Stack
      BY <1>2, <2>7, <2>8
    <3>3. \A c \in Waiting : Knows(c)'
      BY <1>1, <1>2, <2>8, <3>2, WaitingKnows
    <3> QED
      BY <2>8, <3>1, <3>3 DEF CallsKnow
  <2>10. \A c \in Stack : c.f \in Relied => c \in Stack'
    BY <1>2, <2>8
  <2>11. TabsOK'
    <3>1. \A w \in WebStates : Adding(w) => Adding(w)'
      BY <2>10 DEF Adding, IsAdding, Relied
    <3> QED
      BY <1>1, <2>1, <2>2, <2>8, <3>1, TabsOKNotDetached DEF RequestsInv
  <2>12. RequestsOK'
    <3>1. \A r : Alive(r) => Alive(r)'
      BY <1>1, <2>1, SameHolds DEF Alive
    <3>2. Alive(request)'
      BY <2>4, <3>1, HoldersHold DEF Alive
    <3>3. \A r \in presenter'.previously_presented :
            Alive(r)' \/ (\E c \in Stack : IsRemoval(c, r) \/ IsEnd(c, r))'
      BY <2>1, <2>10, <3>1, <3>2 DEF RequestsInv, RequestsOK, IsRemoval, IsEnd, Relied
    <3>4. ASSUME NEW w \in WebStates, Holds(w, request)' PROVE delegate'[w] # "none"
      <4>1. Holds(w, request)
        BY <1>1, <3>4 DEF Holds
      <4> QED
        BY <1>1, <2>5, <4>1, HolderIsOwner
    <3>5. \A w \in WebStates : Holds(w, presenter.presented_request)' => delegate'[w] # "none"
      BY <2>1, <3>4 DEF Holds
    <3>6. Alive(presenter.presented_request)'
      BY <2>1, <3>2 DEF Alive, Holders
    <3> QED
      BY <2>1, <2>2, <3>3, <3>5, <3>6 DEF RequestsOK
  <2>13. AnswersOK'
    <3>1. ~Answerable(request)'
      <4>1. ~(context.request = request /\ Callback(request))
        BY <1>6, <2>3 DEF IsShowingOverlayUI, HasState, Callback, Inv, ContextOK
      <4> QED
        BY <1>1, <4>1 DEF Answerable, Callback
    <3> QED
      BY <2>1, <3>1 DEF AnswersOK
  <2> QED
    BY <2>8, <2>9, <2>11, <2>12, <2>13 DEF RequestsInv
<1> QED
  BY <1>4, <1>5, <1>6 DEF PresentOverlayForActiveRequest

\* The context is taken from the presenter, or given to it again: no request is
\* presented any more, and none was if it is given again.
LEMMA SetPresentationContextThenSafe ==
  ASSUME Inv, RequestsInv, SetPresentationContextThen
  PROVE  RequestsInv'
<1>1. /\ Running("SetPresentationContextThen")
      /\ UNCHANGED <<phase, queues, delegate, owner, context>>
  BY DEF SetPresentationContextThen, otherThanPresenter
<1>2. /\ calls # << >> /\ arg.f = "SetPresentationContextThen"
      /\ arg.f \notin Preceders \cup Relied /\ Stack = {arg} \cup Waiting
  BY <1>1, ContextMethodRuns, RunningKnows DEF ContextMethods
<1>3. PICK test \in BOOLEAN : test <=> argFlag
  OBVIOUS
<1>4. /\ presenter'.has_context = test /\ presenter'.presented_request = Null
      /\ presenter'.previously_presented = {}
      /\ UNCHANGED presenter.active_web_state
      /\ UNCHANGED presenter.removed_request /\ UNCHANGED presenter.detached_queue
  BY <1>3, PresenterTyped DEF SetPresentationContextThen, PresenterRecords, argFlag
<1>5. PICK a : a = Do("PresentOverlayForActiveRequest")
  OBVIOUS
<1>6. Making(When(test, a)) /\ a.f \in Undemanding
  BY <1>3, <1>5, PartsOfCalls DEF SetPresentationContextThen, When, Undemanding
<1>7. PICK no \in BOOLEAN : ~no
  OBVIOUS
<1>8. /\ InOrder(calls)' /\ CallsKnow' /\ ~Activating'
      /\ Stack' = {c \in {a} : test} \cup Waiting
  <2>1. /\ InOrder(calls)' /\ CallsKnow' /\ ~Activating'
        /\ Stack' = {c \in {a} : test} \cup {c \in {a} : no} \cup Waiting
    BY <1>1, <1>2, <1>6, <1>7, CallsOfNoConsequence
  <2> QED
    BY <1>7, <2>1
<1>9. ASSUME test PROVE presenter.removed_request = Null /\ presenter.detached_queue = Null
  <2>1. context.request = Null /\ presenter.has_context
    <3>1. GivesContext(arg)
      BY <1>2, <1>3, <1>9 DEF GivesContext, ChangesContext, argFlag
    <3> QED
      BY <1>1, <3>1, RunningFacts DEF CallOK, DismissalKnownTo
  <2>2. \A c \in Stack : c.f # "ShowOverlayUI"
    BY <1>2, NothingUnderWay
  <2>3. presenter.presented_request = Null
    BY <2>1, <2>2 DEF Inv, PresenterOK
  <2> QED
    BY <2>1, <2>3 DEF RequestsInv, RequestsOK, TabsOK
<1>10. TabsOK'
  <2>1. Tabs' = Tabs /\ \A w : Left(w)' = Left(w)
    BY <1>1 DEF Tabs, Left
  <2>2. /\ \A w \in Tabs' : delegate'[w] = "presenter" \/ (\E c \in Stack : IsAdding(c, w))'
        /\ \A w \in WebStates : delegate'[w] = "other" => Left(w)'
    BY <1>1, <1>2, <1>8, <2>1 DEF RequestsInv, TabsOK, IsAdding
  <2>3. presenter'.active_web_state # Null =>
          /\ phase'[presenter'.active_web_state] = "tab"
          /\ delegate'[presenter'.active_web_state] = "presenter"
    BY <1>1, <1>2, <1>4, ActiveIsTab DEF Relied
  <2>4. presenter'.detached_queue # Null => Left(presenter.detached_queue)'
    BY <1>4, <2>1 DEF RequestsInv, TabsOK
  <2> QED
    BY <1>4, <1>9, <2>2, <2>3, <2>4 DEF TabsOK
<1>11. RequestsOK'
  <2>1. \A w \in WebStates : ~Holds(w, presenter.presented_request)'
    BY <1>1, <1>4, NullNotHeld DEF Holds
  <2>2. presenter'.removed_request # Null =>
          /\ ~Held(presenter.removed_request)' /\ owner'[presenter'.removed_request] # Null
    BY <1>1, <1>4, SameHolds DEF RequestsInv, RequestsOK
  <2> QED
    BY <1>4, <1>9, <2>1, <2>2 DEF RequestsOK
<1>12. AnswersOK'
  BY <1>4, NullAssumption DEF AnswersOK
<1> QED
  BY <1>8, <1>10, <1>11, <1>12 DEF RequestsInv

----------------------------------------------------------------------------
(* The UI of request_.                                                     *)

LEMMA UndisturbedByPair ==
  ASSUME Inv, RequestsInv, calls # << >>, KeepsRequests,
         arg.f \notin Preceders \cup Relied,
         NEW a, NEW b, Making(<<a, b>>), MayPrecede(a, b), Knows(a)', Knows(b)',
         a.f # "SetActiveWebState", b.f # "SetActiveWebState"
  PROVE  RequestsInv'
<1> DEFINE made == <<a, b>>
           S == {a, b}
<1>1. made \in Seq(S) /\ Len(made) = 2 /\ made[1] = a /\ made[2] = b /\ Making(made)
  OBVIOUS
<1> HIDE DEF made, S
<1>2. CallsIn(made) = {a, b} /\ InOrder(made)
  BY <1>1 DEF CallsIn, InOrder
<1>3. \A c \in CallsIn(made) : c.f \in Demanding => c.f # "SetActiveWebState" /\ Knows(c)'
  BY <1>2
<1> QED
  BY <1>1, <1>2, <1>3, Undisturbed

\* The callback of request_ is run: if it reports an answer of the user, the
\* request is the active one.
LEMMA DidFinishDismissalSafe ==
  ASSUME Inv, RequestsInv, OverlayUIDidFinishDismissal
  PROVE  RequestsInv'
<1>1. /\ Running("OverlayUIDidFinishDismissal")
      /\ UNCHANGED <<phase, queues, delegate, owner, presenter>>
  BY DEF OverlayUIDidFinishDismissal, otherThanContext
<1>2. /\ calls # << >> /\ arg.f = "OverlayUIDidFinishDismissal"
      /\ arg.f \notin Preceders \cup Relied
  BY <1>1 DEF Running, arg, Preceders, Relied
<1>3. PICK r : r = context.request
  OBVIOUS
<1>4. r \in Requests /\ arg.r = r /\ Callback(r) /\ r # Null
  BY <1>1, <1>2, <1>3, RunningFacts DEF CallOK, UIKnownTo
<1>5. PICK a : a = Call("OverlayWasDismissed", r, context.states[r].queue,
                        context.states[r].dismissal_reason)
  OBVIOUS
<1>6. PICK b : b = OnRequest("OverlayUIWasDismissedThen", r)
  OBVIOUS
<1>7. /\ a.f = "OverlayWasDismissed" /\ a.r = r /\ a.w = context.states[r].queue
      /\ a.x = context.states[r].dismissal_reason /\ b.f = "OverlayUIWasDismissedThen"
  BY <1>5, <1>6, PartsOfCalls
<1>8. Making(<<a, b>>)
  BY <1>3, <1>5, <1>6 DEF OverlayUIDidFinishDismissal
<1>9. KeepsRequests
  <2>1. /\ context'.request = r /\ ~Callback(r)'
        /\ \A q \in Requests : q # r => context'.states[q] = context.states[q]
    BY <1>3, <1>4, PresenterTyped DEF OverlayUIDidFinishDismissal, ContextRecords, UIStates, Callback
  <2>2. \A q \in Requests : ~Answerable(q)'
    BY <2>1 DEF Answerable
  <2>3. \A q \in Requests : Callback(q)' => Callback(q)
    BY <2>1 DEF Callback
  <2> QED
    BY <1>1, <2>2, <2>3 DEF KeepsRequests, KeepsAnswers, KeepsPresenter, KeepsPresented
<1>10. Knows(a)'
  <2>1. ASSUME a.x = "kUserInteraction", a.r = presenter'.presented_request
        PROVE  InFront(a.r)' /\ a.w = owner'[a.r]
    <3>1. Answerable(r) /\ r = presenter.presented_request
      BY <1>1, <1>3, <1>4, <1>7, <2>1 DEF Answerable
    <3>2. InFront(r)
      BY <1>2, <1>4, <3>1, RunningKnows DEF Knows, RequestsKnownTo
    <3>3. context.states[r].queue = owner[r]
      BY <1>4, <3>1 DEF RequestsInv, AnswersOK
    <3>4. InFront(r)'
      BY <1>1, <3>2, SameFront DEF InFront
    <3> QED
      BY <1>1, <1>7, <3>3, <3>4
  <2> QED
    BY <1>7, <2>1 DEF Knows, RequestsKnownTo, DelegatesKnownTo, IsAdding
<1>11. Knows(b)' /\ MayPrecede(a, b)
  <2>1. b.f \in Undemanding
    BY <1>7 DEF Undemanding
  <2> QED
    BY <1>7, <2>1, UndemandingCalls, UndemandingKnows
<1> QED
  BY <1>2, <1>7, <1>8, <1>9, <1>10, <1>11, UndisturbedByPair

\* The UI of request_ is taken back: the end of its dismissal is no answer.
LEMMA DismissSafe ==
  ASSUME Inv, RequestsInv, NEW f \in {"HideOverlayUI", "CancelOverlayUI"}, Running(f),
         \A c \in Waiting : c.f # "SetActiveWebState",
         HasState(context.request),
         NEW reason \in {"kHiding", "kCancellation"}, DismissPresentedUI(reason),
         UNCHANGED <<phase, queues, delegate, owner, presenter>>
  PROVE  RequestsInv'
<1>1. calls # << >> /\ arg.f = f /\ arg.f \in {"HideOverlayUI", "CancelOverlayUI"}
  BY DEF Running, arg
<1>2. Stack = {arg} \cup Waiting /\ \A c \in Waiting : MayPrecede(arg, c)
  BY <1>1, RunningKnows
<1>3. PICK r : r = context.request
  OBVIOUS
<1>4. r \in Requests /\ r # Null
  BY <1>3, PresenterTyped DEF HasState
<1>5. /\ context'.request = r /\ context'.states[r].dismissal_reason = reason
      /\ \A q \in Requests : Callback(q)' = Callback(q)
  <2>1. /\ context \in ContextRecords /\ context.states \in [Requests -> UIStates]
        /\ context.states[r] \in UIStates /\ \A q \in Requests : context.states[q] \in UIStates
    BY <1>4, PresenterTyped DEF ContextRecords
  <2>2. CASE context' = [context EXCEPT !.states[r].dismissal_reason = reason]
    BY <1>3, <1>4, <2>1, <2>2 DEF ContextRecords, UIStates, Callback
  <2>3. ASSUME NEW stage,
               context' = [context EXCEPT !.states[r].dismissal_reason = reason,
                                          !.states[r].coordinator = stage]
        PROVE  /\ context'.request = r /\ context'.states[r].dismissal_reason = reason
               /\ \A q \in Requests : Callback(q)' = Callback(q)
    BY <1>3, <1>4, <2>1, <2>3 DEF ContextRecords, UIStates, Callback
  <2> QED
    BY <1>3, <2>2, <2>3 DEF DismissPresentedUI
<1>6. \A q \in Requests : ~Answerable(q)'
  BY <1>5 DEF Answerable
<1>7. PICK a : a = OnRequest("OverlayUIDidFinishDismissal", r)
  OBVIOUS
<1>8. PICK test \in BOOLEAN :
        test <=> context.states[r].coordinator = "started" /\ UIKind = "contained"
  OBVIOUS
<1>9. /\ Making(When(test, a)) /\ a.f = "OverlayUIDidFinishDismissal" /\ a.r = r
  BY <1>3, <1>7, <1>8, PartsOfCalls DEF DismissPresentedUI, When, Returning
<1>10. /\ InOrder(calls)' /\ Stack' = {c \in {a} : test} \cup Waiting
       /\ ~Activating /\ ~Activating'
  <2>1. \A c \in Waiting : MayPrecede(a, c)
    BY <1>2, <1>9 DEF MayPrecede
  <2>2. InOrder(calls)' /\ Stack' = {c \in {a} : test} \cup Waiting
    BY <1>1, <1>9, <2>1, MakesOne
  <2> QED
    BY <1>1, <1>2, <1>9, <2>2 DEF Activating
<1>11. CallsKnow'
  <2>1. Knows(a)'
    BY <1>4, <1>6, <1>9 DEF Knows, DelegatesKnownTo, RequestsKnownTo, IsAdding
  <2>2. \A c \in Stack' : c.f = "SetActiveWebState" => c \in Stack
    BY <1>2, <1>9, <1>10
  <2>3. \A c \in Waiting : Knows(c)'
    BY <1>1, <1>10, <2>2, WaitingKnows
  <2> QED
    BY <1>10, <2>1, <2>3 DEF CallsKnow
<1>12. KeepsPresenter
  BY DEF KeepsPresenter, KeepsPresented
<1>13. \A c \in Stack : c.f \notin {"HideOverlayUI", "CancelOverlayUI"} => c \in Stack'
  BY <1>1, <1>2, <1>10
<1>14. TabsOK'
  <2>1. \A w \in WebStates : Adding(w) => Adding(w)'
    BY <1>13 DEF Adding, IsAdding
  <2> QED
    BY <1>10, <1>12, <2>1, TabsStayOK DEF RequestsInv
<1>15. RequestsOK'
  BY <1>12, <1>13, RequestsStayOK DEF RequestsInv, KeepsPresenter
<1>16. AnswersOK'
  BY <1>6 DEF AnswersOK
<1> QED
  BY <1>10, <1>11, <1>14, <1>15, <1>16 DEF RequestsInv

LEMMA HideOverlayUISafe ==
  ASSUME Inv, RequestsInv, HideOverlayUI
  PROVE  RequestsInv'
<1>1. calls # << >> /\ arg.f \notin Preceders
  BY DEF HideOverlayUI, Running, arg, Preceders
<1>2. \A c \in Waiting : c.f # "SetActiveWebState"
  BY <1>1, NotActivating
<1> QED
  BY <1>2, DismissSafe DEF HideOverlayUI, otherThanContext

\* Before the active tab changes, only UI that is not shown is cancelled.
LEMMA CancelOverlayUISafe ==
  ASSUME Inv, RequestsInv, CancelOverlayUI
  PROVE  RequestsInv'
<1>1. /\ calls # << >> /\ arg.f = "CancelOverlayUI"
      /\ UNCHANGED <<phase, queues, delegate, owner, presenter>>
  BY DEF CancelOverlayUI, Running, arg, otherThanContext
<1>2. Stack = {arg} \cup Waiting /\ Knows(arg)
  BY <1>1, RunningKnows
<1>3. arg.r \in Requests \cup {Null}
  BY RunningFacts DEF CancelOverlayUI
<1>4. CASE HasState(arg.r) /\ context.states[arg.r].has_callback /\ DismissPresentedUI("kCancellation")
  <2>1. ~Activating
    BY <1>1, <1>2, <1>4 DEF Knows, DelegatesKnownTo, HasState, Callback
  <2>2. \A c \in Waiting : c.f # "SetActiveWebState"
    BY <1>2, <2>1 DEF Activating
  <2>3. context.request = arg.r
    BY <1>3, <1>4 DEF Inv, ContextOK, HasState, Callback
  <2> QED
    BY <1>1, <1>4, <2>2, <2>3, DismissSafe DEF CancelOverlayUI
<1>5. ASSUME Returning, arg.r # Null => ~Callback(arg.r),
             KeepsAnswers, \A q \in Requests : Callback(q)' => Callback(q)
      PROVE  RequestsInv'
  <2>1. Stack' = Waiting /\ InOrder(calls)'
    BY <1>1, <1>5, MakesNone
  <2>2. KeepsPresenter
    BY <1>1 DEF KeepsPresenter, KeepsPresented
  <2>3. CallsKnow'
    <3>1. \A c \in Stack' : c.f = "SetActiveWebState" => c \in Stack
      BY <1>2, <2>1
    <3>2. \A c \in Waiting : Knows(c)'
      BY <1>1, <1>5, <3>1, WaitingKnows
    <3> QED
      BY <2>1, <3>2 DEF CallsKnow
  <2>4. TabsOK'
    <3>1. \A w \in WebStates : Adding(w) => Adding(w)'
      BY <1>1, <1>2, <2>1 DEF Adding, IsAdding
    <3>2. Activating => Activating'
      BY <1>1, <1>2, <2>1 DEF Activating
    <3> QED
      BY <1>1, <2>2, <3>1, <3>2, TabsStayOK DEF RequestsInv
  <2>5. RequestsOK'
    BY <1>1, <1>2, <2>1, <2>2, RequestsStayOK DEF RequestsInv, KeepsPresenter
  <2>6. ASSUME NEW r \in Requests, r = presenter'.presented_request, Answerable(r)'
        PROVE  /\ context'.states[r].queue = owner'[r]
               /\ InFront(r)' \/ (\E c \in Stack : TakesBack(c, r))'
    <3>1. /\ Answerable(r) /\ context'.states[r].queue = context.states[r].queue
          /\ r = presenter.presented_request
      BY <1>1, <1>5, <2>6 DEF KeepsAnswers
    <3>2. r # arg.r
      BY <1>5, <3>1 DEF Answerable
    <3>3. /\ context.states[r].queue = owner[r]
          /\ InFront(r) \/ \E c \in Stack : TakesBack(c, r)
      BY <3>1 DEF RequestsInv, AnswersOK
    <3>4. InFront(r)' = InFront(r)
      BY <1>1, SameFront DEF InFront
    <3>5. \A c : TakesBack(c, r)' = TakesBack(c, r)
      BY <1>1, SameFront DEF TakesBack
    <3>6. ~TakesBack(arg, r)
      BY <1>1, <3>2 DEF TakesBack
    <3> QED
      BY <1>1, <1>2, <2>1, <3>1, <3>3, <3>4, <3>5, <3>6
  <2> QED
    BY <2>1, <2>3, <2>4, <2>5, <2>6 DEF RequestsInv, AnswersOK
<1>6. CASE ~HasState(arg.r) /\ Returning /\ UNCHANGED context
  <2>1. arg.r # Null => ~Callback(arg.r)
    BY <1>3, <1>6 DEF HasState, Inv, ContextOK
  <2>2. KeepsAnswers /\ \A q \in Requests : Callback(q)' => Callback(q)
    BY <1>6 DEF KeepsAnswers, Answerable, Callback
  <2> QED
    BY <1>5, <1>6, <2>1, <2>2
<1>7. CASE /\ HasState(arg.r) /\ ~context.states[arg.r].has_callback /\ Returning
           /\ context' = [context EXCEPT !.states[arg.r] = NoUIState]
  <2>1. PICK q : q = arg.r
    OBVIOUS
  <2>2. /\ q \in Requests /\ ~Callback(q) /\ context'.request = context.request
        /\ context'.states[q] = NoUIState
        /\ \A r \in Requests : r # q => context'.states[r] = context.states[r]
    BY <1>3, <1>7, <2>1, PresenterTyped DEF HasState, Callback, ContextRecords
  <2>3. \A r \in Requests : Callback(r)' => Callback(r) /\ r # q
    BY <2>2 DEF Callback, NoUIState
  <2>4. KeepsAnswers
    BY <2>2, <2>3 DEF KeepsAnswers, Answerable, Callback
  <2> QED
    BY <1>5, <1>7, <2>1, <2>2, <2>3, <2>4
<1> QED
  BY <1>4, <1>6, <1>7 DEF CancelOverlayUI

\* The request that is shown is the active one.
LEMMA ShowOverlayUISafe ==
  ASSUME Inv, RequestsInv, ShowOverlayUI
  PROVE  RequestsInv'
<1>1. /\ Running("ShowOverlayUI") /\ Returning
      /\ UNCHANGED <<phase, queues, delegate, owner, presenter>>
  BY DEF ShowOverlayUI, otherThanContext
<1>2. calls # << >> /\ arg.f = "ShowOverlayUI" /\ arg.f \notin Preceders \cup Relied
  BY <1>1 DEF Running, arg, Preceders, Relied
<1>3. PICK r, w : r = arg.r /\ w = arg.w
  OBVIOUS
<1>4. /\ r \in Requests /\ r = ActiveRequest /\ r = presenter.presented_request
      /\ r # Null
  BY <1>1, <1>2, <1>3, RunningFacts DEF CallOK, UIKnownTo
<1>5. w = presenter.active_web_state
  BY <1>2, <1>3, RunningKnows DEF Knows, RequestsKnownTo
<1>6. w \in WebStates /\ owner[r] = w
  BY <1>4, <1>5, ActiveRequestOwner
<1>7. context'.states[r].queue = w
  <2>1. /\ context \in ContextRecords /\ context.states \in [Requests -> UIStates]
        /\ context.states[r] \in UIStates
    BY <1>4, PresenterTyped DEF ContextRecords
  <2>2. PICK requested : requested = [context.states EXCEPT
                                        ![r].exists = TRUE,
                                        ![r].has_callback = TRUE,
                                        ![r].queue = w,
                                        ![r].dismissal_reason = "kUserInteraction"]
    OBVIOUS
  <2>3. requested \in [Requests -> UIStates] /\ requested[r].queue = w
    BY <1>4, <1>6, <2>1, <2>2, ZenonT(30) DEF UIStates, DismissalReasons
  <2>4. CASE context' = [context EXCEPT !.states = requested]
    BY <2>1, <2>3, <2>4 DEF ContextRecords
  <2>5. ASSUME context.request # r,
               context' = [context EXCEPT
                             !.request = r,
                             !.states = [StatesAfterLeaving(context.request, requested)
                                           EXCEPT ![r].coordinator = "started"]]
        PROVE  context'.states[r].queue = w
    <3>1. PICK left : left = StatesAfterLeaving(context.request, requested)
      OBVIOUS
    <3>2. left \in [Requests -> UIStates] /\ left[r] = requested[r]
      <4>1. NoUIState \in UIStates
        BY DEF NoUIState, UIStates, DismissalReasons
      <4> QED
        BY <1>4, <2>3, <2>5, <3>1, <4>1 DEF StatesAfterLeaving
    <3>3. context'.states = [left EXCEPT ![r].coordinator = "started"]
      BY <2>1, <2>5, <3>1 DEF ContextRecords
    <3> QED
      BY <1>4, <2>3, <3>2, <3>3 DEF UIStates
  <2> QED
    BY <1>3, <2>2, <2>4, <2>5 DEF ShowOverlayUI
<1>8. /\ InOrder(calls)' /\ CallsKnow' /\ ~Activating' /\ Stack' = Waiting
      /\ Stack = {arg} \cup Waiting
  BY <1>1, <1>2, ReturnsOfNoConsequence, RunningKnows
<1>9. KeepsPresenter
  BY <1>1 DEF KeepsPresenter, KeepsPresented
<1>10. TabsOK'
  <2>1. \A v \in WebStates : Adding(v) => Adding(v)'
    BY <1>2, <1>8 DEF Adding, IsAdding
  <2>2. ~Activating
    BY <1>2, <1>8 DEF Activating
  <2> QED
    BY <1>1, <1>9, <2>1, <2>2, TabsStayOK DEF RequestsInv
<1>11. RequestsOK'
  BY <1>1, <1>2, <1>8, <1>9, RequestsStayOK DEF RequestsInv, KeepsPresenter
<1>12. AnswersOK'
  <2>1. InFront(r)
    BY <1>4, <1>5, <1>6 DEF InFront, ActiveRequest
  <2>2. InFront(r)'
    BY <1>1, <2>1, SameFront DEF InFront
  <2> QED
    BY <1>1, <1>4, <1>6, <1>7, <2>2 DEF AnswersOK
<1> QED
  BY <1>8, <1>10, <1>11, <1>12 DEF RequestsInv

----------------------------------------------------------------------------
(* The calls of the list of tabs.                                          *)

\* A tab that becomes the active one has been added before, and the UI of the
\* request that was the active one is taken back.
LEMMA SetActiveWebStateSafe ==
  ASSUME Inv, RequestsInv, SetActiveWebState
  PROVE  RequestsInv'
<1>1. /\ Running("SetActiveWebState")
      /\ UNCHANGED <<phase, queues, delegate, owner, context>>
  BY DEF SetActiveWebState, otherThanPresenter
<1>2. /\ calls # << >> /\ arg.f = "SetActiveWebState" /\ arg.f \notin Preceders
      /\ Stack = {arg} \cup Waiting
  BY <1>1, RunningKnows DEF Running, arg, Preceders
<1>3. PICK new : new = arg.w
  OBVIOUS
<1>4. PICK previously_active :
        previously_active = IF presenter.removed_request # Null
                            THEN presenter.removed_request ELSE ActiveRequest
  OBVIOUS
<1>5. PICK should_cancel \in BOOLEAN :
        should_cancel <=> arg.x = "Replaced" \/ presenter.detaching
  OBVIOUS
<1>6. new # Null => phase[new] = "tab" /\ delegate[new] = "presenter"
  <2>1. new # Null => new \in WebStates /\ phase[new] = "tab"
    BY <1>1, <1>2, <1>3, RunningFacts DEF CallOK, TabsKnownTo
  <2>2. \A c \in Stack : ~IsAdding(c, new)
    BY <1>1, <1>2, RunningKnows, RunningFacts DEF IsAdding, MayPrecede, MayRunBefore
  <2> QED
    BY <2>1, <2>2 DEF RequestsInv, TabsOK, Tabs
<1>7. /\ presenter'.active_web_state = new
      /\ KeepsPresented /\ UNCHANGED presenter.detached_queue
  BY <1>3, PresenterTyped DEF SetActiveWebState, KeepsPresented, PresenterRecords
<1>8. PICK a : a = IF ~presenter.presenting THEN Do("PresentOverlayForActiveRequest")
                   ELSE IF should_cancel THEN OnRequest("CancelOverlayUI", previously_active)
                   ELSE OnRequest("HideOverlayUI", previously_active)
  OBVIOUS
<1>9. PICK test \in BOOLEAN :
        test <=> /\ presenter.active_web_state # new
                 /\ presenter.has_context
                 /\ presenter.presenting => previously_active # Null
  OBVIOUS
<1>10. Making(When(test, a))
  <2>1. CASE presenter.active_web_state = new
    BY <1>3, <1>9, <2>1 DEF SetActiveWebState, Returning, When
  <2>2. CASE presenter.active_web_state # new
    BY <1>3, <1>4, <1>5, <1>8, <1>9, <2>2 DEF SetActiveWebState, CancelUI, When
  <2> QED
    BY <2>1, <2>2
<1>11. a.f \in Undemanding
  BY <1>8, PartsOfCalls DEF Undemanding
<1>12. PICK no \in BOOLEAN : ~no
  OBVIOUS
<1>13. /\ InOrder(calls)' /\ CallsKnow' /\ ~Activating'
       /\ Stack' = {c \in {a} : test} \cup Waiting
  <2>1. /\ InOrder(calls)' /\ CallsKnow' /\ ~Activating'
        /\ Stack' = {c \in {a} : test} \cup {c \in {a} : no} \cup Waiting
    BY <1>1, <1>2, <1>10, <1>11, <1>12, CallsOfNoConsequence
  <2> QED
    BY <1>12, <2>1
<1>14. TabsOK'
  <2>1. Tabs' = Tabs /\ \A w : Left(w)' = Left(w)
    BY <1>1 DEF Tabs, Left
  <2>2. /\ \A w \in Tabs' : delegate'[w] = "presenter" \/ (\E c \in Stack : IsAdding(c, w))'
        /\ \A w \in WebStates : delegate'[w] = "other" => Left(w)'
    BY <1>1, <1>2, <1>13, <2>1 DEF RequestsInv, TabsOK, IsAdding
  <2>3. presenter'.active_web_state # Null =>
          /\ phase'[presenter'.active_web_state] = "tab"
          /\ delegate'[presenter'.active_web_state] = "presenter"
    BY <1>1, <1>6, <1>7
  <2>4. presenter'.detached_queue # Null =>
          /\ Left(presenter.detached_queue)'
          /\ presenter'.presented_request # Null =>
               owner'[presenter'.presented_request] = presenter'.detached_queue
          /\ presenter'.has_context => presenter'.presented_request # Null
    BY <1>1, <1>7, <2>1 DEF RequestsInv, TabsOK, KeepsPresented
  <2> QED
    BY <2>2, <2>3, <2>4 DEF TabsOK
<1>15. RequestsOK'
  BY <1>1, <1>2, <1>7, <1>13, RequestsStayOK DEF RequestsInv
<1>16. ASSUME NEW r \in Requests, r = presenter'.presented_request, Answerable(r)'
       PROVE  /\ context'.states[r].queue = owner'[r]
              /\ InFront(r)' \/ (\E c \in Stack : TakesBack(c, r))'
  <2>1. Answerable(r) /\ r = presenter.presented_request /\ r # Null
    BY <1>1, <1>7, <1>16, NullAssumption DEF Answerable, Callback, KeepsPresented
  <2>2. /\ context'.states[r].queue = owner'[r]
        /\ InFront(r) \/ \E c \in Stack : TakesBack(c, r)
    BY <1>1, <2>1 DEF RequestsInv, AnswersOK
  <2>3. presenter.has_context /\ presenter.presenting
    BY <2>1 DEF Inv, PresenterOK
  <2>4. CASE InFront(r)
    <3>1. previously_active = r
      BY <1>4, <2>1, <2>3, <2>4 DEF InFront, ActiveRequest, RequestsInv, RequestsOK
    <3>2. CASE presenter.active_web_state = new
      BY <1>1, <1>7, <2>2, <2>4, <3>2, SameFront DEF InFront, KeepsPresented
    <3>3. CASE presenter.active_web_state # new
      <4>1. a \in Stack'
        BY <1>9, <1>13, <2>1, <2>3, <3>1, <3>3
      <4>2. a.f = "HideOverlayUI" \/ (a.f = "CancelOverlayUI" /\ a.r = r)
        BY <1>8, <2>3, <3>1, PartsOfCalls
      <4> QED
        BY <2>2, <4>1, <4>2 DEF TakesBack
    <3> QED
      BY <3>2, <3>3
  <2>5. ASSUME NEW c \in Stack, TakesBack(c, r) PROVE c \in Stack' /\ TakesBack(c, r)'
    <3>1. c \in Waiting
      BY <1>2, <2>5 DEF TakesBack
    <3>2. MayPrecede(arg, c) /\ c.f # "RequestAddedToQueue"
      BY <1>2, <3>1, RunningKnows DEF MayPrecede
    <3> QED
      BY <1>13, <2>5, <3>1, <3>2 DEF TakesBack
  <2> QED
    BY <2>2, <2>4, <2>5
<1> QED
  BY <1>13, <1>14, <1>15, <1>16 DEF RequestsInv, AnswersOK

\* The calls that wait, while a method runs that may run before the active tab
\* changes and makes calls that may, too.
LEMMA WaitingStillKnows ==
  ASSUME Inv, RequestsInv, calls # << >>,
         UNCHANGED phase, \A r \in Requests : Callback(r)' => Callback(r),
         NEW S, Stack' = S \cup Waiting,
         \A a \in S : a.f # "SetActiveWebState",
         \A a \in S : Knows(a)'
  PROVE  CallsKnow' /\ (arg.f # "SetActiveWebState" => (Activating <=> Activating'))
<1>1. Stack = {arg} \cup Waiting
  BY RunningKnows
<1>2. \A c \in Stack' : c.f = "SetActiveWebState" => c \in Stack
  BY <1>1
<1>3. \A c \in Waiting : Knows(c)'
  BY <1>2, WaitingKnows
<1>4. arg.f # "SetActiveWebState" => (Activating <=> Activating')
  BY <1>1 DEF Activating
<1> QED
  BY <1>3, <1>4 DEF CallsKnow

\* The presenter becomes the delegate of the queue of a tab.
LEMMA WebStateAddedSafe ==
  ASSUME Inv, RequestsInv, WebStateAddedToBrowser
  PROVE  RequestsInv'
<1>1. /\ calls # << >> /\ arg.f = "WebStateAddedToBrowser"
      /\ UNCHANGED <<phase, queues, delegate, owner, presenter, context>>
  BY DEF WebStateAddedToBrowser, Running, arg, otherThanPresenter
<1>2. /\ Stack = {arg} \cup Waiting /\ Knows(arg)
      /\ \A c \in Waiting : MayPrecede(arg, c)
  BY <1>1, RunningKnows
<1>3. PICK a : a = Call("SetDelegate", Null, arg.w, "presenter")
  OBVIOUS
<1>4. PICK yes \in BOOLEAN : yes
  OBVIOUS
<1>5. /\ Making(When(yes, a)) /\ a.f = "SetDelegate" /\ a.x = "presenter" /\ a.w = arg.w
  BY <1>3, <1>4, PartsOfCalls DEF WebStateAddedToBrowser, When
<1>6. InOrder(calls)' /\ Stack' = {c \in {a} : yes} \cup Waiting
  <2>1. \A c \in Waiting : MayPrecede(a, c)
    BY <1>2, <1>5 DEF MayPrecede
  <2> QED
    BY <1>1, <1>5, <2>1, MakesOne
<1>7. CallsKnow' /\ (Activating <=> Activating')
  <2>1. Knows(a)'
    <3>1. arg.w \in Tabs
      BY <1>1, <1>2 DEF Knows, DelegatesKnownTo, IsAdding
    <3>2. a.w \in Tabs'
      BY <1>1, <1>5, <3>1 DEF Tabs
    <3> QED
      BY <1>5, <3>2 DEF Knows, DelegatesKnownTo, RequestsKnownTo, IsAdding
  <2>2. \A r \in Requests : Callback(r)' => Callback(r)
    BY <1>1 DEF Callback
  <2>3. PICK S : S = {c \in {a} : yes}
    OBVIOUS
  <2>4. /\ Stack' = S \cup Waiting
        /\ \A c \in S : Knows(c)' /\ c.f # "SetActiveWebState"
    BY <1>5, <1>6, <2>1, <2>3
  <2> QED
    BY <1>1, <2>2, <2>4, WaitingStillKnows
<1>8. KeepsRequests
  BY <1>1, RequestsUntouched
<1>9. TabsOK'
  <2>1. \A w \in WebStates : Adding(w) => Adding(w)'
    BY <1>2, <1>4, <1>5, <1>6 DEF Adding, IsAdding
  <2> QED
    BY <1>1, <1>7, <1>8, <2>1, TabsStayOK DEF RequestsInv, KeepsRequests
<1>10. RequestsOK'
  BY <1>1, <1>2, <1>6, <1>8, RequestsStayOK DEF RequestsInv, KeepsRequests, KeepsPresenter
<1>11. AnswersOK'
  BY <1>1, <1>2, <1>6, <1>8, AnswersStayOK DEF RequestsInv, KeepsRequests, KeepsPresenter
<1> QED
  BY <1>6, <1>7, <1>9, <1>10, <1>11 DEF RequestsInv

LEMMA WillDetachSafe ==
  ASSUME Inv, RequestsInv, WillDetachWebStateAt
  PROVE  RequestsInv'
<1>1. /\ calls # << >> /\ arg.f = "WillDetachWebStateAt"
      /\ UNCHANGED <<phase, queues, delegate, owner, context>>
  BY DEF WillDetachWebStateAt, Running, arg, otherThanPresenter
<1>2. /\ Stack = {arg} \cup Waiting /\ Knows(arg)
      /\ \A c \in Waiting : MayPrecede(arg, c)
  BY <1>1, RunningKnows
<1>3. PICK a : a = OnWebState("WebStateRemovedFromBrowser", arg.w)
  OBVIOUS
<1>4. PICK yes \in BOOLEAN : yes
  OBVIOUS
<1>5. /\ Making(When(yes, a)) /\ a.f = "WebStateRemovedFromBrowser" /\ a.w = arg.w
  BY <1>3, <1>4, PartsOfCalls DEF WillDetachWebStateAt, When
<1>6. InOrder(calls)' /\ Stack' = {c \in {a} : yes} \cup Waiting
  <2>1. \A c \in Waiting : MayPrecede(a, c)
    BY <1>2, <1>5 DEF MayPrecede
  <2> QED
    BY <1>1, <1>5, <2>1, MakesOne
<1>7. KeepsPresenter
  BY PresenterTyped DEF WillDetachWebStateAt, KeepsPresenter, KeepsPresented, PresenterRecords
<1>8. KeepsAnswers /\ \A r \in Requests : Callback(r)' => Callback(r)
  BY <1>1 DEF KeepsAnswers, Answerable, Callback
<1>9. CallsKnow' /\ (Activating <=> Activating')
  <2>1. Activating' => Activating
    BY <1>2, <1>5, <1>6 DEF Activating
  <2>2. /\ Left(a.w)' /\ delegate'[a.w] # "other"
        /\ Activating' => presenter'.active_web_state = a.w
    BY <1>1, <1>2, <1>5, <1>7, <2>1 DEF Knows, DelegatesKnownTo, Left, KeepsPresenter
  <2>3. Knows(a)'
    BY <1>5, <2>2 DEF Knows, DelegatesKnownTo, RequestsKnownTo, IsAdding
  <2>4. PICK S : S = {c \in {a} : yes}
    OBVIOUS
  <2>5. /\ Stack' = S \cup Waiting
        /\ \A c \in S : Knows(c)' /\ c.f # "SetActiveWebState"
    BY <1>5, <1>6, <2>3, <2>4
  <2> QED
    BY <1>1, <1>8, <2>5, WaitingStillKnows
<1>10. TabsOK'
  <2>1. \A w \in WebStates : Adding(w) => Adding(w)'
    BY <1>1, <1>2, <1>6 DEF Adding, IsAdding
  <2> QED
    BY <1>1, <1>7, <1>9, <2>1, TabsStayOK DEF RequestsInv
<1>11. RequestsOK'
  BY <1>1, <1>2, <1>6, <1>7, RequestsStayOK DEF RequestsInv, KeepsPresenter
<1>12. AnswersOK'
  BY <1>1, <1>2, <1>6, <1>7, <1>8, AnswersStayOK DEF RequestsInv, KeepsPresenter
<1> QED
  BY <1>6, <1>9, <1>10, <1>11, <1>12 DEF RequestsInv

\* The presenter stays the delegate of the queue of the presented request; any
\* other queue loses it, and the UI it cancels is not shown if the active tab is
\* about to change.
LEMMA WebStateRemovedSafe ==
  ASSUME Inv, RequestsInv, WebStateRemovedFromBrowser
  PROVE  RequestsInv'
<1>1. /\ calls # << >> /\ arg.f = "WebStateRemovedFromBrowser"
      /\ UNCHANGED <<phase, queues, delegate, owner, context>>
  BY DEF WebStateRemovedFromBrowser, Running, arg, otherThanPresenter
<1>2. /\ Stack = {arg} \cup Waiting /\ Knows(arg)
      /\ \A c \in Waiting : MayPrecede(arg, c)
  BY <1>1, RunningKnows
<1>3. PICK w : w = arg.w
  OBVIOUS
<1>4. /\ Left(w) /\ w \in WebStates /\ delegate[w] # "other"
      /\ Activating => presenter.active_web_state = w
  BY <1>1, <1>2, <1>3 DEF Knows, DelegatesKnownTo, Left
<1>5. KeepsAnswers /\ \A r \in Requests : Callback(r)' => Callback(r)
  BY <1>1 DEF KeepsAnswers, Answerable, Callback
<1>6. /\ KeepsPresented /\ UNCHANGED presenter.active_web_state
      /\ presenter'.detached_queue = IF PresentsFor(w) THEN w ELSE presenter.detached_queue
  BY <1>3, PresenterTyped DEF WebStateRemovedFromBrowser, KeepsPresented, PresenterRecords
<1>7. ASSUME NEW S, Stack' = S \cup Waiting, InOrder(calls)',
             \A a \in S : a.f # "SetActiveWebState",
             \A a \in S : Knows(a)'
      PROVE  RequestsInv'
  <2>1. CallsKnow' /\ (Activating <=> Activating')
    BY <1>1, <1>5, <1>7, WaitingStillKnows
  <2>2. \A v \in WebStates : Adding(v) => Adding(v)'
    BY <1>1, <1>2, <1>7 DEF Adding, IsAdding
  <2>3. TabsOK'
    <3>1. CASE PresentsFor(w)
      <4>1. Tabs' = Tabs /\ \A v : Left(v)' = Left(v)
        BY <1>1 DEF Tabs, Left
      <4>2. /\ \A v \in Tabs' : delegate'[v] = "presenter" \/ (\E c \in Stack : IsAdding(c, v))'
            /\ \A v \in WebStates : delegate'[v] = "other" => Left(v)'
        BY <1>1, <2>2, <4>1 DEF RequestsInv, TabsOK, Adding, Tabs
      <4>3. /\ Left(presenter.detached_queue)'
            /\ presenter'.presented_request # Null
            /\ owner'[presenter'.presented_request] = presenter'.detached_queue
        BY <1>1, <1>4, <1>6, <3>1, <4>1 DEF PresentsFor, KeepsPresented
      <4>4. presenter'.active_web_state # Null =>
              \/ Activating'
              \/ /\ phase'[presenter'.active_web_state] = "tab"
                 /\ delegate'[presenter'.active_web_state] = "presenter"
        BY <1>1, <1>6, <2>1 DEF RequestsInv, TabsOK
      <4> QED
        BY <4>2, <4>3, <4>4 DEF TabsOK
    <3>2. CASE ~PresentsFor(w)
      BY <1>1, <1>6, <2>1, <2>2, <3>2, TabsStayOK DEF RequestsInv, KeepsPresenter
    <3> QED
      BY <3>1, <3>2
  <2>4. \A c \in Stack : c.f # "WebStateRemovedFromBrowser" => c \in Stack'
    BY <1>1, <1>2, <1>7
  <2>5. RequestsOK'
    BY <1>1, <1>6, <2>4, RequestsStayOK DEF RequestsInv
  <2>6. AnswersOK'
    BY <1>1, <1>5, <1>6, <2>4, AnswersStayOK DEF RequestsInv
  <2> QED
    BY <1>7, <2>1, <2>3, <2>5, <2>6 DEF RequestsInv
<1>8. CASE Returning
  <2>1. Stack' = Waiting /\ InOrder(calls)'
    BY <1>1, <1>8, MakesNone
  <2>2. PICK S : S = {}
    OBVIOUS
  <2>3. Stack' = S \cup Waiting /\ \A c : c \notin S
    BY <2>1, <2>2
  <2> QED
    BY <1>7, <2>1, <2>3
<1>9. CASE /\ ~PresentsFor(w)
           /\ Making(<<Call("SetDelegate", Null, arg.w, "none")>> \o CancelUI(FrontRequest(arg.w)))
  <2>1. PICK a : a = Call("SetDelegate", Null, w, "none")
    OBVIOUS
  <2>2. PICK front : front = FrontRequest(w)
    OBVIOUS
  <2>3. PICK b : b = OnRequest("CancelOverlayUI", front)
    OBVIOUS
  <2>4. PICK yes \in BOOLEAN : yes
    OBVIOUS
  <2>5. PICK also \in BOOLEAN : also <=> presenter.has_context /\ front # Null
    OBVIOUS
  <2>6. Making(When(yes, a) \o When(also, b))
    BY <1>3, <1>9, <2>1, <2>2, <2>3, <2>4, <2>5 DEF CancelUI, When
  <2>7. /\ a.f = "SetDelegate" /\ a.x = "none" /\ a.w = w
        /\ b.f = "CancelOverlayUI" /\ b.r = front
    BY <2>1, <2>3, PartsOfCalls
  <2>8. /\ InOrder(calls)'
        /\ Stack' = {c \in {a} : yes} \cup {c \in {b} : also} \cup Waiting
    <3>1. \A c \in Waiting : MayPrecede(a, c) /\ MayPrecede(b, c)
      BY <1>1, <1>2, <2>7 DEF MayPrecede
    <3>2. MayPrecede(a, b)
      BY <2>7 DEF MayPrecede
    <3> QED
      BY <1>1, <2>6, <3>1, <3>2, MakesTwo
  <2>9. Knows(a)'
    <3>1. ~Holds(w, presenter.presented_request)
      BY <1>4, <1>9, HolderIsOwner DEF PresentsFor
    <3>2. /\ Left(w)' /\ delegate'[w] # "other"
          /\ ~Holds(w, presenter.presented_request)'
      BY <1>1, <1>4, <1>6, <3>1 DEF Left, Holds, KeepsPresented
    <3> QED
      BY <2>7, <3>2 DEF Knows, DelegatesKnownTo, RequestsKnownTo, IsAdding
  <2>10. ASSUME also PROVE Knows(b)'
    <3>1. Activating' => Activating
      BY <1>2, <2>7, <2>8 DEF Activating
    <3>2. ASSUME Activating PROVE ~Callback(front)
      <4>1. front \in Requests /\ owner[front] = w /\ presenter.has_context
        BY <1>4, <2>2, <2>5, <2>10, FrontRequestOwner
      <4>2. SUFFICES ASSUME Callback(front) PROVE FALSE
        OBVIOUS
      <4>3. context.request = front /\ IsShowingOverlayUI
        BY <4>1, <4>2, NullAssumption DEF Inv, ContextOK, IsShowingOverlayUI, HasState, Callback
      <4>4. presenter.presenting
        BY <4>1, <4>3 DEF Inv, PresenterOK
      <4>5. ~presenter.queue_replaced_delegate
        BY <1>4, <3>2, <4>1, <4>3 DEF Inv, PresenterOK
      <4>6. \A c \in Stack : c.f # "ShowOverlayUI"
        BY <1>1, <1>2, NothingUnderWay
      <4>7. presenter.presented_request = front
        BY <4>1, <4>3, <4>4, <4>5, <4>6 DEF Inv, PresenterOK
      <4> QED
        BY <1>9, <4>1, <4>7, NullAssumption DEF PresentsFor
    <3>3. Activating' => ~Callback(b.r)'
      BY <1>1, <2>7, <3>1, <3>2 DEF Callback
    <3> QED
      BY <2>7, <3>3 DEF Knows, DelegatesKnownTo, RequestsKnownTo, IsAdding
  <2>11. PICK S : S = {c \in {a} : yes} \cup {c \in {b} : also}
    OBVIOUS
  <2>12. /\ Stack' = S \cup Waiting
         /\ \A c \in S : Knows(c)' /\ c.f # "SetActiveWebState"
    BY <2>7, <2>8, <2>9, <2>10, <2>11
  <2> QED
    BY <1>7, <2>8, <2>12
<1> QED
  BY <1>3, <1>8, <1>9 DEF WebStateRemovedFromBrowser

----------------------------------------------------------------------------
(* The calls of the queues.                                                *)

\* A request that is inserted in front of the presented one hides its UI.
LEMMA RequestAddedSafe ==
  ASSUME Inv, RequestsInv, RequestAddedToQueue
  PROVE  RequestsInv'
<1>1. /\ calls # << >> /\ arg.f = "RequestAddedToQueue" /\ arg.f \notin Preceders
      /\ UNCHANGED <<phase, queues, delegate, owner, presenter, context>>
  BY DEF RequestAddedToQueue, Running, arg, otherThanPresenter, Preceders
<1>2. Stack = {arg} \cup Waiting
  BY <1>1, RunningKnows
<1>3. PICK before \in BOOLEAN :
        before <=> /\ presenter.presented_request # Null
                   /\ Len(queues[arg.w]) > 1
                   /\ queues[arg.w][2] = presenter.presented_request
  OBVIOUS
<1>4. PICK a : a = IF ~presenter.presenting THEN Do("PresentOverlayForActiveRequest")
                   ELSE OnRequest("HideOverlayUI", presenter.presented_request)
  OBVIOUS
<1>5. PICK test \in BOOLEAN :
        test <=> arg.r = ActiveRequest /\ (presenter.presenting => before)
  OBVIOUS
<1>6. Making(When(test, a))
  BY <1>3, <1>4, <1>5 DEF RequestAddedToQueue, When
<1>7. a.f \in Undemanding
  BY <1>4, PartsOfCalls DEF Undemanding
<1>8. PICK no \in BOOLEAN : ~no
  OBVIOUS
<1>9. /\ InOrder(calls)' /\ CallsKnow' /\ ~Activating'
      /\ Stack' = {c \in {a} : test} \cup Waiting
  <2>1. /\ InOrder(calls)' /\ CallsKnow' /\ ~Activating'
        /\ Stack' = {c \in {a} : test} \cup {c \in {a} : no} \cup Waiting
    BY <1>1, <1>6, <1>7, <1>8, CallsOfNoConsequence
  <2> QED
    BY <1>8, <2>1
<1>10. KeepsRequests
  BY <1>1, RequestsUntouched
<1>11. \A c \in Stack : c.f # "RequestAddedToQueue" => c \in Stack'
  BY <1>1, <1>2, <1>9
<1>12. TabsOK'
  <2>1. \A w \in WebStates : Adding(w) => Adding(w)'
    BY <1>11 DEF Adding, IsAdding
  <2>2. Activating => Activating'
    BY <1>11 DEF Activating
  <2> QED
    BY <1>1, <1>10, <2>1, <2>2, TabsStayOK DEF RequestsInv, KeepsRequests
<1>13. RequestsOK'
  BY <1>1, <1>10, <1>11, RequestsStayOK DEF RequestsInv, KeepsRequests, KeepsPresenter
<1>14. ASSUME NEW r \in Requests, r = presenter'.presented_request, Answerable(r)'
       PROVE  /\ context'.states[r].queue = owner'[r]
              /\ InFront(r)' \/ (\E c \in Stack : TakesBack(c, r))'
  <2>1. Answerable(r) /\ r = presenter.presented_request /\ r # Null
    BY <1>1, <1>14, NullAssumption DEF Answerable, Callback
  <2>2. /\ context'.states[r].queue = owner'[r]
        /\ InFront(r) \/ \E c \in Stack : TakesBack(c, r)
    BY <1>1, <2>1 DEF RequestsInv, AnswersOK
  <2>3. presenter.presenting
    BY <2>1 DEF Inv, PresenterOK
  <2>4. CASE InFront(r)
    BY <1>1, <2>2, <2>4, SameFront DEF InFront
  <2>5. ASSUME NEW c \in Waiting, TakesBack(c, r) PROVE c \in Stack' /\ TakesBack(c, r)'
    <3>1. MayPrecede(arg, c) /\ c.f # "RequestAddedToQueue"
      BY <1>1, RunningKnows DEF MayPrecede
    <3> QED
      BY <1>9, <2>5, <3>1 DEF TakesBack
  <2>6. CASE TakesBack(arg, r)
    <3>1. /\ arg.r = ActiveRequest /\ Len(queues[arg.w]) > 1 /\ queues[arg.w][2] = r
      BY <1>1, <2>6 DEF TakesBack
    <3>2. a \in Stack' /\ a.f = "HideOverlayUI"
      BY <1>3, <1>4, <1>5, <1>9, <2>1, <2>3, <3>1, PartsOfCalls
    <3> QED
      BY <2>2, <3>2 DEF TakesBack
  <2> QED
    BY <1>2, <2>2, <2>4, <2>5, <2>6
<1> QED
  BY <1>9, <1>12, <1>13, <1>14 DEF RequestsInv, AnswersOK

\* The presented request is kept when it is removed, any other destroyed.
LEMMA OverlayRequestRemovedSafe ==
  ASSUME Inv, RequestsInv, OverlayRequestRemoved
  PROVE  RequestsInv'
<1>1. /\ Running("OverlayRequestRemoved") /\ calls # << >>
      /\ arg.f = "OverlayRequestRemoved" /\ arg.f \notin Preceders
      /\ UNCHANGED <<phase, queues, delegate, owner, context>>
  BY DEF OverlayRequestRemoved, Running, arg, otherThanPresenter, Preceders
<1>2. Stack = {arg} \cup Waiting /\ Knows(arg)
  BY <1>1, RunningKnows
<1>3. PICK q, w : q = arg.r /\ w = arg.w
  OBVIOUS
<1>4. /\ q \in Requests /\ q # Null /\ w \in WebStates /\ owner[q] = w /\ ~Held(q)
  <2>1. /\ q \in Requests \cup {Null} /\ w \in WebStates \cup {Null}
        /\ \A v \in WebStates : \A i \in 1..Len(queues[v]) : queues[v][i] # q
    BY <1>1, <1>3, RunningFacts DEF CallOK, QueuesKnownTo
  <2>2. q # Null /\ w # Null /\ owner[q] = w
    BY <1>1, <1>2, <1>3 DEF Knows, RequestsKnownTo
  <2> QED
    BY <2>1, <2>2 DEF Held, Holds
<1>5. PICK kept \in BOOLEAN : kept <=> presenter.presented_request = q
  OBVIOUS
<1>6. PICK detached \in BOOLEAN : detached <=> kept /\ presenter.detached_queue # Null
  OBVIOUS
<1>7. PICK also \in BOOLEAN : also <=> arg.x = "cancelled" /\ presenter.has_context
  OBVIOUS
<1>8. PICK last \in BOOLEAN : last <=> ~kept
  OBVIOUS
<1>9. /\ presenter'.removed_request = IF kept THEN q ELSE presenter.removed_request
      /\ presenter'.detached_queue = IF detached THEN Null ELSE presenter.detached_queue
      /\ UNCHANGED presenter.has_context /\ UNCHANGED presenter.presented_request
      /\ UNCHANGED presenter.previously_presented /\ UNCHANGED presenter.active_web_state
  BY <1>3, <1>5, <1>6, PresenterTyped DEF OverlayRequestRemoved, PresenterRecords
<1>10. kept => /\ presenter.has_context
               /\ presenter.removed_request # Null => presenter.removed_request = q
  <2>1. kept => presenter.has_context
    BY <1>4, <1>5 DEF Inv, PresenterOK
  <2> QED
    BY <1>5, <2>1 DEF RequestsInv, RequestsOK
<1>11. PICK a : a = Call("SetDelegate", Null, w, "none")
  OBVIOUS
<1>12. PICK b : b = OnRequest("CancelOverlayUI", q)
  OBVIOUS
<1>13. PICK d : d = OnRequest("DestroyRequest", q)
  OBVIOUS
<1>14. Making(When(detached, a) \o When(also, b) \o When(last, d))
  <2>1. When(also, b) = IF arg.x = "cancelled" THEN CancelUI(arg.r) ELSE << >>
    BY <1>3, <1>4, <1>7, <1>12 DEF CancelUI, When
  <2>2. /\ When(detached, a) = When(/\ presenter.presented_request = arg.r
                                    /\ presenter.detached_queue # Null,
                                    Call("SetDelegate", Null, arg.w, "none"))
        /\ When(last, d) = When(~(presenter.presented_request = arg.r),
                                OnRequest("DestroyRequest", arg.r))
    BY <1>3, <1>5, <1>6, <1>8, <1>11, <1>13 DEF When
  <2> QED
    BY <2>1, <2>2 DEF OverlayRequestRemoved
<1>15. /\ a.f = "SetDelegate" /\ a.x = "none" /\ a.w = w
       /\ b.f = "CancelOverlayUI" /\ b.r = q /\ d.f = "DestroyRequest" /\ d.r = q
       /\ b.f \in Undemanding /\ d.f \in Undemanding
  BY <1>11, <1>12, <1>13, PartsOfCalls DEF Undemanding
<1>16. /\ InOrder(calls)'
       /\ Stack' = {c \in {a} : detached} \cup {c \in {b} : also} \cup {c \in {d} : last}
                     \cup Waiting
       /\ ~Activating /\ ~Activating'
  <2>1. \A c \in Waiting : /\ MayPrecede(a, c) /\ MayPrecede(b, c) /\ MayPrecede(d, c)
                           /\ c.f # "SetActiveWebState"
    BY <1>1, <1>15, NotActivating
  <2>2. MayPrecede(a, b) /\ MayPrecede(a, d) /\ MayPrecede(b, d)
    BY <1>15, UndemandingCalls
  <2>3. /\ InOrder(calls)'
        /\ Stack' = {c \in {a} : detached} \cup {c \in {b} : also} \cup {c \in {d} : last}
                      \cup Waiting
    BY <1>1, <1>14, <2>1, <2>2, MakesThree
  <2> QED
    BY <1>1, <1>2, <1>15, <2>1, <2>3 DEF Activating
<1>17. CallsKnow'
  <2>1. ASSUME detached PROVE Knows(a)'
    <3>1. presenter.detached_queue = w /\ Left(w)
      BY <1>4, <1>5, <1>6, <2>1 DEF RequestsInv, TabsOK
    <3>2. ~Holds(w, q)
      BY <1>4 DEF Held
    <3>3. delegate[w] = "presenter"
      BY <1>1, <1>2, <1>3 DEF Knows, RequestsKnownTo
    <3>4. /\ Left(w)' /\ delegate'[w] # "other"
          /\ ~Holds(w, presenter.presented_request)'
      BY <1>1, <1>5, <1>6, <1>9, <2>1, <3>1, <3>2, <3>3 DEF Left, Holds
    <3> QED
      BY <1>15, <3>4 DEF Knows, DelegatesKnownTo, RequestsKnownTo, IsAdding
  <2>2. Knows(b)' /\ Knows(d)'
    BY <1>15, <1>16, UndemandingCalls, UndemandingKnows
  <2>3. \A c \in Stack' : c.f = "SetActiveWebState" => c \in Stack
    BY <1>2, <1>15, <1>16
  <2>4. \A c \in Waiting : Knows(c)'
    BY <1>1, <1>16, <2>3, WaitingKnows
  <2> QED
    BY <1>16, <2>1, <2>2, <2>4 DEF CallsKnow
<1>18. \A c \in Stack : c # arg => c \in Stack'
  BY <1>2, <1>16
<1>19. TabsOK'
  <2>1. Tabs' = Tabs /\ \A v : Left(v)' = Left(v)
    BY <1>1 DEF Tabs, Left
  <2>2. /\ \A v \in Tabs' : delegate'[v] = "presenter" \/ (\E c \in Stack : IsAdding(c, v))'
        /\ \A v \in WebStates : delegate'[v] = "other" => Left(v)'
    BY <1>1, <1>18, <2>1 DEF RequestsInv, TabsOK, IsAdding
  <2>3. presenter'.active_web_state # Null =>
          /\ phase'[presenter'.active_web_state] = "tab"
          /\ delegate'[presenter'.active_web_state] = "presenter"
    BY <1>1, <1>9, ActiveIsTab
  <2>4. presenter'.detached_queue # Null =>
          /\ Left(presenter.detached_queue)'
          /\ presenter'.presented_request # Null =>
               owner'[presenter'.presented_request] = presenter'.detached_queue
          /\ presenter'.has_context => presenter'.presented_request # Null
    BY <1>1, <1>9, <2>1 DEF RequestsInv, TabsOK
  <2> QED
    BY <2>2, <2>3, <2>4 DEF TabsOK
<1>20. RequestsOK'
  <2>1. \A r : r # Null /\ Alive(r) => Alive(r)'
    BY <1>1, <1>4, <1>9, <1>10, SameHolds DEF Alive
  <2>2. kept => Alive(q)'
    BY <1>9 DEF Alive
  <2>3. ASSUME NEW r \in presenter'.previously_presented
        PROVE  Alive(r)' \/ (\E c \in Stack : IsRemoval(c, r) \/ IsEnd(c, r))'
    <3>1. Alive(r) \/ \E c \in Stack : IsRemoval(c, r) \/ IsEnd(c, r)
      BY <1>9 DEF RequestsInv, RequestsOK
    <3>2. CASE \E c \in Stack : c # arg /\ (IsRemoval(c, r) \/ IsEnd(c, r))
      BY <1>18, <3>2 DEF IsRemoval, IsEnd
    <3>3. CASE r = q
      BY <1>8, <1>15, <1>16, <2>2, <3>3 DEF IsEnd
    <3>4. r # Null
      BY <1>9, PresenterTyped, NullAssumption
    <3> QED
      BY <1>1, <1>3, <2>1, <3>1, <3>2, <3>3, <3>4 DEF IsRemoval, IsEnd
  <2>4. presenter'.presented_request # Null =>
          \/ Alive(presenter.presented_request)'
          \/ (\E c \in Stack : IsRemoval(c, presenter.presented_request))'
          \/ Moved(presenter.presented_request)'
    <3>1. PICK p : p = presenter.presented_request
      OBVIOUS
    <3>2. p # Null => Alive(p) \/ Moved(p) \/ \E c \in Stack : IsRemoval(c, p)
      BY <3>1 DEF RequestsInv, RequestsOK
    <3>3. p # Null => Alive(p)' \/ Moved(p)' \/ (\E c \in Stack : IsRemoval(c, p))'
      BY <1>1, <1>3, <1>5, <1>18, <2>1, <2>2, <3>1, <3>2 DEF IsRemoval, Moved
    <3> QED
      BY <1>9, <3>1, <3>3 DEF Alive, Holders, IsRemoval, Moved
  <2>5. presenter'.removed_request # Null =>
          /\ ~Held(presenter.removed_request)' /\ owner'[presenter'.removed_request] # Null
          /\ presenter'.has_context
               => presenter'.removed_request = presenter'.presented_request
    <3>1. CASE kept
      BY <1>1, <1>4, <1>5, <1>9, <3>1, NullAssumption DEF Held, Holds
    <3>2. CASE ~kept
      BY <1>1, <1>9, <3>2 DEF RequestsInv, RequestsOK, Held, Holds
    <3> QED
      BY <3>1, <3>2
  <2>6. \A v \in WebStates : Holds(v, presenter.presented_request)' => delegate'[v] # "none"
    BY <1>1, <1>9 DEF RequestsInv, RequestsOK, Holds
  <2> QED
    BY <2>3, <2>4, <2>5, <2>6 DEF RequestsOK
<1>21. ASSUME NEW r \in Requests, r = presenter'.presented_request, Answerable(r)'
       PROVE  /\ context'.states[r].queue = owner'[r]
              /\ InFront(r)' \/ (\E c \in Stack : TakesBack(c, r))'
  <2>1. Answerable(r) /\ r = presenter.presented_request /\ r # Null
    BY <1>1, <1>9, <1>21, NullAssumption DEF Answerable, Callback
  <2>2. /\ context'.states[r].queue = owner'[r]
        /\ InFront(r) \/ \E c \in Stack : TakesBack(c, r)
    BY <1>1, <2>1 DEF RequestsInv, AnswersOK
  <2>3. CASE InFront(r)
    <3>1. presenter.removed_request = r => presenter'.removed_request = r
      BY <1>5, <1>9, <2>1
    <3>2. InFront(r)'
      BY <1>1, <1>9, <2>3, <3>1, SameFront DEF InFront
    <3> QED
      BY <2>2, <3>2
  <2>4. ASSUME NEW c \in Waiting, TakesBack(c, r) PROVE c \in Stack' /\ TakesBack(c, r)'
    <3>1. MayPrecede(arg, c) /\ c.f # "RequestAddedToQueue"
      BY <1>1, RunningKnows DEF MayPrecede
    <3> QED
      BY <1>16, <2>4, <3>1 DEF TakesBack
  <2>5. CASE TakesBack(arg, r)
    <3>1. r = q /\ arg.x = "cancelled"
      BY <1>1, <1>3, <2>5 DEF TakesBack
    <3>2. b \in Stack'
      BY <1>5, <1>7, <1>10, <1>16, <2>1, <3>1
    <3> QED
      BY <1>15, <2>2, <3>1, <3>2 DEF TakesBack
  <2> QED
    BY <1>2, <2>2, <2>3, <2>4, <2>5
<1> QED
  BY <1>16, <1>17, <1>19, <1>20, <1>21 DEF RequestsInv, AnswersOK

\* The queue of the presented request goes to another presenter.
LEMMA QueueWillReplaceDelegateSafe ==
  ASSUME Inv, RequestsInv, QueueWillReplaceDelegate
  PROVE  RequestsInv'
<1>1. /\ calls # << >> /\ arg.f = "QueueWillReplaceDelegate" /\ Returning
      /\ UNCHANGED <<phase, queues, delegate, owner, context>>
  BY DEF QueueWillReplaceDelegate, Running, arg, otherThanPresenter
<1>2. Stack = {arg} \cup Waiting /\ Stack' = Waiting /\ InOrder(calls)'
  BY <1>1, RunningKnows, MakesNone
<1>3. \A r \in Requests : Callback(r)' => Callback(r)
  BY <1>1 DEF Callback
<1>4. CallsKnow' /\ (Activating <=> Activating')
  <2>1. PICK S : S = {}
    OBVIOUS
  <2>2. Stack' = S \cup Waiting /\ \A c : c \notin S
    BY <1>2, <2>1
  <2> QED
    BY <1>1, <1>3, <2>2, WaitingStillKnows
<1>5. /\ \A w \in WebStates : Adding(w) => Adding(w)'
      /\ \A c \in Stack : c.f # "QueueWillReplaceDelegate" => c \in Stack'
  BY <1>1, <1>2 DEF Adding, IsAdding
<1>6. CASE UNCHANGED presenter
  <2>1. KeepsRequests
    BY <1>1, <1>6, RequestsUntouched
  <2>2. TabsOK' /\ RequestsOK' /\ AnswersOK'
    BY <1>5, <2>1, StateStaysOK DEF Relied
  <2> QED
    BY <1>2, <1>4, <2>2 DEF RequestsInv
<1>7. CASE /\ presenter.presented_request # Null
           /\ presenter.presented_request = FrontRequest(arg.w)
           /\ presenter' = [presenter EXCEPT !.presented_request = Null,
                                             !.detached_queue = Null,
                                             !.queue_replaced_delegate = TRUE]
  <2>1. /\ presenter'.presented_request = Null /\ presenter'.detached_queue = Null
        /\ UNCHANGED presenter.has_context /\ UNCHANGED presenter.active_web_state
        /\ UNCHANGED presenter.removed_request /\ UNCHANGED presenter.previously_presented
    BY <1>7, PresenterTyped DEF PresenterRecords
  <2>2. presenter.has_context
    BY <1>7 DEF Inv, PresenterOK
  <2>3. Held(presenter.presented_request)
    <3>1. arg.w \in WebStates
      BY <1>7, RunningFacts DEF QueueWillReplaceDelegate, FrontRequest
    <3> QED
      BY <1>7, <3>1, FrontIsHeld
  <2>4. presenter.removed_request = Null
    BY <2>2, <2>3 DEF RequestsInv, RequestsOK
  <2>5. TabsOK'
    BY <1>1, <1>4, <1>5, <2>1, TabsOKNotDetached DEF RequestsInv
  <2>6. RequestsOK'
    <3>1. \A r : Alive(r) => Alive(r)'
      BY <1>1, <2>1, SameHolds DEF Alive
    <3>2. \A r \in presenter'.previously_presented :
            Alive(r)' \/ (\E c \in Stack : IsRemoval(c, r) \/ IsEnd(c, r))'
      BY <1>5, <2>1, <3>1 DEF RequestsInv, RequestsOK, IsRemoval, IsEnd
    <3>3. \A w \in WebStates : ~Holds(w, presenter.presented_request)'
      BY <1>1, <2>1, NullNotHeld DEF Holds
    <3> QED
      BY <2>1, <2>4, <3>2, <3>3 DEF RequestsOK
  <2>7. AnswersOK'
    BY <2>1, NullAssumption DEF AnswersOK
  <2> QED
    BY <1>2, <1>4, <2>5, <2>6, <2>7 DEF RequestsInv
<1> QED
  BY <1>6, <1>7 DEF QueueWillReplaceDelegate

\* What is held when a request has been removed from the queue of w.
LEMMA HeldAfterRemoval ==
  ASSUME Inv, NEW w \in WebStates, NEW index, Removes(w, index),
         NEW q, q = queues[w][index]
  PROVE  /\ \A v \in WebStates : \A r : Holds(v, r)' <=> Holds(v, r) /\ r # q
         /\ \A r : Held(r)' <=> Held(r) /\ r # q
         /\ \A v \in WebStates : FrontRequest(v) \notin {Null, q} =>
                                   FrontRequest(v)' = FrontRequest(v)
         /\ \A v \in WebStates : v # w => FrontRequest(v)' = FrontRequest(v)
<1>1. /\ queues \in [WebStates -> Seq(Requests)] /\ index \in 1..Len(queues[w])
      /\ queues' = [queues EXCEPT ![w] = RemoveAt(queues[w], index)]
  BY DEF Inv, Types, Removes
<1>2. queues[w] \in Seq(Requests) /\ Len(queues[w]) \in Nat
  BY <1>1
<1> DEFINE s == queues[w]
           t == RemoveAt(s, index)
<1>3. /\ t \in Seq(Requests) /\ Len(t) = Len(s) - 1
      /\ \A j \in 1..(Len(s) - 1) : t[j] = IF j < index THEN s[j] ELSE s[j + 1]
  BY <1>1, <1>2, RemoveAtPositions
<1>4. queues'[w] = t /\ \A v \in WebStates : v # w => queues'[v] = queues[v]
  BY <1>1
<1>5. \A v \in WebStates : \A i \in 1..Len(queues'[v]) : queues'[v][i] # q
  BY RemovedFromQueue
<1> HIDE DEF t
<1>6. ASSUME NEW v \in WebStates, NEW r, Holds(v, r)' PROVE Holds(v, r) /\ r # q
  <2>1. r # q
    BY <1>5, <1>6 DEF Holds
  <2>2. CASE v # w
    BY <1>4, <1>6, <2>1, <2>2 DEF Holds
  <2>3. CASE v = w
    <3>1. PICK i \in 1..Len(t) : t[i] = r
      BY <1>4, <1>6, <2>3 DEF Holds
    <3>2. \E k \in 1..Len(s) : s[k] = r
      <4>1. CASE i < index
        BY <1>1, <1>2, <1>3, <3>1, <4>1
      <4>2. CASE i >= index
        <5>1. i + 1 \in 1..Len(s) /\ s[i + 1] = r
          BY <1>1, <1>2, <1>3, <3>1, <4>2
        <5> QED
          BY <5>1
      <4> QED
        BY <1>1, <1>2, <1>3, <3>1, <4>1, <4>2
    <3> QED
      BY <2>1, <2>3, <3>2 DEF Holds
  <2> QED
    BY <2>2, <2>3
<1>7. ASSUME NEW v \in WebStates, NEW r, Holds(v, r), r # q PROVE Holds(v, r)'
  <2>1. CASE v # w
    BY <1>4, <1>7, <2>1 DEF Holds
  <2>2. CASE v = w
    <3>1. PICK k \in 1..Len(s) : s[k] = r /\ k # index
      BY <1>7, <2>2 DEF Holds
    <3>2. \E i \in 1..Len(t) : t[i] = r
      <4>1. CASE k < index
        <5>1. k \in 1..Len(t) /\ t[k] = r
          BY <1>1, <1>2, <1>3, <3>1, <4>1, SMTT(30)
        <5> QED
          BY <5>1
      <4>2. CASE k > index
        <5>1. k - 1 \in 1..Len(t) /\ t[k - 1] = r
          BY <1>1, <1>2, <1>3, <3>1, <4>2
        <5> QED
          BY <5>1
      <4> QED
        BY <1>1, <1>2, <3>1, <4>1, <4>2
    <3> QED
      BY <1>4, <2>2, <3>2 DEF Holds
  <2> QED
    BY <2>1, <2>2
<1>8. \A r : Held(r)' <=> Held(r) /\ r # q
  BY <1>6, <1>7 DEF Held
<1>9. ASSUME NEW v \in WebStates, v # w PROVE FrontRequest(v)' = FrontRequest(v)
  BY <1>4, <1>9 DEF FrontRequest
<1>10. ASSUME FrontRequest(w) \notin {Null, q} PROVE FrontRequest(w)' = FrontRequest(w)
  <2>1. FrontRequest(w) = s[1] /\ s # << >> /\ w # Null
    BY <1>10, NullAssumption DEF FrontRequest
  <2>2. index > 1
    BY <1>1, <1>2, <1>10, <2>1
  <2>3. 1 \in 1..Len(t) /\ t[1] = s[1]
    BY <1>1, <1>2, <1>3, <2>2
  <2>4. t # << >>
    BY <1>3, <2>3, EmptySeq
  <2> QED
    BY <1>4, <2>1, <2>3, <2>4 DEF FrontRequest
<1> QED
  BY <1>6, <1>7, <1>8, <1>9, <1>10

\* The presenter is told of the removal of the presented request, unless
\* another presenter is.
LEMMA RemoveRequestSafe ==
  ASSUME Inv, RequestsInv, RemoveRequest
  PROVE  RequestsInv'
<1>1. /\ Running("RemoveRequest") /\ calls # << >>
      /\ arg.f = "RemoveRequest" /\ arg.f \notin Preceders
      /\ UNCHANGED <<phase, delegate, owner, presenter, context>>
  BY DEF RemoveRequest, Running, arg, otherThanQueues, Preceders
<1>2. Stack = {arg} \cup Waiting /\ Knows(arg)
  BY <1>1, RunningKnows
<1>3. PICK q, w : q = arg.r /\ w = arg.w
  OBVIOUS
<1>4. PICK index \in 1..Len(queues[w]) :
        /\ queues[w][index] = q
        /\ queues' = [queues EXCEPT ![w] = RemoveAt(queues[w], index)]
  BY <1>3 DEF RemoveRequest
<1>5. /\ q \in Requests /\ q # Null /\ w \in WebStates /\ w # Null /\ owner[q] = w
      /\ arg.x \in {"popped", "cancelled"}
      /\ arg.x = "popped" => q = presenter.presented_request /\ ~Callback(q)
  <2>1. q \in Requests \cup {Null} /\ w \in WebStates \cup {Null}
    BY <1>1, <1>3, RunningFacts
  <2> QED
    BY <1>1, <1>2, <1>3, <2>1 DEF Knows, RequestsKnownTo
<1>6. /\ \A v \in WebStates : \A r : Holds(v, r)' <=> Holds(v, r) /\ r # q
      /\ \A r : Held(r)' <=> Held(r) /\ r # q
      /\ \A v \in WebStates : FrontRequest(v) \notin {Null, q} =>
                                FrontRequest(v)' = FrontRequest(v)
      /\ \A v \in WebStates : v # w => FrontRequest(v)' = FrontRequest(v)
  BY <1>1, <1>4, <1>5, HeldAfterRemoval, ZenonT(30) DEF Removes
<1>7. q = presenter.presented_request => delegate[w] \in {"presenter", "other"}
  <2>1. Holds(w, q)
    BY <1>4 DEF Holds
  <2>2. delegate[w] \in Delegates
    BY <1>5 DEF Inv, Types
  <2> QED
    BY <1>5, <2>1, <2>2 DEF RequestsInv, RequestsOK, Delegates
<1>8. PICK a : a = IF delegate[w] = "presenter"
                   THEN Call("OverlayRequestRemoved", q, w, arg.x)
                   ELSE OnRequest("DestroyRequest", q)
  OBVIOUS
<1>9. PICK yes \in BOOLEAN : yes
  OBVIOUS
<1>10. Making(When(yes, a))
  BY <1>3, <1>8, <1>9 DEF RemoveRequest, When
<1>11. /\ delegate[w] = "presenter" => /\ a.f = "OverlayRequestRemoved"
                                       /\ a.w = w /\ a.x = arg.x
       /\ delegate[w] # "presenter" => a.f = "DestroyRequest"
       /\ a.r = q /\ a.f # "SetActiveWebState"
  BY <1>8, PartsOfCalls
<1>12. /\ InOrder(calls)' /\ Stack' = {c \in {a} : yes} \cup Waiting /\ a \in Stack'
       /\ ~Activating /\ ~Activating'
  <2>1. \A c \in Waiting : c.f # "SetActiveWebState" /\ MayPrecede(a, c)
    BY <1>1, <1>11, NotActivating
  <2>2. InOrder(calls)' /\ Stack' = {c \in {a} : yes} \cup Waiting
    BY <1>1, <1>10, <2>1, MakesOne
  <2> QED
    BY <1>1, <1>2, <1>9, <1>11, <2>1, <2>2 DEF Activating
<1>13. CallsKnow'
  <2>1. Knows(a)'
    <3>1. CASE delegate[w] = "presenter"
      <4>1. a.x = "popped" => a.r = presenter'.presented_request /\ ~Callback(a.r)'
        BY <1>1, <1>5, <1>11, <3>1 DEF Callback
      <4>2. /\ a.r # Null /\ a.w # Null /\ owner'[a.r] = a.w /\ a.x \in {"popped", "cancelled"}
            /\ delegate'[a.w] = "presenter"
        BY <1>1, <1>5, <1>11, <3>1
      <4> QED
        BY <1>11, <3>1, <4>1, <4>2 DEF Knows, DelegatesKnownTo, RequestsKnownTo, IsAdding
    <3>2. CASE delegate[w] # "presenter"
      BY <1>11, <3>2 DEF Knows, DelegatesKnownTo, RequestsKnownTo, IsAdding
    <3> QED
      BY <3>1, <3>2
  <2>2. \A c \in Stack' : c.f = "SetActiveWebState" => c \in Stack
    BY <1>2, <1>11, <1>12
  <2>3. \A c \in Waiting : Knows(c)'
    BY <1>1, <1>12, <2>2, WaitingKnows
  <2> QED
    BY <1>12, <2>1, <2>3 DEF CallsKnow
<1>14. KeepsPresenter /\ \A c \in Stack : c.f # "RemoveRequest" => c \in Stack'
  BY <1>1, <1>2, <1>12 DEF KeepsPresenter, KeepsPresented
<1>15. TabsOK'
  <2>1. \A v \in WebStates : Adding(v) => Adding(v)'
    BY <1>14 DEF Adding, IsAdding
  <2> QED
    BY <1>1, <1>12, <1>14, <2>1, TabsStayOK DEF RequestsInv
<1>16. RequestsOK'
  <2>1. \A r : r # q /\ Alive(r) => Alive(r)'
    <3>1. \A r : Alive(r) <=> Held(r) \/ presenter.removed_request = r
      BY HoldersHold DEF Alive
    <3>2. \A r : Held(r)' \/ presenter'.removed_request = r => Alive(r)'
      BY DEF Alive, Holders, Held, Holds
    <3> QED
      BY <1>1, <1>6, <3>1, <3>2
  <2>2. ASSUME NEW r \in presenter'.previously_presented
        PROVE  Alive(r)' \/ (\E c \in Stack : IsRemoval(c, r) \/ IsEnd(c, r))'
    <3>1. CASE r = q
      BY <1>11, <1>12, <3>1 DEF IsRemoval, IsEnd
    <3>2. CASE r # q
      <4>1. Alive(r) \/ \E c \in Stack : IsRemoval(c, r) \/ IsEnd(c, r)
        BY <1>1 DEF RequestsInv, RequestsOK
      <4> QED
        BY <1>14, <2>1, <3>2, <4>1 DEF IsRemoval, IsEnd
    <3> QED
      BY <3>1, <3>2
  <2>3. PICK p : p = presenter.presented_request
    OBVIOUS
  <2>4. p # Null => Alive(p)' \/ Moved(p)' \/ (\E c \in Stack : IsRemoval(c, p))'
    <3>1. CASE p = q
      BY <1>1, <1>5, <1>7, <1>11, <1>12, <2>3, <3>1 DEF IsRemoval, Moved
    <3>2. CASE p # q
      <4>1. p # Null => Alive(p) \/ Moved(p) \/ \E c \in Stack : IsRemoval(c, p)
        BY <2>3 DEF RequestsInv, RequestsOK
      <4> QED
        BY <1>1, <1>14, <2>1, <3>2, <4>1 DEF IsRemoval, Moved
    <3> QED
      BY <3>1, <3>2
  <2>5. presenter'.presented_request # Null =>
          \/ Alive(presenter.presented_request)'
          \/ (\E c \in Stack : IsRemoval(c, presenter.presented_request))'
          \/ Moved(presenter.presented_request)'
    BY <1>1, <2>3, <2>4 DEF Alive, Holders, IsRemoval, Moved
  <2>6. PICK removed : removed = presenter.removed_request
    OBVIOUS
  <2>7. removed # Null => ~Held(removed)'
    BY <1>6, <2>6 DEF RequestsInv, RequestsOK
  <2>8. presenter'.removed_request # Null =>
          /\ ~Held(presenter.removed_request)' /\ owner'[presenter'.removed_request] # Null
          /\ presenter'.has_context
               => presenter'.removed_request = presenter'.presented_request
    BY <1>1, <2>6, <2>7 DEF RequestsInv, RequestsOK, Held, Holds
  <2>9. \A v \in WebStates : Holds(v, p)' => delegate'[v] # "none"
    BY <1>1, <1>6, <2>3 DEF RequestsInv, RequestsOK
  <2>10. \A v \in WebStates : Holds(v, presenter.presented_request)' => delegate'[v] # "none"
    BY <1>1, <2>3, <2>9 DEF Holds
  <2> QED
    BY <2>2, <2>5, <2>8, <2>10 DEF RequestsOK
<1>17. ASSUME NEW r \in Requests, r = presenter'.presented_request, Answerable(r)'
       PROVE  /\ context'.states[r].queue = owner'[r]
              /\ InFront(r)' \/ (\E c \in Stack : TakesBack(c, r))'
  <2>1. Answerable(r) /\ r = presenter.presented_request /\ r # Null
    BY <1>1, <1>17, NullAssumption DEF Answerable, Callback
  <2>2. /\ context'.states[r].queue = owner'[r]
        /\ InFront(r) \/ \E c \in Stack : TakesBack(c, r)
    BY <1>1, <2>1 DEF RequestsInv, AnswersOK
  <2>3. ASSUME NEW c \in Stack, TakesBack(c, r) PROVE c \in Stack' /\ TakesBack(c, r)'
    <3>1. c \in Waiting
      BY <1>1, <1>2, <2>3 DEF TakesBack
    <3>2. MayPrecede(arg, c) /\ c.f # "RequestAddedToQueue"
      BY <1>1, <3>1, RunningKnows DEF MayPrecede
    <3> QED
      BY <1>12, <2>3, <3>1, <3>2 DEF TakesBack
  <2>4. CASE r = q /\ InFront(r)
    <3>1. arg.x = "cancelled"
      BY <1>5, <2>1, <2>4 DEF Answerable
    <3>2. delegate[w] = "presenter"
      BY <1>1, <1>5, <2>4, ActiveIsTab DEF InFront
    <3>3. a.f = "OverlayRequestRemoved" /\ a.r = r /\ a.x = "cancelled"
      BY <1>11, <2>4, <3>1, <3>2
    <3> QED
      BY <1>12, <2>2, <3>3 DEF TakesBack
  <2>5. CASE r # q /\ InFront(r)
    <3>1. CASE presenter.removed_request = r
      BY <1>1, <2>2, <2>5, <3>1 DEF InFront
    <3>2. CASE FrontRequest(owner[r]) = r
      <4>1. owner[r] \in WebStates
        <5>1. owner[r] \in WebStates \cup {Null}
          BY DEF Inv, Types
        <5> QED
          BY <2>1, <3>2, <5>1 DEF FrontRequest
      <4>2. PICK v : v = owner[r]
        OBVIOUS
      <4>3. FrontRequest(v)' = r
        BY <1>6, <2>1, <2>5, <3>2, <4>1, <4>2
      <4>4. FrontRequest(owner[r])' = r
        BY <1>1, <4>2, <4>3 DEF FrontRequest
      <4>5. InFront(r)'
        BY <1>1, <2>5, <4>4 DEF InFront
      <4> QED
        BY <2>2, <4>5
    <3> QED
      BY <2>5, <3>1, <3>2 DEF InFront
  <2> QED
    BY <2>2, <2>3, <2>4, <2>5
<1> QED
  BY <1>12, <1>13, <1>15, <1>16, <1>17 DEF RequestsInv, AnswersOK

\* The destruction of a WebState, in this window or in another.
LEMMA DestroyQueueSafe ==
  ASSUME Inv, RequestsInv, DestroyQueue
  PROVE  RequestsInv'
<1>1. /\ Running("DestroyQueue") /\ calls # << >> /\ arg.f = "DestroyQueue"
      /\ arg.f \notin Preceders \cup Relied
      /\ UNCHANGED <<queues, delegate, owner, presenter, context>>
  BY DEF DestroyQueue, Running, arg, otherThanQueues, Preceders, Relied
<1>2. Stack = {arg} \cup Waiting /\ Knows(arg)
  BY <1>1, RunningKnows
<1>3. PICK w : w = arg.w
  OBVIOUS
<1>4. w \in WebStates /\ Left(w)
  BY <1>1, <1>3, RunningFacts DEF CallOK, TabsKnownTo, Left
<1>5. CASE phase' = [phase EXCEPT ![w] = "destroyed"] /\ Returning
  <2>1. phase \in [WebStates -> {"new", "tab", "detached", "destroyed"}]
    BY DEF Inv, Types
  <2>2. /\ \A v \in WebStates : phase'[v] = IF v = w THEN "destroyed" ELSE phase[v]
        /\ \A v \in WebStates : Left(v) => Left(v)'
        /\ Tabs' = Tabs /\ w \notin Tabs
        /\ \A v \in WebStates : phase[v] = "tab" => phase'[v] = "tab"
    BY <1>4, <1>5, <2>1 DEF Tabs, Left
  <2>3. InOrder(calls)' /\ CallsKnow' /\ ~Activating' /\ Stack' = Waiting
    BY <1>1, <1>5, <2>2, ReturnsOfNoConsequence
  <2>4. TabsOK'
    <3>1. /\ \A v \in Tabs' : delegate'[v] = "presenter" \/ (\E c \in Stack : IsAdding(c, v))'
          /\ \A v \in WebStates : delegate'[v] = "other" => Left(v)'
      BY <1>1, <1>2, <2>2, <2>3 DEF RequestsInv, TabsOK, IsAdding
    <3>2. presenter'.active_web_state # Null =>
            /\ phase'[presenter'.active_web_state] = "tab"
            /\ delegate'[presenter'.active_web_state] = "presenter"
      <4>1. presenter.active_web_state # Null =>
              /\ presenter.active_web_state \in WebStates
              /\ phase[presenter.active_web_state] = "tab"
              /\ delegate[presenter.active_web_state] = "presenter"
        BY <1>1, ActiveIsTab, PresenterTyped
      <4> QED
        BY <1>1, <1>4, <2>2, <4>1 DEF Left
    <3>3. presenter'.detached_queue # Null => Left(presenter.detached_queue)'
      <4>1. presenter.detached_queue # Null =>
              presenter.detached_queue \in WebStates /\ Left(presenter.detached_queue)
        BY DEF RequestsInv, TabsOK, Left
      <4> QED
        BY <1>1, <2>2, <4>1 DEF Left
    <3> QED
      BY <1>1, <3>1, <3>2, <3>3 DEF RequestsInv, TabsOK
  <2>5. KeepsPresented /\ KeepsAnswers /\ UNCHANGED presenter.active_web_state
    BY <1>1 DEF KeepsPresented, KeepsAnswers, Answerable, Callback
  <2>6. RequestsOK'
    BY <1>1, <1>2, <2>3, <2>5, RequestsStayOK DEF RequestsInv
  <2>7. AnswersOK'
    BY <1>1, <1>2, <2>3, <2>5, AnswersStayOK DEF RequestsInv
  <2> QED
    BY <2>3, <2>4, <2>6, <2>7 DEF RequestsInv
<1>6. ASSUME NEW i \in 1..Len(queues[w]), UNCHANGED phase,
             Making(<<Call("RemoveRequest", queues[w][i], w, "cancelled"), arg>>)
      PROVE  RequestsInv'
  <2>1. PICK r : r = queues[w][i]
    OBVIOUS
  <2>2. r # Null /\ owner[r] = w
    BY <1>4, <2>1, HolderIsOwner DEF Holds
  <2>3. PICK a, b : a = Call("RemoveRequest", r, w, "cancelled") /\ b = arg
    OBVIOUS
  <2>4. /\ Making(<<a, b>>) /\ a.f = "RemoveRequest" /\ a.r = r /\ a.w = w
        /\ a.x = "cancelled" /\ b.f = "DestroyQueue" /\ b.w = w /\ MayPrecede(a, b)
    BY <1>1, <1>3, <1>6, <2>1, <2>3, PartsOfCalls DEF MayPrecede
  <2>5. KeepsRequests
    BY <1>1, <1>6, RequestsUntouched
  <2>6. Knows(a)'
    <3>1. a.r # Null /\ a.w # Null /\ owner'[a.r] = a.w
      BY <1>1, <1>4, <2>2, <2>4, NullAssumption
    <3> QED
      BY <2>4, <3>1 DEF Knows, DelegatesKnownTo, RequestsKnownTo, IsAdding
  <2>7. Knows(b)'
    BY <1>1, <1>4, <2>4 DEF Knows, DelegatesKnownTo, RequestsKnownTo, IsAdding
  <2> QED
    BY <1>1, <2>3, <2>4, <2>5, <2>6, <2>7, UndisturbedByPair
<1> QED
  BY <1>3, <1>5, <1>6 DEF DestroyQueue

\* A queue keeps the presenter while its WebState is a tab, and while it holds
\* the presented request it has a delegate.
LEMMA SetDelegateSafe ==
  ASSUME Inv, RequestsInv, SetDelegate
  PROVE  RequestsInv'
<1>1. /\ Running("SetDelegate") /\ calls # << >> /\ arg.f = "SetDelegate"
      /\ UNCHANGED <<phase, queues, owner, presenter, context>>
  BY DEF SetDelegate, Running, arg, otherThanQueues
<1>2. /\ Stack = {arg} \cup Waiting /\ Knows(arg)
      /\ \A c \in Waiting : MayPrecede(arg, c)
      /\ \A c \in Waiting : MayRunBefore(arg, c)
  BY <1>1, RunningKnows, RunningFacts
<1>3. PICK w, x : w = arg.w /\ x = arg.x
  OBVIOUS
<1>4. /\ x \in Delegates /\ w \in WebStates \cup {Null}
      /\ x = "none" => /\ Left(w) /\ delegate[w] # "other"
                       /\ ~Holds(w, presenter.presented_request)
      /\ x = "other" => Left(w)
      /\ x = "presenter" => w \in Tabs
  BY <1>1, <1>2, <1>3, RunningFacts
     DEF CallOK, TabsKnownTo, Knows, DelegatesKnownTo, CallRecords, IsAdding
<1>5. delegate \in [WebStates -> Delegates]
  BY DEF Inv, Types
<1>6. \A v \in WebStates : delegate'[v] = IF v = w THEN x ELSE delegate[v]
  BY <1>3, <1>5 DEF SetDelegate
<1>7. PICK a : a = OnWebState("QueueWillReplaceDelegate", w)
  OBVIOUS
<1>8. PICK test \in BOOLEAN : test <=> delegate[w] # x /\ delegate[w] = "presenter"
  OBVIOUS
<1>9. Making(When(test, a)) /\ a.f = "QueueWillReplaceDelegate" /\ a.f \in Undemanding
  BY <1>3, <1>7, <1>8, PartsOfCalls DEF SetDelegate, Returning, When, Undemanding
<1>10. InOrder(calls)' /\ Stack' = {c \in {a} : test} \cup Waiting
  <2>1. \A c \in Waiting : MayPrecede(a, c)
    BY <1>2, <1>9 DEF MayPrecede
  <2> QED
    BY <1>1, <1>9, <2>1, MakesOne
<1>11. Activating <=> Activating'
  BY <1>1, <1>2, <1>9, <1>10 DEF Activating
<1>12. CallsKnow'
  <2>1. Knows(a)'
    BY <1>9, UndemandingCalls, UndemandingKnows
  <2>2. \A c \in Stack' : c.f = "SetActiveWebState" => c \in Stack
    BY <1>2, <1>9, <1>10
  <2>3. \A r \in Requests : Callback(r)' => Callback(r)
    BY <1>1 DEF Callback
  <2>4. \A c \in Waiting : Knows(c)'
    BY <1>1, <2>2, <2>3, WaitingKnows
  <2> QED
    BY <1>10, <2>1, <2>4 DEF CallsKnow
<1>13. \A c \in Stack : c.f # "SetDelegate" => c \in Stack'
  BY <1>1, <1>2, <1>10
<1>14. TabsOK'
  <2>1. Tabs' = Tabs /\ \A v : Left(v)' = Left(v)
    BY <1>1 DEF Tabs, Left
  <2>2. ASSUME NEW v \in Tabs'
        PROVE  delegate'[v] = "presenter" \/ (\E c \in Stack : IsAdding(c, v))'
    <3>1. v \in WebStates /\ phase[v] = "tab"
      BY <2>1 DEF Tabs
    <3>2. CASE v = w
      <4>1. x = "presenter"
        BY <1>4, <3>1, <3>2 DEF Left, Delegates
      <4> QED
        BY <1>6, <3>1, <3>2, <4>1
    <3>3. CASE v # w
      <4>1. ~IsAdding(arg, v)
        BY <1>3, <3>3 DEF IsAdding
      <4>2. delegate[v] = "presenter" \/ \E c \in Waiting : IsAdding(c, v)
        BY <1>2, <2>1, <4>1 DEF RequestsInv, TabsOK
      <4>3. delegate'[v] = delegate[v]
        BY <1>6, <3>1, <3>3
      <4>4. \A c \in Waiting : c \in Stack' /\ (IsAdding(c, v) => IsAdding(c, v)')
        BY <1>10 DEF IsAdding
      <4> QED
        BY <4>2, <4>3, <4>4
    <3> QED
      BY <3>2, <3>3
  <2>3. ASSUME presenter.active_web_state # Null, ~Activating
        PROVE  /\ phase[presenter.active_web_state] = "tab"
               /\ delegate'[presenter.active_web_state] = "presenter"
    <3>1. /\ phase[presenter.active_web_state] = "tab"
          /\ delegate[presenter.active_web_state] = "presenter"
          /\ presenter.active_web_state \in WebStates
      BY <2>3, PresenterTyped DEF RequestsInv, TabsOK
    <3> QED
      BY <1>4, <1>6, <3>1 DEF Left, Delegates
  <2>4. presenter'.detached_queue # Null =>
          /\ Left(presenter.detached_queue)'
          /\ presenter'.presented_request # Null =>
               owner'[presenter'.presented_request] = presenter'.detached_queue
          /\ presenter'.has_context => presenter'.presented_request # Null
    BY <1>1, <2>1 DEF RequestsInv, TabsOK
  <2>5. \A v \in WebStates : delegate'[v] = "other" => Left(v)'
    BY <1>4, <1>6, <2>1 DEF RequestsInv, TabsOK
  <2> QED
    BY <1>1, <1>11, <2>2, <2>3, <2>4, <2>5 DEF TabsOK
<1>15. RequestsOK'
  <2>1. \A r : Alive(r) => Alive(r)'
    BY <1>1, SameHolds DEF Alive
  <2>2. \A r \in presenter'.previously_presented :
          Alive(r)' \/ (\E c \in Stack : IsRemoval(c, r) \/ IsEnd(c, r))'
    BY <1>1, <1>13, <2>1 DEF RequestsInv, RequestsOK, IsRemoval, IsEnd
  <2>3. PICK p : p = presenter.presented_request
    OBVIOUS
  <2>4. p # Null => Alive(p)' \/ Moved(p)' \/ (\E c \in Stack : IsRemoval(c, p))'
    <3>1. \A v \in WebStates : delegate[v] = "other" => delegate'[v] = "other"
      <4>1. \A v \in WebStates : delegate[v] = "other" => v \notin Tabs
        BY DEF RequestsInv, TabsOK, Left, Tabs
      <4> QED
        BY <1>4, <1>6, <4>1 DEF Delegates
    <3> QED
      BY <1>1, <1>13, <2>1, <2>3, <3>1 DEF RequestsInv, RequestsOK, IsRemoval, Moved
  <2>5. presenter'.presented_request # Null =>
          \/ Alive(presenter.presented_request)'
          \/ (\E c \in Stack : IsRemoval(c, presenter.presented_request))'
          \/ Moved(presenter.presented_request)'
    BY <1>1, <2>3, <2>4 DEF Alive, Holders, IsRemoval, Moved
  <2>6. presenter'.removed_request # Null =>
          /\ ~Held(presenter.removed_request)' /\ owner'[presenter'.removed_request] # Null
          /\ presenter'.has_context
               => presenter'.removed_request = presenter'.presented_request
    BY <1>1 DEF RequestsInv, RequestsOK, Held, Holds
  <2>7. ASSUME NEW v \in WebStates, Holds(v, presenter.presented_request)'
        PROVE  delegate'[v] # "none"
    <3>1. Holds(v, presenter.presented_request)
      BY <1>1, <2>7 DEF Holds
    <3>2. delegate[v] # "none"
      BY <3>1 DEF RequestsInv, RequestsOK
    <3> QED
      BY <1>4, <1>6, <3>1, <3>2
  <2> QED
    BY <2>2, <2>5, <2>6, <2>7 DEF RequestsOK
<1>16. AnswersOK'
  <2>1. KeepsPresented /\ KeepsAnswers /\ UNCHANGED presenter.active_web_state
    BY <1>1 DEF KeepsPresented, KeepsAnswers, Answerable, Callback
  <2> QED
    BY <1>1, <1>13, <2>1, AnswersStayOK DEF RequestsInv
<1> QED
  BY <1>10, <1>12, <1>14, <1>15, <1>16 DEF RequestsInv

----------------------------------------------------------------------------
(* The calls from outside, which come when the stack is empty.             *)

\* What the invariant says between calls.
LEMMA BetweenCalls ==
  ASSUME Inv, RequestsInv, calls = << >>
  PROVE  /\ Stack = {} /\ ~Activating /\ \A w : ~Adding(w)
         /\ \A w \in Tabs : delegate[w] = "presenter"
         /\ \A w \in WebStates : delegate[w] = "other" => Left(w)
         /\ presenter.active_web_state # Null =>
              /\ presenter.active_web_state \in WebStates
              /\ phase[presenter.active_web_state] = "tab"
              /\ delegate[presenter.active_web_state] = "presenter"
         /\ presenter.presented_request # Null =>
              Alive(presenter.presented_request) \/ Moved(presenter.presented_request)
         /\ \A r \in presenter.previously_presented : Alive(r)
         /\ \A r \in Requests : r = presenter.presented_request /\ Answerable(r) =>
              context.states[r].queue = owner[r] /\ InFront(r)
<1>1. Stack = {}
  BY EmptyStack
<1>2. ~Activating /\ \A w : ~Adding(w)
  BY <1>1 DEF Activating, Adding
<1>3. /\ \A w \in Tabs : delegate[w] = "presenter"
      /\ \A w \in WebStates : delegate[w] = "other" => Left(w)
  BY <1>1 DEF RequestsInv, TabsOK
<1>4. presenter.active_web_state # Null =>
        /\ presenter.active_web_state \in WebStates
        /\ phase[presenter.active_web_state] = "tab"
        /\ delegate[presenter.active_web_state] = "presenter"
  BY <1>2, PresenterTyped DEF RequestsInv, TabsOK
<1>5. /\ presenter.presented_request # Null =>
           Alive(presenter.presented_request) \/ Moved(presenter.presented_request)
      /\ \A r \in presenter.previously_presented : Alive(r)
  BY <1>1 DEF RequestsInv, RequestsOK
<1>6. \A r \in Requests : r = presenter.presented_request /\ Answerable(r) =>
        context.states[r].queue = owner[r] /\ InFront(r)
  BY <1>1 DEF RequestsInv, AnswersOK
<1> QED
  BY <1>1, <1>2, <1>3, <1>4, <1>5, <1>6

\* A call from outside that leaves the queues and the presenter alone.
LEMMA EventSafe ==
  ASSUME Inv, RequestsInv, NEW made, Entering(made), InOrder(made),
         UNCHANGED <<queues, delegate, owner, presenter>>, KeepsAnswers,
         \A a \in CallsIn(made) : Knows(a)', TabsOK'
  PROVE  RequestsInv'
<1>1. Stack = {} /\ Stack' = CallsIn(made) /\ InOrder(calls)'
  BY EmptyStack DEF Entering, Stack, CallsIn, InOrder
<1>2. KeepsPresented /\ UNCHANGED presenter.active_web_state
  BY DEF KeepsPresented
<1>3. RequestsOK'
  BY <1>1, <1>2, RequestsStayOK DEF RequestsInv
<1>4. AnswersOK'
  BY <1>1, <1>2, AnswersStayOK DEF RequestsInv
<1> QED
  BY <1>1, <1>3, <1>4 DEF RequestsInv, CallsKnow

LEMMA TabsStayOKInEvents ==
  ASSUME Inv, RequestsInv, calls = << >>, UNCHANGED <<phase, delegate, owner, presenter>>
  PROVE  TabsOK'
<1>1. ~Activating /\ \A w : ~Adding(w)
  BY BetweenCalls
<1>2. KeepsPresenter
  BY DEF KeepsPresenter, KeepsPresented
<1> QED
  BY <1>1, <1>2, TabsStayOK DEF RequestsInv

\* An event of the container and of its context.
LEMMA UIEventSafe ==
  ASSUME Inv, RequestsInv, NEW made, Entering(made),
         UNCHANGED <<phase, queues, delegate, owner, presenter>>,
         UNCHANGED context.request, UNCHANGED context.states,
         \A a \in CallsIn(made) : a.f \in Undemanding
  PROVE  RequestsInv'
<1>1. TabsOK' /\ KeepsAnswers
  BY TabsStayOKInEvents DEF Entering, KeepsAnswers, Answerable, Callback
<1>2. InOrder(made)
  BY UndemandingCalls DEF InOrder, CallsIn
<1>3. ~Activating'
  <2>1. Stack' = CallsIn(made)
    BY DEF Entering, Stack, CallsIn
  <2> QED
    BY <2>1 DEF Activating, Undemanding
<1>4. \A a \in CallsIn(made) : Knows(a)'
  BY <1>3, UndemandingCalls, UndemandingKnows
<1> QED
  BY <1>1, <1>2, <1>4, EventSafe

LEMMA SetUIDisabledSafe ==
  ASSUME Inv, RequestsInv, NEW disabled \in BOOLEAN, SetUIDisabled(disabled)
  PROVE  RequestsInv'
<1>1. /\ UNCHANGED <<phase, queues, delegate, owner, presenter>>
      /\ UNCHANGED context.request /\ UNCHANGED context.states
  BY PresenterTyped DEF SetUIDisabled, otherThanContext, ContextRecords
<1>2. PICK a, b : /\ a = Do("UpdatePresentationCapabilities")
                  /\ b = Do("OverlayPresentationContextDidEnableUI")
  OBVIOUS
<1>3. PICK yes \in BOOLEAN : yes
  OBVIOUS
<1>4. PICK also \in BOOLEAN : also <=> ~disabled /\ presenter.has_context
  OBVIOUS
<1>5. a.f \in Undemanding /\ b.f \in Undemanding
  BY <1>2, PartsOfCalls DEF Undemanding
<1>6. MayPrecede(a, b)
  BY <1>5, UndemandingCalls
<1>7. CallsIn(When(yes, a) \o When(also, b)) = {c \in {a} : yes} \cup {c \in {b} : also}
  BY <1>6, TwoInOrder
<1> DEFINE made == When(yes, a) \o When(also, b)
<1>8. Entering(made) /\ CallsIn(made) = {c \in {a} : yes} \cup {c \in {b} : also}
  BY <1>2, <1>3, <1>4, <1>7 DEF SetUIDisabled, When
<1> HIDE DEF made
<1>9. \A c \in CallsIn(made) : c.f \in Undemanding
  BY <1>5, <1>8
<1> QED
  BY <1>1, <1>8, <1>9, UIEventSafe

LEMMA SetWindowSafe ==
  ASSUME Inv, RequestsInv, NEW window \in BOOLEAN, SetWindow(window)
  PROVE  RequestsInv'
<1>1. PICK a : a = Do("DidMoveToWindow")
  OBVIOUS
<1>2. PICK test \in BOOLEAN : test <=> presenter.has_context /\ window
  OBVIOUS
<1> DEFINE made == When(test, a)
<1>3. Entering(made) /\ UNCHANGED <<phase, queues, delegate, owner, presenter, context>>
  BY <1>1, <1>2 DEF SetWindow, otherThanContext, When
<1>4. CallsIn(made) = {c \in {a} : test}
  <2> DEFINE S == {a}
  <2>1. a \in S
    OBVIOUS
  <2> HIDE DEF S
  <2> QED
    BY <2>1, PerhapsOne
<1>5. a.f \in Undemanding
  BY <1>1, PartsOfCalls DEF Undemanding
<1> HIDE DEF made
<1> QED
  BY <1>3, <1>4, <1>5, UIEventSafe

LEMMA PresentationContextPresentedSafe ==
  ASSUME Inv, RequestsInv, PresentationContextPresented
  PROVE  RequestsInv'
<1>1. PICK a : a = With("SetViewController", Flag(container.pc_view_controller))
  OBVIOUS
<1>2. PICK test \in BOOLEAN : test <=> ~container.stopped
  OBVIOUS
<1> DEFINE made == When(test, a)
<1>3. Entering(made) /\ UNCHANGED <<phase, queues, delegate, owner, presenter, context>>
  BY <1>1, <1>2 DEF PresentationContextPresented, otherThanContext, When
<1>4. CallsIn(made) = {c \in {a} : test}
  <2> DEFINE S == {a}
  <2>1. a \in S
    OBVIOUS
  <2> HIDE DEF S
  <2> QED
    BY <2>1, PerhapsOne
<1>5. a.f \in Undemanding
  BY <1>1, PartsOfCalls DEF Undemanding
<1> HIDE DEF made
<1> QED
  BY <1>3, <1>4, <1>5, UIEventSafe

LEMMA StartOrStopContainerSafe ==
  ASSUME Inv, RequestsInv, NEW start \in BOOLEAN, StartOrStopContainer(start)
  PROVE  RequestsInv'
<1>1. /\ UNCHANGED <<phase, queues, delegate, owner, presenter>>
      /\ UNCHANGED context.request /\ UNCHANGED context.states
  BY PresenterTyped DEF StartOrStopContainer, otherThanContext, ContextRecords
<1>2. PICK a, b, d : /\ a = Do("UpdatePresentationCapabilities")
                     /\ b = With("SetContextDelegateThen", Flag(start))
                     /\ d = Do("StopContainerThen")
  OBVIOUS
<1>3. PICK test \in BOOLEAN : test <=> ~start
  OBVIOUS
<1>4. a.f \in Undemanding /\ b.f \in Undemanding /\ d.f \in Undemanding
  BY <1>2, PartsOfCalls DEF Undemanding
<1> DEFINE S == {a, b, d}
           first == <<a, b>>
           second == When(test, d)
           made == first \o second
<1>5. Entering(made)
  BY <1>2, <1>3 DEF StartOrStopContainer, When
<1>6. first \in Seq(S) /\ Len(first) = 2 /\ first[1] = a /\ first[2] = b /\ d \in S
  OBVIOUS
<1> HIDE DEF S, first
<1>7. CallsIn(first) = {a, b}
  BY <1>6 DEF CallsIn
<1>8. second \in Seq(S) /\ CallsIn(second) = {c \in {d} : test}
  BY <1>6, PerhapsOne
<1> HIDE DEF second
<1>9. CallsIn(made) = CallsIn(first) \cup CallsIn(second)
  BY <1>6, <1>8, InOrderConcat
<1> HIDE DEF made
<1>10. \A c \in CallsIn(made) : c.f \in Undemanding
  BY <1>4, <1>7, <1>8, <1>9
<1> QED
  BY <1>1, <1>5, <1>10, UIEventSafe

\* The coordinator of a UI moves on.
LEMMA CoordinatorKeepsAnswers ==
  ASSUME Inv, NEW r \in Requests, NEW stage,
         context' = [context EXCEPT !.states[r].coordinator = stage]
  PROVE  /\ KeepsAnswers
         /\ \A q \in Requests : Answerable(q)' => Answerable(q)
<1>1. /\ context \in ContextRecords /\ context.states \in [Requests -> UIStates]
      /\ \A q \in Requests : context.states[q] \in UIStates
  BY PresenterTyped DEF ContextRecords
<1>2. /\ UNCHANGED context.request
      /\ \A q \in Requests :
           /\ context'.states[q].has_callback = context.states[q].has_callback
           /\ context'.states[q].dismissal_reason = context.states[q].dismissal_reason
           /\ context'.states[q].queue = context.states[q].queue
  BY <1>1 DEF ContextRecords, UIStates
<1> QED
  BY <1>2 DEF KeepsAnswers, Answerable, Callback

LEMMA UserDismissesSafe ==
  ASSUME Inv, RequestsInv, NEW r \in Requests, UserDismisses(r)
  PROVE  RequestsInv'
<1>1. /\ calls = << >> /\ UNCHANGED <<calls, phase, queues, delegate, owner, presenter>>
      /\ KeepsAnswers
  BY CoordinatorKeepsAnswers DEF UserDismisses, otherThanContext
<1> DEFINE made == << >>
<1>2. Entering(made) /\ Len(made) = 0
  BY <1>1 DEF Entering
<1> HIDE DEF made
<1>3. InOrder(made) /\ CallsIn(made) = {}
  BY <1>2 DEF InOrder, CallsIn
<1>4. TabsOK'
  BY <1>1, TabsStayOKInEvents
<1> QED
  BY <1>1, <1>2, <1>3, <1>4, EventSafe

LEMMA DismissalFinishesSafe ==
  ASSUME Inv, RequestsInv, NEW r \in Requests, DismissalFinishes(r)
  PROVE  RequestsInv'
<1>1. /\ calls = << >> /\ UNCHANGED <<phase, queues, delegate, owner, presenter>>
      /\ KeepsAnswers /\ (Answerable(r)' => Answerable(r))
  BY CoordinatorKeepsAnswers DEF DismissalFinishes, otherThanContext, Entering
<1>2. PICK a : a = OnRequest("OverlayUIDidFinishDismissal", r)
  OBVIOUS
<1>3. PICK yes \in BOOLEAN : yes
  OBVIOUS
<1> DEFINE made == When(yes, a)
<1>4. Entering(made) /\ CallsIn(made) = {c \in {a} : yes} /\ InOrder(made)
  BY <1>2, <1>3, PerhapsOne DEF DismissalFinishes, When
<1> HIDE DEF made
<1>5. a.f = "OverlayUIDidFinishDismissal" /\ a.r = r
  BY <1>2, PartsOfCalls
<1>6. Knows(a)'
  <2>1. ASSUME Answerable(r)', r = presenter'.presented_request PROVE InFront(r)'
    <3>1. InFront(r)
      BY <1>1, <2>1, BetweenCalls
    <3> QED
      BY <1>1, <3>1, SameFront DEF InFront
  <2>2. RequestsKnownTo(a)'
    BY <1>5, <2>1 DEF RequestsKnownTo
  <2> QED
    BY <1>5, <2>2 DEF Knows, DelegatesKnownTo, IsAdding
<1>7. TabsOK'
  BY <1>1, TabsStayOKInEvents
<1> QED
  BY <1>1, <1>4, <1>6, <1>7, EventSafe

\* An event of the tabs: a tab that comes is about to get the presenter as its
\* delegate, and the active tab stays unless it is about to change.
LEMMA TabEventSafe ==
  ASSUME Inv, RequestsInv, UNCHANGED exceptCallsAndPhase,
         NEW made, Entering(made), InOrder(made), \A a \in CallsIn(made) : Knows(a)',
         \A v \in WebStates : /\ phase'[v] = "tab" => \/ phase[v] = "tab"
                                                      \/ \E a \in CallsIn(made) : IsAdding(a, v)
                              /\ Left(v) => Left(v)',
         \/ \E a \in CallsIn(made) : a.f = "SetActiveWebState"
         \/ presenter.active_web_state = Null
         \/ phase'[presenter.active_web_state] = "tab"
  PROVE  RequestsInv'
<1>1. /\ UNCHANGED <<queues, delegate, owner, presenter, context, container>>
      /\ calls = << >> /\ Stack' = CallsIn(made)
  BY DEF exceptCallsAndPhase, Entering, Stack
<1>2. KeepsAnswers
  BY <1>1 DEF KeepsAnswers, Answerable, Callback
<1>3. /\ \A v \in Tabs : delegate[v] = "presenter"
      /\ presenter.active_web_state # Null =>
           delegate[presenter.active_web_state] = "presenter"
  BY <1>1, BetweenCalls
<1>4. \A v \in Tabs' : delegate'[v] = "presenter" \/ (\E c \in Stack : IsAdding(c, v))'
  <2> SUFFICES ASSUME NEW v \in Tabs'
               PROVE  delegate'[v] = "presenter" \/ (\E c \in Stack : IsAdding(c, v))'
    OBVIOUS
  <2>1. v \in WebStates /\ phase'[v] = "tab"
    BY DEF Tabs
  <2>2. v \in Tabs \/ \E a \in CallsIn(made) : IsAdding(a, v)
    BY <2>1 DEF Tabs
  <2> QED
    BY <1>1, <1>3, <2>2 DEF IsAdding
<1>5. presenter'.active_web_state # Null =>
        \/ Activating'
        \/ /\ phase'[presenter'.active_web_state] = "tab"
           /\ delegate'[presenter'.active_web_state] = "presenter"
  BY <1>1, <1>3 DEF Activating
<1>6. presenter'.detached_queue # Null =>
        /\ Left(presenter.detached_queue)'
        /\ presenter'.presented_request # Null =>
             owner'[presenter'.presented_request] = presenter'.detached_queue
        /\ presenter'.has_context => presenter'.presented_request # Null
  <2>1. PICK d : d = presenter.detached_queue
    OBVIOUS
  <2>2. d # Null => Left(d)'
    BY <2>1 DEF RequestsInv, TabsOK, Left
  <2> QED
    BY <1>1, <2>1, <2>2 DEF RequestsInv, TabsOK, Left
<1>7. \A v \in WebStates : delegate'[v] = "other" => Left(v)'
  BY <1>1, BetweenCalls
<1>8. TabsOK'
  BY <1>4, <1>5, <1>6, <1>7 DEF TabsOK
<1> QED
  BY <1>1, <1>2, <1>8, EventSafe

LEMMA InsertTabSafe ==
  ASSUME Inv, RequestsInv, NEW w \in WebStates, NEW activating \in BOOLEAN,
         InsertTab(w, activating)
  PROVE  RequestsInv'
<1>1. /\ phase[w] = "new" /\ phase' = [phase EXCEPT ![w] = "tab"]
      /\ UNCHANGED exceptCallsAndPhase
  BY DEF InsertTab
<1>2. phase'[w] = "tab" /\ \A v \in WebStates : v # w => phase'[v] = phase[v]
  BY <1>1, PhaseTypes
<1>3. PICK a, b : /\ a = OnWebState("WebStateAddedToBrowser", w)
                  /\ b = Call("SetActiveWebState", Null, w, "Inserted")
  OBVIOUS
<1>4. PICK yes \in BOOLEAN : yes
  OBVIOUS
<1>5. a.f = "WebStateAddedToBrowser" /\ a.w = w /\ b.f = "SetActiveWebState"
  BY <1>3, PartsOfCalls
<1>6. MayPrecede(a, b)
  BY <1>5 DEF MayPrecede
<1>7. /\ CallsIn(When(yes, a) \o When(activating, b))
           = {c \in {a} : yes} \cup {c \in {b} : activating}
      /\ InOrder(When(yes, a) \o When(activating, b))
  BY <1>6, TwoInOrder
<1> DEFINE made == When(yes, a) \o When(activating, b)
<1>8. /\ Entering(made) /\ InOrder(made)
      /\ CallsIn(made) = {c \in {a} : yes} \cup {c \in {b} : activating}
  BY <1>3, <1>4, <1>7 DEF InsertTab, When
<1> HIDE DEF made
<1>9. Knows(a)' /\ Knows(b)'
  BY <1>2, <1>5 DEF Tabs, Knows, DelegatesKnownTo, RequestsKnownTo, IsAdding
<1>10. \A c \in CallsIn(made) : Knows(c)'
  BY <1>8, <1>9
<1>11. a \in CallsIn(made) /\ IsAdding(a, w)
  BY <1>4, <1>5, <1>8 DEF IsAdding
<1>12. ASSUME NEW v \in WebStates
       PROVE  /\ phase'[v] = "tab" => \/ phase[v] = "tab"
                                      \/ \E c \in CallsIn(made) : IsAdding(c, v)
              /\ Left(v) => Left(v)'
  BY <1>1, <1>2, <1>11 DEF Left
<1>13. presenter.active_web_state = Null \/ phase'[presenter.active_web_state] = "tab"
  <2>1. calls = << >>
    BY <1>8 DEF Entering
  <2> QED
    BY <1>2, <2>1, BetweenCalls
<1> QED
  BY <1>1, <1>8, <1>10, <1>12, <1>13, TabEventSafe

LEMMA ActivateTabSafe ==
  ASSUME Inv, RequestsInv, NEW w \in WebStates, ActivateTab(w)
  PROVE  RequestsInv'
<1>1. UNCHANGED phase /\ UNCHANGED exceptCallsAndPhase
  BY DEF ActivateTab
<1>2. PICK b : b = Call("SetActiveWebState", Null, w, "Activated")
  OBVIOUS
<1>3. PICK yes \in BOOLEAN : yes
  OBVIOUS
<1> DEFINE made == When(yes, b)
<1>4. Entering(made) /\ CallsIn(made) = {c \in {b} : yes} /\ InOrder(made)
  BY <1>2, <1>3, PerhapsOne DEF ActivateTab, When
<1> HIDE DEF made
<1>5. b.f = "SetActiveWebState"
  BY <1>2, PartsOfCalls
<1>6. \A c \in CallsIn(made) : Knows(c)'
  <2>1. Knows(b)'
    BY <1>5 DEF Knows, DelegatesKnownTo, RequestsKnownTo, IsAdding
  <2> QED
    BY <1>4, <2>1
<1>7. b \in CallsIn(made)
  BY <1>3, <1>4
<1>8. ASSUME NEW v \in WebStates
      PROVE  /\ phase'[v] = "tab" => \/ phase[v] = "tab"
                                     \/ \E c \in CallsIn(made) : IsAdding(c, v)
             /\ Left(v) => Left(v)'
  BY <1>1 DEF Left
<1> QED
  BY <1>1, <1>4, <1>5, <1>6, <1>7, <1>8, TabEventSafe

LEMMA ThreeInOrder ==
  ASSUME NEW test \in BOOLEAN, NEW a, NEW also \in BOOLEAN, NEW b, NEW last \in BOOLEAN, NEW d,
         MayPrecede(a, b), MayPrecede(a, d), MayPrecede(b, d)
  PROVE  /\ CallsIn(When(test, a) \o When(also, b) \o When(last, d))
              = {c \in {a} : test} \cup {c \in {b} : also} \cup {c \in {d} : last}
         /\ InOrder(When(test, a) \o When(also, b) \o When(last, d))
<1> DEFINE s == When(test, a) \o When(also, b)
           t == When(last, d)
           S == {a, b, d}
<1>1. /\ s \in Seq(S) /\ InOrder(s)
      /\ CallsIn(s) = {c \in {a} : test} \cup {c \in {b} : also}
      /\ t \in Seq(S) /\ InOrder(t) /\ CallsIn(t) = {c \in {d} : last}
  BY PerhapsOne, PerhapsTwo
<1> HIDE DEF s, t, S
<1>2. InOrder(s \o t) /\ CallsIn(s \o t) = CallsIn(s) \cup CallsIn(t)
  BY <1>1, InOrderConcat
<1> QED
  BY <1>1, <1>2 DEF s, t

LEMMA DetachTabSafe ==
  ASSUME Inv, RequestsInv, NEW w \in WebStates, NEW then \in {"close", "move"},
         DetachTab(w, then)
  PROVE  RequestsInv'
<1>1. /\ phase' = [phase EXCEPT ![w] = "detached"] /\ UNCHANGED exceptCallsAndPhase
      /\ w \in Tabs
  BY DEF DetachTab
<1>2. /\ phase'[w] = "detached" /\ Left(w)'
      /\ \A v \in WebStates : v # w => phase'[v] = phase[v]
  BY <1>1, PhaseTypes DEF Left
<1>3. PICK next \in Successors(w) :
        Entering(<<OnWebState("WillDetachWebStateAt", w)>>
                 \o When(w = presenter.active_web_state,
                         Call("SetActiveWebState", Null, next, "Closed"))
                 \o <<IF then = "close" THEN OnWebState("DestroyQueue", w)
                      ELSE Call("SetDelegate", Null, w, "other")>>)
  BY DEF DetachTab
<1>4. PICK a, b : /\ a = OnWebState("WillDetachWebStateAt", w)
                  /\ b = Call("SetActiveWebState", Null, next, "Closed")
  OBVIOUS
<1>5. PICK d : d = IF then = "close" THEN OnWebState("DestroyQueue", w)
                   ELSE Call("SetDelegate", Null, w, "other")
  OBVIOUS
<1>6. PICK test \in BOOLEAN : test <=> w = presenter.active_web_state
  OBVIOUS
<1>7. PICK yes \in BOOLEAN : yes
  OBVIOUS
<1>8. /\ a.f = "WillDetachWebStateAt" /\ a.w = w /\ b.f = "SetActiveWebState" /\ d.w = w
      /\ d.f = "DestroyQueue" \/ (d.f = "SetDelegate" /\ d.x = "other")
  BY <1>4, <1>5, PartsOfCalls
<1>9. MayPrecede(a, b) /\ MayPrecede(a, d) /\ MayPrecede(b, d)
  BY <1>8 DEF MayPrecede
<1>10. /\ CallsIn(When(yes, a) \o When(test, b) \o When(yes, d))
            = {c \in {a} : yes} \cup {c \in {b} : test} \cup {c \in {d} : yes}
       /\ InOrder(When(yes, a) \o When(test, b) \o When(yes, d))
  BY <1>9, ThreeInOrder
<1> DEFINE made == When(yes, a) \o When(test, b) \o When(yes, d)
<1>11. Entering(made)
  <2>1. When(test, b) = When(w = presenter.active_web_state,
                             Call("SetActiveWebState", Null, next, "Closed"))
    BY <1>4, <1>6 DEF When
  <2>2. Entering(<<a>> \o When(w = presenter.active_web_state,
                               Call("SetActiveWebState", Null, next, "Closed")) \o <<d>>)
    BY <1>3, <1>4, <1>5, Zenon
  <2>3. When(yes, a) = <<a>> /\ When(yes, d) = <<d>>
    BY <1>7 DEF When
  <2> QED
    BY <2>1, <2>2, <2>3
<1>12. /\ InOrder(made)
       /\ CallsIn(made) = {a, d} \cup {c \in {b} : test}
  BY <1>7, <1>10
<1> HIDE DEF made
<1>13. /\ calls = << >> /\ Stack' = CallsIn(made)
       /\ UNCHANGED <<queues, delegate, owner, presenter, context, container>>
  BY <1>1, <1>11 DEF Entering, Stack, exceptCallsAndPhase
<1>14. Activating' => test
  BY <1>8, <1>12, <1>13 DEF Activating
<1>15. Knows(a)'
  <2>1. Activating' => presenter'.active_web_state = a.w
    BY <1>6, <1>8, <1>13, <1>14
  <2>2. delegate'[a.w] # "other"
    BY <1>1, <1>8, <1>13, BetweenCalls
  <2>3. DelegatesKnownTo(a)'
    BY <1>2, <1>8, <2>1, <2>2 DEF DelegatesKnownTo, IsAdding
  <2>4. RequestsKnownTo(a)'
    BY <1>8 DEF RequestsKnownTo
  <2> QED
    BY <2>3, <2>4 DEF Knows
<1>16. Knows(b)'
  BY <1>8 DEF Knows, DelegatesKnownTo, RequestsKnownTo, IsAdding
<1>17. Knows(d)'
  <2>1. DelegatesKnownTo(d)'
    BY <1>8 DEF DelegatesKnownTo, IsAdding
  <2>2. RequestsKnownTo(d)'
    BY <1>8 DEF RequestsKnownTo
  <2> QED
    BY <2>1, <2>2 DEF Knows
<1>18. \A c \in CallsIn(made) : Knows(c)'
  BY <1>12, <1>15, <1>16, <1>17
<1>19. ASSUME NEW v \in WebStates
       PROVE  /\ phase'[v] = "tab" => \/ phase[v] = "tab"
                                      \/ \E c \in CallsIn(made) : IsAdding(c, v)
              /\ Left(v) => Left(v)'
  BY <1>2 DEF Left
<1>20. \/ \E c \in CallsIn(made) : c.f = "SetActiveWebState"
       \/ presenter.active_web_state = Null
       \/ phase'[presenter.active_web_state] = "tab"
  <2>1. CASE test
    BY <1>8, <1>12, <2>1
  <2>2. CASE ~test
    BY <1>2, <1>6, <1>13, <2>2, BetweenCalls
  <2> QED
    BY <2>1, <2>2
<1> QED
  BY <1>1, <1>11, <1>12, <1>18, <1>19, <1>20, TabEventSafe

LEMMA FourInOrder ==
  ASSUME NEW a, NEW b, NEW c, NEW d,
         MayPrecede(a, b), MayPrecede(a, c), MayPrecede(a, d),
         MayPrecede(b, c), MayPrecede(b, d), MayPrecede(c, d)
  PROVE  InOrder(<<a, b, c, d>>) /\ CallsIn(<<a, b, c, d>>) = {a, b, c, d}
<1> DEFINE s == <<a, b, c, d>>
<1>1. Len(s) = 4 /\ s[1] = a /\ s[2] = b /\ s[3] = c /\ s[4] = d
  OBVIOUS
<1> HIDE DEF s
<1>2. CallsIn(s) = {a, b, c, d}
  BY <1>1 DEF CallsIn
<1>3. InOrder(s)
  <2> SUFFICES ASSUME NEW i \in 1..4, NEW j \in 1..4, i < j
               PROVE  MayPrecede(s[i], s[j])
    BY <1>1 DEF InOrder
  <2>1. \/ i = 1 /\ (j = 2 \/ j = 3 \/ j = 4)
        \/ i = 2 /\ (j = 3 \/ j = 4)
        \/ i = 3 /\ j = 4
    OBVIOUS
  <2> QED
    BY <1>1, <2>1
<1> QED
  BY <1>2, <1>3 DEF s

LEMMA ReplaceActiveTabSafe ==
  ASSUME Inv, RequestsInv, NEW new \in WebStates, ReplaceActiveTab(new)
  PROVE  RequestsInv'
<1>1. PICK old : old = presenter.active_web_state
  OBVIOUS
<1>2. /\ old # Null /\ phase[new] = "new" /\ UNCHANGED exceptCallsAndPhase
      /\ phase' = [phase EXCEPT ![old] = "detached", ![new] = "tab"]
      /\ calls = << >>
  BY <1>1 DEF ReplaceActiveTab, Entering
<1>3. /\ old \in WebStates /\ old # new
      /\ phase[old] = "tab" /\ delegate[old] = "presenter"
  BY <1>1, <1>2, BetweenCalls
<1>4. /\ phase'[old] = "detached" /\ phase'[new] = "tab" /\ Left(old)'
      /\ \A v \in WebStates : v # old /\ v # new => phase'[v] = phase[v]
  BY <1>2, <1>3, PhaseTypes DEF Left
<1>5. PICK a, b : /\ a = OnWebState("WebStateRemovedFromBrowser", old)
                  /\ b = OnWebState("WebStateAddedToBrowser", new)
  OBVIOUS
<1>6. PICK c, d : /\ c = Call("SetActiveWebState", Null, new, "Replaced")
                  /\ d = OnWebState("DestroyQueue", old)
  OBVIOUS
<1>7. /\ a.f = "WebStateRemovedFromBrowser" /\ a.w = old
      /\ b.f = "WebStateAddedToBrowser" /\ b.w = new
      /\ c.f = "SetActiveWebState" /\ d.f = "DestroyQueue" /\ d.w = old
  BY <1>5, <1>6, PartsOfCalls
<1>8. /\ MayPrecede(a, b) /\ MayPrecede(a, c) /\ MayPrecede(a, d)
      /\ MayPrecede(b, c) /\ MayPrecede(b, d) /\ MayPrecede(c, d)
  BY <1>7 DEF MayPrecede
<1> DEFINE made == <<a, b, c, d>>
<1>9. Entering(made)
  BY <1>1, <1>5, <1>6 DEF ReplaceActiveTab
<1>10. InOrder(made) /\ CallsIn(made) = {a, b, c, d}
  BY <1>8, FourInOrder
<1> HIDE DEF made
<1>11. UNCHANGED <<queues, delegate, owner, presenter, context, container>>
  BY <1>2 DEF exceptCallsAndPhase
<1>12. Knows(a)'
  <2>1. presenter'.active_web_state = a.w
    BY <1>1, <1>7, <1>11
  <2>2. DelegatesKnownTo(a)'
    BY <1>3, <1>4, <1>7, <1>11, <2>1 DEF DelegatesKnownTo, IsAdding
  <2>3. RequestsKnownTo(a)'
    BY <1>7 DEF RequestsKnownTo
  <2> QED
    BY <2>2, <2>3 DEF Knows
<1>13. Knows(b)' /\ Knows(c)'
  BY <1>4, <1>7 DEF Tabs, Knows, DelegatesKnownTo, RequestsKnownTo, IsAdding
<1>14. Knows(d)'
  BY <1>3, <1>7, <1>11 DEF Knows, DelegatesKnownTo, RequestsKnownTo, IsAdding
<1>15. \A e \in CallsIn(made) : Knows(e)'
  BY <1>10, <1>12, <1>13, <1>14
<1>16. b \in CallsIn(made) /\ IsAdding(b, new) /\ c \in CallsIn(made)
  BY <1>7, <1>10 DEF IsAdding
<1>17. ASSUME NEW v \in WebStates
       PROVE  /\ phase'[v] = "tab" => \/ phase[v] = "tab"
                                      \/ \E e \in CallsIn(made) : IsAdding(e, v)
              /\ Left(v) => Left(v)'
  BY <1>2, <1>4, <1>16 DEF Left
<1> QED
  BY <1>2, <1>7, <1>9, <1>10, <1>15, <1>16, <1>17, TabEventSafe

LEMMA CloseMovedTabSafe ==
  ASSUME Inv, RequestsInv, NEW w \in WebStates, CloseMovedTab(w)
  PROVE  RequestsInv'
<1>1. UNCHANGED phase /\ UNCHANGED exceptCallsAndPhase
  BY DEF CloseMovedTab
<1>2. PICK a : a = OnWebState("DestroyQueue", w)
  OBVIOUS
<1>3. PICK yes \in BOOLEAN : yes
  OBVIOUS
<1> DEFINE made == When(yes, a)
<1>4. Entering(made) /\ CallsIn(made) = {c \in {a} : yes} /\ InOrder(made)
  BY <1>2, <1>3, PerhapsOne DEF CloseMovedTab, When
<1> HIDE DEF made
<1>5. a.f = "DestroyQueue"
  BY <1>2, PartsOfCalls
<1>6. \A c \in CallsIn(made) : Knows(c)'
  <2>1. Knows(a)'
    BY <1>5 DEF Knows, DelegatesKnownTo, RequestsKnownTo, IsAdding
  <2> QED
    BY <1>4, <2>1
<1>7. ASSUME NEW v \in WebStates
      PROVE  /\ phase'[v] = "tab" => \/ phase[v] = "tab"
                                     \/ \E c \in CallsIn(made) : IsAdding(c, v)
             /\ Left(v) => Left(v)'
  BY <1>1 DEF Left
<1>8. presenter.active_web_state = Null \/ phase'[presenter.active_web_state] = "tab"
  <2>1. calls = << >>
    BY <1>4 DEF Entering
  <2> QED
    BY <1>1, <2>1, BetweenCalls
<1> QED
  BY <1>1, <1>4, <1>6, <1>7, <1>8, TabEventSafe

LEMMA CancelRequestSafe ==
  ASSUME Inv, RequestsInv, NEW w \in WebStates, NEW r \in Requests, CancelRequest(w, r)
  PROVE  RequestsInv'
<1>1. /\ w \in Holders(r)
      /\ UNCHANGED phase /\ UNCHANGED exceptCallsAndPhase
  BY DEF CancelRequest, otherThanQueues, exceptCallsAndPhase
<1>2. PICK a : a = Call("RemoveRequest", r, w, "cancelled")
  OBVIOUS
<1>3. PICK yes \in BOOLEAN : yes
  OBVIOUS
<1> DEFINE made == When(yes, a)
<1>4. Entering(made) /\ CallsIn(made) = {c \in {a} : yes} /\ InOrder(made)
  BY <1>2, <1>3, PerhapsOne DEF CancelRequest, When
<1> HIDE DEF made
<1>5. a.f = "RemoveRequest" /\ a.r = r /\ a.w = w /\ a.x = "cancelled"
  BY <1>2, PartsOfCalls
<1>6. calls = << >> /\ UNCHANGED <<queues, delegate, owner, presenter>>
  BY <1>1, <1>4 DEF Entering, exceptCallsAndPhase
<1>7. owner'[r] = w /\ w # Null /\ r # Null
  <2>1. owner[r] = w
    BY <1>1 DEF Holders, Inv, QueuesOK
  <2> QED
    BY <1>6, <2>1, NullAssumption
<1>8. \A c \in CallsIn(made) : Knows(c)'
  <2>1. RequestsKnownTo(a)'
    BY <1>5, <1>7 DEF RequestsKnownTo
  <2>2. DelegatesKnownTo(a)'
    BY <1>5 DEF DelegatesKnownTo, IsAdding
  <2> QED
    BY <1>4, <2>1, <2>2 DEF Knows
<1>9. ASSUME NEW v \in WebStates
      PROVE  /\ phase'[v] = "tab" => \/ phase[v] = "tab"
                                     \/ \E c \in CallsIn(made) : IsAdding(c, v)
             /\ Left(v) => Left(v)'
  BY <1>1 DEF Left
<1>10. presenter.active_web_state = Null \/ phase'[presenter.active_web_state] = "tab"
  BY <1>1, <1>6, BetweenCalls
<1> QED
  BY <1>1, <1>4, <1>8, <1>9, <1>10, TabEventSafe

\* The request that is inserted pushes the front request back by one, or leaves
\* it in front.
LEMMA HeldAfterInsertion ==
  ASSUME Inv, NEW w \in WebStates, NEW r \in Requests,
         NEW index \in 1..(Len(queues[w]) + 1), InsertRequest(w, r, index)
  PROVE  /\ \A v \in WebStates : \A q : /\ Holds(v, q) => Holds(v, q)'
                                        /\ Holds(v, q)' => Holds(v, q) \/ q = r
         /\ \A v \in WebStates : v # w => FrontRequest(v)' = FrontRequest(v)
         /\ FrontRequest(w) # Null =>
              \/ FrontRequest(w)' = FrontRequest(w)
              \/ /\ FrontRequest(w)' = r
                 /\ Len(queues'[w]) > 1 /\ queues'[w][2] = FrontRequest(w)
<1>1. /\ queues \in [WebStates -> Seq(Requests)]
      /\ queues' = [queues EXCEPT ![w] = InsertAt(queues[w], index, r)]
  BY DEF Inv, Types, InsertRequest
<1> DEFINE s == queues[w]
           t == InsertAt(s, index, r)
<1>2. s \in Seq(Requests) /\ Len(s) \in Nat /\ index \in 1..(Len(s) + 1)
  BY <1>1
<1>3. /\ t \in Seq(Requests) /\ Len(t) = Len(s) + 1
      /\ \A j \in 1..(Len(s) + 1) :
           t[j] = IF j < index THEN s[j] ELSE IF j = index THEN r ELSE s[j - 1]
  <2>1. ASSUME NEW q \in Seq(Requests), NEW n \in 1..(Len(q) + 1)
        PROVE  /\ InsertAt(q, n, r) \in Seq(Requests)
               /\ Len(InsertAt(q, n, r)) = Len(q) + 1
               /\ \A j \in 1..(Len(q) + 1) :
                    InsertAt(q, n, r)[j] = IF j < n THEN q[j]
                                           ELSE IF j = n THEN r ELSE q[j - 1]
    BY InsertAtPositions
  <2> HIDE DEF s
  <2> QED
    BY ONLY <1>2, <2>1
<1>4. queues'[w] = t /\ \A v \in WebStates : v # w => queues'[v] = queues[v]
  BY <1>1
<1> HIDE DEF t
<1>5. \A v \in WebStates : v # w => FrontRequest(v)' = FrontRequest(v)
  BY <1>4 DEF FrontRequest
<1>6. ASSUME NEW q, NEW i \in 1..Len(s), s[i] = q
      PROVE  \E j \in 1..Len(t) : t[j] = q
  <2>1. CASE i < index
    BY <1>2, <1>3, <1>6, <2>1
  <2>2. CASE i >= index
    <3>1. i + 1 \in 1..Len(t) /\ t[i + 1] = s[i]
      BY <1>2, <1>3, <2>2
    <3> QED
      BY <1>6, <3>1
  <2> QED
    BY <1>2, <2>1, <2>2
<1>7. ASSUME NEW q, NEW j \in 1..Len(t), t[j] = q, q # r
      PROVE  \E i \in 1..Len(s) : s[i] = q
  <2>1. CASE j < index
    BY <1>2, <1>3, <1>7, <2>1
  <2>2. CASE j > index
    <3>1. j - 1 \in 1..Len(s) /\ t[j] = s[j - 1]
      BY <1>2, <1>3, <2>2
    <3> QED
      BY <1>7, <3>1
  <2>3. j # index
    BY <1>2, <1>3, <1>7
  <2> QED
    BY <1>2, <1>3, <2>1, <2>2, <2>3
<1>8. ASSUME NEW v \in WebStates, NEW q
      PROVE  /\ Holds(v, q) => Holds(v, q)'
             /\ Holds(v, q)' => Holds(v, q) \/ q = r
  <2>1. CASE v = w
    BY <1>4, <1>6, <1>7, <2>1 DEF Holds
  <2>2. CASE v # w
    BY <1>4, <2>2 DEF Holds
  <2> QED
    BY <2>1, <2>2
<1>9. ASSUME FrontRequest(w) # Null
      PROVE  \/ FrontRequest(w)' = FrontRequest(w)
             \/ /\ FrontRequest(w)' = r
                /\ Len(queues'[w]) > 1 /\ queues'[w][2] = FrontRequest(w)
  <2>1. w # Null /\ s # << >> /\ FrontRequest(w) = s[1]
    BY <1>9 DEF FrontRequest
  <2>2. Len(s) >= 1 /\ Len(t) > 1
    BY <1>2, <1>3, <2>1, EmptySeq
  <2>3. t # << >>
    BY <1>3, <2>2, EmptySeq
  <2>4. FrontRequest(w)' = t[1]
    BY <1>4, <2>1, <2>3 DEF FrontRequest
  <2>5. CASE index = 1
    <3>1. t[1] = r /\ t[2] = s[1]
      BY <1>2, <1>3, <2>2, <2>5
    <3> QED
      BY <1>4, <2>1, <2>2, <2>4, <3>1
  <2>6. CASE index > 1
    <3>1. t[1] = s[1]
      BY <1>2, <1>3, <2>2, <2>6
    <3> QED
      BY <2>1, <2>4, <3>1
  <2> QED
    BY <1>2, <2>5, <2>6
<1> QED
  BY <1>5, <1>8, <1>9

LEMMA InsertRequestSafe ==
  ASSUME Inv, RequestsInv, NEW w \in WebStates, NEW r \in Requests,
         NEW index \in 1..(Len(queues[w]) + 1), InsertRequest(w, r, index)
  PROVE  RequestsInv'
<1>1. /\ owner \in [Requests -> WebStates \cup {Null}]
      /\ owner[r] = Null /\ owner' = [owner EXCEPT ![r] = w]
      /\ UNCHANGED <<phase, delegate, presenter, context, container>>
  BY DEF InsertRequest, otherThanQueues, Inv, Types
<1>2. PICK a : a = Call("RequestAddedToQueue", r, w, "none")
  OBVIOUS
<1>3. PICK here \in BOOLEAN : here <=> phase[w] = "tab"
  OBVIOUS
<1> DEFINE made == When(here, a)
<1>4. Entering(made) /\ CallsIn(made) = {c \in {a} : here} /\ InOrder(made)
  BY <1>2, <1>3, PerhapsOne DEF InsertRequest, When
<1> HIDE DEF made
<1>5. calls = << >> /\ Stack = {} /\ Stack' = {c \in {a} : here} /\ InOrder(calls)'
  BY <1>4, EmptyStack DEF Entering, Stack, CallsIn, InOrder
<1>6. a.f = "RequestAddedToQueue" /\ a.r = r /\ a.w = w
  BY <1>2, PartsOfCalls
<1>7. CallsKnow'
  <2>1. Knows(a)'
    BY <1>6 DEF Knows, DelegatesKnownTo, RequestsKnownTo, IsAdding
  <2> QED
    BY <1>5, <2>1 DEF CallsKnow
<1>8. \A q \in Requests : q # r => owner'[q] = owner[q]
  BY <1>1
<1>9. PICK p, z : p = presenter.presented_request /\ z = presenter.removed_request
  OBVIOUS
<1>10. /\ p \in Requests \cup {Null} /\ z \in Requests \cup {Null}
       /\ r # Null /\ Null \notin WebStates
  BY <1>9, PresenterTyped, NullAssumption
<1>11. z # Null => z # r /\ owner'[z] # Null /\ ~Held(z)
  BY <1>1, <1>8, <1>9, <1>10 DEF RequestsInv, RequestsOK
<1>12. ASSUME NEW q, Alive(q), q # Null PROVE Alive(q)' /\ q # r
  <2>1. CASE q = z
    BY <1>1, <1>9, <1>11, <1>12, <2>1 DEF Alive
  <2>2. CASE q # z
    <3>1. PICK v \in WebStates : Holds(v, q)
      BY <1>9, <1>12, <2>2 DEF Alive, Holders, Holds
    <3>2. owner[q] = v /\ v # Null
      BY <1>10, <3>1, HolderIsOwner
    <3>3. Holds(v, q)'
      BY <3>1, HeldAfterInsertion
    <3> QED
      BY <1>1, <3>2, <3>3 DEF Alive, Holders, Holds
  <2> QED
    BY <2>1, <2>2
<1>13. p # Null => (Alive(p)' \/ Moved(p)') /\ p # r /\ owner'[p] = owner[p]
  <2>1. p # Null => Alive(p) \/ Moved(p)
    BY <1>5, <1>9, BetweenCalls
  <2>2. p # Null => p # r
    BY <1>1, <1>10, <1>12, <2>1 DEF Moved
  <2> QED
    BY <1>1, <1>8, <1>10, <1>12, <2>1, <2>2 DEF Moved
<1>14. TabsOK'
  <2>1. /\ \A v \in Tabs' : delegate'[v] = "presenter"
        /\ \A v \in WebStates : delegate'[v] = "other" => Left(v)'
    BY <1>1, <1>5, BetweenCalls DEF Tabs, Left
  <2>2. presenter'.active_web_state # Null =>
          /\ phase'[presenter'.active_web_state] = "tab"
          /\ delegate'[presenter'.active_web_state] = "presenter"
    BY <1>1, <1>5, BetweenCalls
  <2>3. presenter'.detached_queue # Null =>
          /\ Left(presenter.detached_queue)'
          /\ presenter'.presented_request # Null =>
               owner'[presenter'.presented_request] = presenter'.detached_queue
          /\ presenter'.has_context => presenter'.presented_request # Null
    BY <1>1, <1>9, <1>13 DEF RequestsInv, TabsOK, Left
  <2> QED
    BY <2>1, <2>2, <2>3 DEF TabsOK
<1>15. RequestsOK'
  <2>1. \A q \in presenter'.previously_presented : Alive(q)'
    BY <1>1, <1>5, <1>10, <1>12, BetweenCalls, PresenterTyped, NullAssumption
  <2>2. presenter'.presented_request # Null =>
          Alive(presenter.presented_request)' \/ Moved(presenter.presented_request)'
    BY <1>1, <1>9, <1>13 DEF Alive, Holders, Moved
  <2>3. z # Null => ~Held(z)'
    <3>1. ASSUME z # Null, NEW v \in WebStates, Holds(v, z)' PROVE FALSE
      <4>1. Holds(v, z)
        BY <1>11, <3>1, HeldAfterInsertion
      <4> QED
        BY <1>11, <3>1, <4>1 DEF Held
    <3> QED
      BY <3>1 DEF Held
  <2>4. presenter'.removed_request # Null =>
          /\ ~Held(presenter.removed_request)' /\ owner'[presenter'.removed_request] # Null
          /\ presenter'.has_context
               => presenter'.removed_request = presenter'.presented_request
    BY <1>1, <1>9, <1>11, <2>3 DEF RequestsInv, RequestsOK, Held, Holds
  <2>5. ASSUME NEW v \in WebStates, Holds(v, presenter.presented_request)'
        PROVE  delegate'[v] # "none"
    <3>1. Holds(v, p)'
      BY <1>1, <1>9, <2>5 DEF Holds
    <3>2. Holds(v, p)
      BY <1>10, <1>13, <3>1, HeldAfterInsertion
    <3> QED
      BY <1>1, <1>9, <3>2 DEF RequestsInv, RequestsOK
  <2> QED
    BY <2>1, <2>2, <2>4, <2>5 DEF RequestsOK
<1>16. AnswersOK'
  <2> SUFFICES ASSUME NEW q \in Requests, q = presenter'.presented_request, Answerable(q)'
               PROVE  /\ context'.states[q].queue = owner'[q]
                      /\ InFront(q)' \/ (\E c \in Stack : TakesBack(c, q))'
    BY DEF AnswersOK
  <2>1. q = p /\ q # Null /\ Answerable(q)
    BY <1>1, <1>9, NullAssumption DEF Answerable, Callback
  <2>2. context.states[q].queue = owner[q] /\ InFront(q)
    BY <1>5, <1>9, <2>1, BetweenCalls
  <2>3. owner'[q] = owner[q]
    BY <1>13, <2>1
  <2>4. CASE z = q
    BY <1>1, <1>9, <2>2, <2>3, <2>4 DEF InFront
  <2>5. CASE z # q
    <3>1. PICK u : u = owner[q]
      OBVIOUS
    <3>2. FrontRequest(u) = q /\ presenter.active_web_state = u
      BY <1>9, <2>2, <2>5, <3>1 DEF InFront
    <3>3. u \in WebStates
      <4>1. u # Null
        BY <2>1, <3>2 DEF FrontRequest
      <4> QED
        BY <1>1, <3>1, <4>1
    <3>4. CASE FrontRequest(u)' = q
      <4>1. presenter'.active_web_state = owner'[q] /\ FrontRequest(owner[q])' = q
        BY <1>1, <2>3, <3>1, <3>2, <3>4 DEF FrontRequest
      <4> QED
        BY <1>1, <2>2, <2>3, <4>1 DEF InFront
    <3>5. CASE FrontRequest(u)' # q
      <4>1. u = w
        BY <3>2, <3>3, <3>5, HeldAfterInsertion
      <4>2. /\ FrontRequest(w)' = r
            /\ Len(queues'[w]) > 1 /\ queues'[w][2] = q
        BY <2>1, <3>2, <3>5, <4>1, HeldAfterInsertion
      <4>3. presenter'.active_web_state = w /\ ActiveRequest' = r
        BY <1>1, <3>2, <4>1, <4>2 DEF ActiveRequest, FrontRequest
      <4>4. TakesBack(a, q)'
        BY <1>6, <4>2, <4>3 DEF TakesBack
      <4>5. here
        BY <1>3, <1>5, <3>2, <3>3, <4>1, BetweenCalls, NullAssumption
      <4> QED
        BY <1>1, <1>5, <2>2, <2>3, <4>4, <4>5
    <3> QED
      BY <3>4, <3>5
  <2> QED
    BY <2>4, <2>5
<1> QED
  BY <1>5, <1>7, <1>14, <1>15, <1>16 DEF RequestsInv

----------------------------------------------------------------------------
(* The invariant.                                                          *)

LEMMA InitIsSafe ==
  ASSUME Init
  PROVE  RequestsInv
<1>1. Inv /\ calls = << >>
  BY InitIsOK DEF Init
<1>2. Stack = {} /\ Len(calls) = 0
  BY <1>1, EmptyStack
<1>3. /\ presenter.presented_request = Null /\ presenter.removed_request = Null
      /\ presenter.previously_presented = {} /\ presenter.active_web_state = Null
      /\ presenter.detached_queue = Null
  BY DEF Init
<1>4. Tabs = {}
  BY DEF Init, Tabs
<1>5. InOrder(calls) /\ CallsKnow
  BY <1>2 DEF InOrder, CallsKnow
<1>6. TabsOK
  <2>1. \A w \in WebStates : delegate[w] # "other"
    BY DEF Init
  <2> QED
    BY <1>3, <1>4, <2>1 DEF TabsOK
<1>7. RequestsOK
  BY <1>1, <1>3, NullNotHeld DEF RequestsOK
<1>8. AnswersOK
  BY <1>3, NullAssumption DEF AnswersOK
<1> QED
  BY <1>5, <1>6, <1>7, <1>8 DEF RequestsInv

LEMMA EventsKeepRequests ==
  ASSUME Inv, RequestsInv, TabEvents \/ RequestEvents \/ UIEvents \/ UIKitCompletions
  PROVE  RequestsInv'
<1>1. CASE TabEvents
  BY <1>1, InsertTabSafe, ActivateTabSafe, CloseMovedTabSafe, DetachTabSafe,
     ReplaceActiveTabSafe DEF TabEvents
<1>2. CASE RequestEvents
  BY <1>2, InsertRequestSafe, CancelRequestSafe DEF RequestEvents
<1>3. CASE UIEvents
  BY <1>3, UserDismissesSafe, SetUIDisabledSafe, SetWindowSafe, StartOrStopContainerSafe
     DEF UIEvents
<1>4. CASE UIKitCompletions
  BY <1>4, DismissalFinishesSafe, PresentationContextPresentedSafe DEF UIKitCompletions
<1> QED
  BY <1>1, <1>2, <1>3, <1>4

LEMMA CallsKeepRequests ==
  ASSUME Inv, RequestsInv, Calls
  PROVE  RequestsInv'
<1>1. CASE QueueCalls
  BY <1>1, RemoveRequestSafe, PopFrontRequestSafe, DestroyQueueSafe, SetDelegateSafe
     DEF QueueCalls
<1>2. CASE ContextCalls
  BY <1>2, HideOverlayUISafe, CancelOverlayUISafe, ShowOverlayUISafe,
     DidFinishDismissalSafe, UIWasDismissedThenSafe, PrepareSafe, SetViewControllerSafe,
     UpdateCapabilitiesSafe, UpdateCapabilitiesThenSafe, SetContextDelegateSafe,
     StopContainerSafe, UpdatePresentationContextSafe, StopPresentationContextSafe
     DEF ContextCalls
<1>3. CASE PresenterCalls
  BY <1>3, PresentSafe, OverlayWasDismissedSafe, OverlayWasDismissedThenSafe,
     DestroyRequestSafe, SetPresentationContextSafe, CancelFrontRequestUISafe,
     SetPresentationContextThenSafe, SetActiveWebStateSafe, WebStateAddedSafe,
     WebStateRemovedSafe, WillDetachSafe, RequestAddedSafe, OverlayRequestRemovedSafe,
     QueueWillReplaceDelegateSafe, WillChangeSafe, PresentUnlessPresentingSafe
     DEF PresenterCalls
<1> QED
  BY <1>1, <1>2, <1>3 DEF Calls

LEMMA StutteringKeepsRequests ==
  ASSUME RequestsInv, UNCHANGED vars
  PROVE  RequestsInv'
<1>1. /\ UNCHANGED <<calls, phase, queues, delegate, owner, presenter, context>>
      /\ Stack' = Stack
  BY DEF vars, Stack
<1>2. KeepsRequests
  BY <1>1, RequestsUntouched
<1>3. TabsOK' /\ RequestsOK' /\ AnswersOK'
  BY <1>1, <1>2, StateStaysOK
<1>4. InOrder(calls)'
  BY <1>1 DEF RequestsInv, InOrder
<1>5. ASSUME NEW c \in Stack' PROVE Knows(c)'
  <2>1. Knows(c) /\ c \in Stack
    BY <1>1 DEF RequestsInv, CallsKnow
  <2>2. DelegatesKnownTo(c)'
    BY <1>1, <2>1 DEF Knows, DelegatesKnownTo, Left, Activating, Holds, Callback,
                        IsAdding, Tabs
  <2>3. /\ FrontRequest(c.w)' = FrontRequest(c.w)
        /\ PresentedInFront(c.w)' = PresentedInFront(c.w)
        /\ Callback(FrontRequest(c.w))' = Callback(FrontRequest(c.w))
        /\ Callback(c.r)' = Callback(c.r) /\ Answerable(c.r)' = Answerable(c.r)
        /\ InFront(c.r)' = InFront(c.r)
    BY <1>1 DEF FrontRequest, PresentedInFront, Callback, Answerable, InFront
  <2>4. RequestsKnownTo(c)'
    BY <1>1, <2>1, <2>3 DEF Knows, RequestsKnownTo
  <2> QED
    BY <2>2, <2>4 DEF Knows
<1> QED
  BY <1>3, <1>4, <1>5 DEF RequestsInv, CallsKnow

LEMMA RequestsInvIsInvariant == Spec => [](Inv /\ RequestsInv)
<1>1. Init => Inv /\ RequestsInv
  BY InitIsOK, InitIsSafe
<1>2. Inv /\ RequestsInv /\ [Next]_vars => RequestsInv'
  BY EventsKeepRequests, CallsKeepRequests, StutteringKeepsRequests DEF Next
<1> QED
  BY <1>1, <1>2, InvIsInvariant, PTL DEF Spec

----------------------------------------------------------------------------
(* The theorems.                                                           *)

\* The queue of every tab of the window has the presenter as its delegate
\* between calls: detached_presenting_request_queue_ never makes
\* OverlayRequestRemoved give up the queue of a tab that is still there.
THEOREM TabsAlwaysKeepTheirDelegate == Spec => []TabsKeepTheirDelegate
<1>1. ASSUME Inv, RequestsInv PROVE TabsKeepTheirDelegate
  BY <1>1, BetweenCalls DEF TabsKeepTheirDelegate, Quiet
<1> QED
  BY <1>1, RequestsInvIsInvariant, PTL

\* presented_request_ and previously_presented_requests_ never outlive their
\* requests: between calls a queue owns each of them, or the presenter itself.
\* The one exception is presented_request_ when its queue has become another
\* presenter's: then only that presenter hears of the removal.
THEOREM RequestsNeverDangle == Spec => []NoDanglingRequest
<1>1. ASSUME Inv, RequestsInv PROVE NoDanglingRequest
  BY <1>1, BetweenCalls, NullAssumption DEF NoDanglingRequest, Quiet, Moved
<1> QED
  BY <1>1, RequestsInvIsInvariant, PTL

\* The DCHECK after PopFrontRequest holds: the request that is popped is the one
\* whose UI the user dismissed, whatever was inserted, activated or detached
\* between the dismissal and its callback.
THEOREM AlwaysPopsWhatWasDismissed == Spec => []PopsWhatWasDismissed
<1>1. ASSUME Inv, RequestsInv, Running("RemoveRequest"), arg.x = "popped"
      PROVE  arg.r # Null /\ arg.r = presenter.presented_request
  <2>1. arg.f = "RemoveRequest" /\ calls # << >>
    BY <1>1 DEF Running, arg
  <2>2. RequestsKnownTo(arg)
    BY <1>1, <2>1, RunningKnows DEF Knows
  <2> QED
    BY <1>1, <2>1, <2>2 DEF RequestsKnownTo
<1>2. ASSUME Inv, RequestsInv PROVE PopsWhatWasDismissed
  BY <1>1, <1>2 DEF PopsWhatWasDismissed
<1> QED
  BY <1>2, RequestsInvIsInvariant, PTL
=============================================================================
