--------------------------- MODULE WebStateList ---------------------------
(***************************************************************************)
(* chrome/browser/web_state_list/web_state_list.mm: the ordered list of    *)
(* the tabs of a window, with the opener relation between them and the     *)
(* active tab.                                                             *)
(*                                                                         *)
(* Every mutating method holds the lock (locked_) and calls the observers  *)
(* at several points, between two partial updates of the list.  A method   *)
(* is therefore several actions: the first runs up to the first observer   *)
(* call, and each continuation (After...) runs from one observer call to   *)
(* the next.  `op' is the observer call being made, with the locals the    *)
(* rest of the method needs; op.step = "Idle" is the unlocked list.        *)
(***************************************************************************)
EXTENDS WebStateListOrderController, SequencesExt

CONSTANT MaxNavigationIndex   \* bound on the last committed item index

ASSUME MaxNavigationIndexAssumption == MaxNavigationIndex \in Nat

VARIABLES
  web_state_wrappers,   \* sequence of WebStateWrapper
  active_index,         \* active_index_, 0 for kInvalidIndex
  batch,                \* batch_operation_in_progress_, and who began it
  op,                   \* the running method (see above)
  realized,             \* external: the WebStates with WebState::IsRealized
  nav                   \* external: GetLastCommittedItemIndex per WebState

listVars == <<web_state_wrappers, active_index, batch, op>>
vars == <<web_state_wrappers, active_index, batch, op, realized, nav>>

NavigationIndexes == -1..MaxNavigationIndex

Openers == [opener : WebStates \cup {NoWebState},
            navigation_index : NavigationIndexes]

Wrappers == [web_state : WebStates, opener : Openers,
             should_reset_opener : BOOLEAN]

Steps == {"Idle", "WebStateInsertedAt", "WebStateMoved", "WebStateReplacedAt",
          "WillDetachWebStateAt", "WebStateDetachedAt", "WebStateActivatedAt",
          "WillCloseWebStateAt", "WillBeginBatchOperation",
          "BatchOperationEnded"}

Operations == [step : Steps,
               web_state : WebStates \cup {NoWebState},
               old_web_state : WebStates \cup {NoWebState},
               index : Nat,
               opener : Openers,    \* to set once the insertion is notified
               activate : BOOLEAN,  \* INSERT_ACTIVATE, or the active WebState
                                    \* is the one that was detached
               close : BOOLEAN]     \* inside CloseWebStateAtImpl

Idle == [step |-> "Idle", web_state |-> NoWebState,
         old_web_state |-> NoWebState, index |-> kInvalidIndex,
         opener |-> NullOpener, activate |-> FALSE, close |-> FALSE]

GetActiveWebState == WebStateAtOrNull(web_state_wrappers, active_index)

IsMutating == op.step # "Idle"

----------------------------------------------------------------------------
(* WebStateWrapper.                                                        *)

WebStateWrapper(web_state) ==
  [web_state |-> web_state, opener |-> NullOpener,
   should_reset_opener |-> FALSE]

SetOpener(wrapper, opener) ==
  [wrapper EXCEPT !.opener = opener, !.should_reset_opener = FALSE]

\* Keeps should_reset_opener_.
ReplaceWebState(wrapper, web_state) ==
  [wrapper EXCEPT !.web_state = web_state, !.opener = NullOpener]

\* Mutant: compares the opener with the wrapper's own WebState.
ClearOpenersOfItself(ws, web_state) ==
  [i \in 1..Len(ws) |->
     IF ws[i].web_state = web_state THEN SetOpener(ws[i], NullOpener)
                                    ELSE ws[i]]

ClearOpenersReferencing(ws, web_state) ==
  [i \in 1..Len(ws) |->
     IF ws[i].opener.opener = web_state THEN SetOpener(ws[i], NullOpener)
                                        ELSE ws[i]]

ClearAllOpeners(ws) == [i \in 1..Len(ws) |-> SetOpener(ws[i], NullOpener)]

----------------------------------------------------------------------------
(* Pieces shared by several methods.                                       *)

\* Mutants: a null new WebState is realized too; no WebState is realized.
NotifyRealizingNull(ws, old_web_state, index, close, after) ==
  LET new_web_state == WebStateAtOrNull(ws, index) IN
  IF old_web_state = new_web_state
  THEN op' = after /\ UNCHANGED realized
  ELSE /\ op' = [Idle EXCEPT !.step = "WebStateActivatedAt",
                             !.web_state = new_web_state,
                             !.old_web_state = old_web_state,
                             !.index = index, !.close = close]
       /\ realized' = realized \cup {new_web_state}

NotifyWithoutRealizing(ws, old_web_state, index, close, after) ==
  LET new_web_state == WebStateAtOrNull(ws, index) IN
  /\ op' = IF old_web_state = new_web_state
           THEN after
           ELSE [Idle EXCEPT !.step = "WebStateActivatedAt",
                             !.web_state = new_web_state,
                             !.old_web_state = old_web_state,
                             !.index = index, !.close = close]
  /\ UNCHANGED realized

\* The observers are told and the new active WebState is realized, unless
\* the active WebState is the same as before; `after' is what the method does
\* when there is nobody to tell.
NotifyIfActiveWebStateChanged(ws, old_web_state, index, close, after) ==
  LET new_web_state == WebStateAtOrNull(ws, index) IN
  IF old_web_state = new_web_state
  THEN op' = after /\ UNCHANGED realized
  ELSE /\ op' = [Idle EXCEPT !.step = "WebStateActivatedAt",
                             !.web_state = new_web_state,
                             !.old_web_state = old_web_state,
                             !.index = index,
                             !.close = close]
       /\ realized' = realized \cup ({new_web_state} \ {NoWebState})

\* The list once the opener of the WebState that was active is reset.
ResetOpenerOnActiveWebStateChange(ws, active) ==
  IF active # kInvalidIndex /\ ws[active].should_reset_opener
  THEN [ws EXCEPT ![active] = SetOpener(ws[active], NullOpener)]
  ELSE ws

ActivateWebStateAtImpl(ws, index, after) ==
  LET reset == ResetOpenerOnActiveWebStateChange(ws, active_index) IN
  /\ web_state_wrappers' = reset
  /\ active_index' = index
  /\ NotifyIfActiveWebStateChanged(reset, WebStateAtOrNull(ws, active_index),
                                   index, FALSE, after)

\* The first observer call of DetachWebStateAtImpl.
WillDetach(index, close) ==
  [Idle EXCEPT !.step = "WillDetachWebStateAt",
               !.web_state = web_state_wrappers[index].web_state,
               !.index = index, !.close = close]

WillClose(web_state) ==
  [Idle EXCEPT !.step = "WillCloseWebStateAt", !.web_state = web_state]

\* Mutant: the loop stops one WebState early.
CloseNextStoppingEarly ==
  IF Len(web_state_wrappers) <= 1
  THEN [Idle EXCEPT !.step = "BatchOperationEnded"]
  ELSE WillDetach(Len(web_state_wrappers), TRUE)

\* The loop of CloseAllWebStatesImpl: close the last WebState, or end.
CloseNextOrEndBatch ==
  IF Len(web_state_wrappers) = 0
  THEN [Idle EXCEPT !.step = "BatchOperationEnded"]
  ELSE WillDetach(Len(web_state_wrappers), TRUE)

----------------------------------------------------------------------------
(* The methods, up to their first observer call.                           *)

\* InsertWebStateImpl.  A flag is set if it is TRUE; index is used with
\* force_index only, opener without inherit_opener only.
InsertWebState(web_state, activating, force_index, index, inherit, opener) ==
  LET ws     == IF inherit THEN ClearAllOpeners(web_state_wrappers)
                           ELSE web_state_wrappers
      parent == IF inherit THEN OpenerFromWebState(nav, GetActiveWebState)
                           ELSE opener
      chosen == DetermineInsertionIndex(ws, nav, parent.opener)
      at     == IF force_index THEN index
                ELSE IF chosen > Len(ws) + 1 THEN Len(ws) + 1 ELSE chosen
      new    == [WebStateWrapper(web_state) EXCEPT
                   !.should_reset_opener = inherit]
  IN  /\ ~IsMutating
      /\ web_state_wrappers' = InsertAt(ws, at, new)
      /\ active_index' = IF active_index >= at THEN active_index + 1
                                               ELSE active_index
      /\ op' = [Idle EXCEPT !.step = "WebStateInsertedAt",
                            !.web_state = web_state, !.index = at,
                            !.opener = parent, !.activate = activating]
      /\ UNCHANGED <<batch, realized, nav>>

\* Mutant: inserts before it erases, and erases at the old position.
MoveInsertingFirst(from, to) ==
  LET wrapper == web_state_wrappers[from] IN
  /\ ~IsMutating
  /\ from # to
  /\ web_state_wrappers' =
       RemoveAt(InsertAt(web_state_wrappers, to, wrapper), from)
  /\ op' = [Idle EXCEPT !.step = "WebStateMoved",
                        !.web_state = wrapper.web_state, !.index = to]
  /\ UNCHANGED <<active_index, batch, realized, nav>>

\* MoveWebStateAtImpl.  Moving a WebState to its own place does nothing.
MoveWebStateAt(from, to) ==
  LET wrapper == web_state_wrappers[from]
      between == \/ from < to /\ from <= active_index /\ active_index <= to
                 \/ to < from /\ to <= active_index /\ active_index <= from
  IN  /\ ~IsMutating
      /\ from # to
      /\ web_state_wrappers' =
           InsertAt(RemoveAt(web_state_wrappers, from), to, wrapper)
      /\ active_index' = IF active_index = from THEN to
                         ELSE IF ~between THEN active_index
                         ELSE IF from < to THEN active_index - 1
                         ELSE active_index + 1
      /\ op' = [Idle EXCEPT !.step = "WebStateMoved",
                            !.web_state = wrapper.web_state, !.index = to]
      /\ UNCHANGED <<batch, realized, nav>>

\* ReplaceWebStateAtImpl.
ReplaceWebStateAt(index, web_state) ==
  LET old     == web_state_wrappers[index].web_state
      cleared == ClearOpenersReferencing(web_state_wrappers, old)
  IN  /\ ~IsMutating
      /\ web_state_wrappers' =
           [cleared EXCEPT ![index] = ReplaceWebState(cleared[index], web_state)]
      /\ op' = [Idle EXCEPT !.step = "WebStateReplacedAt",
                            !.web_state = web_state, !.old_web_state = old,
                            !.index = index]
      /\ UNCHANGED <<active_index, batch, realized, nav>>

DetachWebStateAt(index) ==
  /\ ~IsMutating
  /\ op' = WillDetach(index, FALSE)
  /\ UNCHANGED <<web_state_wrappers, active_index, batch, realized, nav>>

CloseWebStateAt(index) ==
  /\ ~IsMutating
  /\ op' = WillDetach(index, TRUE)
  /\ UNCHANGED <<web_state_wrappers, active_index, batch, realized, nav>>

\* CloseAllWebStatesImpl runs inside a batch of its own; beginning one inside
\* a batch fails a DCHECK.  The destructor of the list calls it too.
CloseAllWebStates ==
  /\ ~IsMutating
  /\ batch = "none"
  /\ batch' = "close_all"
  /\ op' = [Idle EXCEPT !.step = "WillBeginBatchOperation"]
  /\ UNCHANGED <<web_state_wrappers, active_index, realized, nav>>

ActivateWebStateAt(index) ==
  /\ ~IsMutating
  /\ ActivateWebStateAtImpl(web_state_wrappers, index, Idle)
  /\ UNCHANGED <<batch, nav>>

\* Takes no lock and tells nobody.  The guard is the callers': the insertion,
\* whose call is part of AfterWebStateInsertedAt, and the session restoration,
\* which sets the openers after the insertions of its batch; no observer of
\* the list calls it.
SetOpenerOfWebStateAt(index, opener) ==
  /\ ~IsMutating
  /\ web_state_wrappers' =
       [web_state_wrappers EXCEPT
          ![index] = SetOpener(web_state_wrappers[index], opener)]
  /\ UNCHANGED <<active_index, batch, op, realized, nav>>

\* PerformBatchOperation: the two ends of a batch; what the caller's closure
\* does to the list in between are actions of their own.
WillBeginBatchOperation ==
  /\ ~IsMutating
  /\ batch = "none"
  /\ batch' = "caller"
  /\ UNCHANGED <<web_state_wrappers, active_index, op, realized, nav>>

BatchOperationEnded ==
  /\ ~IsMutating
  /\ batch = "caller"
  /\ batch' = "none"
  /\ UNCHANGED <<web_state_wrappers, active_index, op, realized, nav>>

----------------------------------------------------------------------------
(* The continuations, each from one observer call to the next.             *)

AfterWebStateInsertedAt ==
  LET ws == IF op.opener.opener = NoWebState
            THEN web_state_wrappers
            ELSE [web_state_wrappers EXCEPT
                    ![op.index] = SetOpener(web_state_wrappers[op.index],
                                            op.opener)]
  IN  /\ op.step = "WebStateInsertedAt"
      /\ \/ /\ op.activate
            /\ ActivateWebStateAtImpl(ws, op.index, Idle)
         \/ /\ ~op.activate
            /\ web_state_wrappers' = ws
            /\ op' = Idle
            /\ UNCHANGED <<active_index, realized>>
      /\ UNCHANGED <<batch, nav>>

AfterWebStateReplacedAt ==
  /\ op.step = "WebStateReplacedAt"
  /\ NotifyIfActiveWebStateChanged(web_state_wrappers, op.old_web_state,
                                   active_index, FALSE, Idle)
  /\ UNCHANGED <<web_state_wrappers, active_index, batch, nav>>

AfterWillDetachWebStateAt ==
  LET cleared == ClearOpenersReferencing(web_state_wrappers, op.web_state) IN
  /\ op.step = "WillDetachWebStateAt"
  /\ active_index' = DetermineNewActiveIndex(web_state_wrappers, nav,
                                             active_index, {op.index})
  /\ web_state_wrappers' = RemoveAt(cleared, op.index)
  /\ op' = [op EXCEPT !.step = "WebStateDetachedAt",
                      !.activate = (op.index = active_index)]
  /\ UNCHANGED <<batch, realized, nav>>

AfterWebStateDetachedAt ==
  LET done == IF op.close THEN WillClose(op.web_state) ELSE Idle IN
  /\ op.step = "WebStateDetachedAt"
  /\ \/ /\ op.activate
        /\ NotifyIfActiveWebStateChanged(web_state_wrappers, op.web_state,
                                         active_index, op.close, done)
     \/ /\ ~op.activate
        /\ op' = done
        /\ UNCHANGED realized
  /\ UNCHANGED <<web_state_wrappers, active_index, batch, nav>>

\* WebStateActivatedAt is the last call of every method but two.
AfterWebStateActivatedAt ==
  /\ op.step = "WebStateActivatedAt"
  /\ op' = IF op.close THEN WillClose(op.old_web_state)
           ELSE IF batch = "close_all" THEN CloseNextOrEndBatch
           ELSE Idle
  /\ UNCHANGED <<web_state_wrappers, active_index, batch, realized, nav>>

\* The closed WebState is destroyed; its identity may serve for a new one.
AfterWillCloseWebStateAt ==
  /\ op.step = "WillCloseWebStateAt"
  /\ op' = IF batch = "close_all" THEN CloseNextOrEndBatch ELSE Idle
  /\ realized' = realized \ {op.web_state}
  /\ nav' = [nav EXCEPT ![op.web_state] = -1]
  /\ UNCHANGED <<web_state_wrappers, active_index, batch>>

AfterWillBeginBatchOperation ==
  /\ op.step = "WillBeginBatchOperation"
  /\ ActivateWebStateAtImpl(web_state_wrappers, kInvalidIndex,
                            CloseNextOrEndBatch)
  /\ UNCHANGED <<batch, nav>>

AfterBatchOperationEnded ==
  /\ op.step = "BatchOperationEnded"
  /\ batch' = "none"
  /\ op' = Idle
  /\ UNCHANGED <<web_state_wrappers, active_index, realized, nav>>

AfterWebStateMoved ==
  /\ op.step = "WebStateMoved"
  /\ op' = Idle
  /\ UNCHANGED <<web_state_wrappers, active_index, batch, realized, nav>>

----------------------------------------------------------------------------
(* The environment: the WebStates themselves.                              *)

\* A WebState is realized by whoever first needs it, the observers included,
\* so possibly while the list is locked.
ForceRealized(web_state) ==
  /\ web_state \notin realized
  /\ realized' = realized \cup {web_state}
  /\ UNCHANGED <<web_state_wrappers, active_index, batch, op, nav>>

\* A navigation commits.  It is reported by WKWebView from the run loop, thus
\* never inside a method of the list.
Navigate(web_state, navigation_index) ==
  /\ ~IsMutating
  /\ web_state \in realized
  /\ nav' = [nav EXCEPT ![web_state] = navigation_index]
  /\ UNCHANGED <<web_state_wrappers, active_index, batch, op, realized>>

----------------------------------------------------------------------------
Init ==
  /\ web_state_wrappers = <<>>
  /\ active_index = kInvalidIndex
  /\ batch = "none"
  /\ op = Idle
  /\ realized = {}
  /\ nav = [w \in WebStates |-> -1]

Indexes == 1..Len(web_state_wrappers)

NotInList == WebStates \ InList(web_state_wrappers)

\* The openers a caller can name: WebStateOpener(w) asks for the
\* NavigationManager of w, which realizes w.
NameableOpeners ==
  {NullOpener} \cup {OpenerFromWebState(nav, w) :
                       w \in realized \cap InList(web_state_wrappers)}

Insert ==
  \E w \in NotInList, activating \in BOOLEAN, opener \in NameableOpeners :
    \/ \E i \in 1..(Len(web_state_wrappers) + 1) :
         InsertWebState(w, activating, TRUE, i, FALSE, opener)
    \/ InsertWebState(w, activating, FALSE, kInvalidIndex, FALSE, opener)

InsertInheritingOpener ==
  \E w \in NotInList, activating \in BOOLEAN :
    \/ \E i \in 1..(Len(web_state_wrappers) + 1) :
         InsertWebState(w, activating, TRUE, i, TRUE, NullOpener)
    \/ InsertWebState(w, activating, FALSE, kInvalidIndex, TRUE, NullOpener)

\* Session restoration sets the openers it has saved, whose navigation index
\* is the saved one.
RestoreOpener ==
  \E i, j \in Indexes, n \in NavigationIndexes :
    /\ i # j
    /\ SetOpenerOfWebStateAt(
         i, WebStateOpener(web_state_wrappers[j].web_state, n))

Mutate ==
  \/ Insert
  \/ InsertInheritingOpener
  \/ \E from, to \in Indexes : MoveWebStateAt(from, to)
  \/ \E i \in Indexes, w \in NotInList : ReplaceWebStateAt(i, w)
  \/ \E i \in Indexes : DetachWebStateAt(i)
  \/ \E i \in Indexes : CloseWebStateAt(i)
  \/ CloseAllWebStates
  \/ \E i \in Indexes : ActivateWebStateAt(i)
  \/ RestoreOpener
  \/ WillBeginBatchOperation
  \/ BatchOperationEnded

Continue ==
  \/ AfterWebStateInsertedAt
  \/ AfterWebStateMoved
  \/ AfterWebStateReplacedAt
  \/ AfterWillDetachWebStateAt
  \/ AfterWebStateDetachedAt
  \/ AfterWebStateActivatedAt
  \/ AfterWillCloseWebStateAt
  \/ AfterWillBeginBatchOperation
  \/ AfterBatchOperationEnded

Environment ==
  \/ \E w \in WebStates : ForceRealized(w)
  \/ \E w \in WebStates, n \in NavigationIndexes : Navigate(w, n)

Next == Mutate \/ Continue \/ Environment

Spec == Init /\ [][Next]_vars

----------------------------------------------------------------------------
(* Properties.                                                             *)

\* The variables range over the values the class declares; the locals of a
\* running method are in op.
TypeOK ==
  /\ web_state_wrappers \in Seq(Wrappers)
  /\ active_index \in Nat
  /\ batch \in {"none", "caller", "close_all"}
  /\ op \in Operations
  /\ realized \in SUBSET WebStates
  /\ nav \in [WebStates -> NavigationIndexes]

OpenersInList(ws) ==
  \A i \in 1..Len(ws) :
    \/ ws[i].opener.opener = NoWebState
    \/ \E j \in 1..Len(ws) : /\ j # i
                             /\ ws[j].web_state = ws[i].opener.opener

DistinctWebStates(ws) ==
  \A i, j \in 1..Len(ws) : ws[i].web_state = ws[j].web_state => i = j

\* Whatever observer looks at the list, and whenever, no WebState names an
\* opener that has left the list or itself: the raw pointers of opener_ never
\* dangle (ClearOpenersReferencing, SetOpener's and SetOpenerOfWebStateAt's
\* DCHECKs).
NoDanglingOpener == OpenersInList(web_state_wrappers)

\* No WebState is owned twice, however inserts, replaces and detaches follow.
NoDuplicate == DistinctWebStates(web_state_wrappers)

\* The active index designates a WebState in every state an observer can see
\* (the DCHECK of DetachWebStateAtImpl, and GetWebStateWrapperAt's).
ActiveIndexIsValid ==
  active_index = kInvalidIndex \/ ContainsIndex(web_state_wrappers, active_index)

\* Outside of a mutation the active WebState is realized, so that the rest of
\* the browser may use it (NotifyIfActiveWebStateChanged realizes it).
ActiveWebStateIsRealized ==
  ~IsMutating => GetActiveWebState \in realized \cup {NoWebState}

\* The active WebState changes only where the code says so: when it is
\* activated (and then the observers are told which one it was and which one
\* it is), when it is detached and when it is replaced.  The arithmetic of
\* InsertWebStateImpl, MoveWebStateAtImpl and DetermineNewActiveIndex
\* otherwise keeps the index on the same WebState.
ActiveChangesOnlyWhenTold ==
  [][GetActiveWebState' # GetActiveWebState =>
       \/ /\ op'.step = "WebStateActivatedAt"
          /\ op'.old_web_state = GetActiveWebState
          /\ op'.web_state = GetActiveWebState'
       \/ /\ op'.step = "WebStateDetachedAt"
          /\ op'.web_state = GetActiveWebState
          /\ op'.activate
       \/ /\ op'.step = "WebStateReplacedAt"
          /\ op'.old_web_state = GetActiveWebState]_vars

\* A list with an active WebState keeps one until it is empty: closing tabs
\* one by one never leaves a window that shows nothing, and only
\* CloseAllWebStates deselects first.
SelectionSurvivesUntilEmpty ==
  [][(active_index # kInvalidIndex /\ active_index' = kInvalidIndex)
       => Len(web_state_wrappers') = 0 \/ batch = "close_all"]_vars

\* When the active WebState goes, the selection stays in its family: one of
\* its children if there is one, else a sibling, else the opener
\* (DetermineNewActiveIndex, evaluated before the openers are cleared).
SelectionStaysInFamily ==
  [][(op.step = "WillDetachWebStateAt" /\ op.index = active_index) =>
       LET ws       == web_state_wrappers
           gone     == ws[active_index]
           children == {i \in Indexes : ws[i].opener.opener = gone.web_state}
           siblings == {i \in Indexes \ {active_index} :
                          /\ gone.opener.opener # NoWebState
                          /\ ws[i].opener.opener = gone.opener.opener}
           new      == GetIndexOfWebState(ws, GetActiveWebState')
       IN  \/ UNCHANGED web_state_wrappers
           \/ children # {} /\ new \in children
           \/ children = {} /\ siblings # {} /\ new \in siblings
           \/ /\ children = {} /\ siblings = {}
              /\ gone.opener.opener \in {NoWebState, GetActiveWebState'}]_vars

\* CloseAllWebStates ends its batch, and releases the lock, only once the list
\* is empty, whatever its observers do between two closings; nothing else ends
\* the batch.
CloseAllEmptiesList ==
  [][(batch = "close_all" /\ batch' # batch)
       => web_state_wrappers' = <<>> /\ ~IsMutating']_vars

----------------------------------------------------------------------------
(* The inductive invariant: what a running method may rely on.             *)

\* The locals of the running method still describe the list when the
\* observers return.
OperationOK ==
  /\ op.step = "WebStateInsertedAt" =>
       /\ op.index \in Indexes
       /\ \/ op.opener.opener = NoWebState
          \/ \E j \in Indexes :
               /\ j # op.index
               /\ web_state_wrappers[j].web_state = op.opener.opener
  /\ op.step = "WillDetachWebStateAt" =>
       /\ op.index \in Indexes
       /\ web_state_wrappers[op.index].web_state = op.web_state
  /\ op.step \in {"WebStateDetachedAt", "WillCloseWebStateAt"} =>
       op.web_state \in NotInList
  /\ op.step = "WebStateReplacedAt" => op.old_web_state \in NotInList
  /\ (op.step = "WebStateActivatedAt" /\ op.close) =>
       op.old_web_state \in NotInList

\* Only between the two observer calls that announce a new active WebState
\* may it still be unrealized.
SelectionIsRealized ==
  \/ op.step = "WebStateReplacedAt"
  \/ op.step = "WebStateDetachedAt" /\ op.activate
  \/ GetActiveWebState \in realized \cup {NoWebState}

IInv ==
  /\ TypeOK
  /\ NoDuplicate
  /\ NoDanglingOpener
  /\ ActiveIndexIsValid
  /\ OperationOK
  /\ SelectionIsRealized

=============================================================================
