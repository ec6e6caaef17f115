------------------- MODULE WebStateListOrderController -------------------
(***************************************************************************)
(* The queries of a WebStateList about openers, and the placement rules    *)
(* of its order controller.                                                *)
(*                                                                         *)
(*   chrome/browser/web_state_list/web_state_list.mm         (the queries) *)
(*   chrome/browser/web_state_list/web_state_list_order_controller.mm      *)
(*   chrome/browser/web_state_list/web_state_list_removing_indexes.mm      *)
(*   chrome/browser/web_state_list/web_state_opener.mm                     *)
(*                                                                         *)
(* Every operator is pure: it takes the list `ws' (a sequence of wrappers) *)
(* and, where the code asks the opener's NavigationManager, the function   *)
(* `nav' from WebStates to their last committed item index.                *)
(*                                                                         *)
(* Positions are counted from 1, so position p is the code's index p - 1,  *)
(* and kInvalidIndex (-1 in the code) is 0.                                *)
(***************************************************************************)
EXTENDS Integers, Sequences, FiniteSets

CONSTANTS WebStates,    \* the web::WebState objects, one value per pointer
          NoWebState    \* the null pointer

ASSUME NoWebStateAssumption == NoWebState \notin WebStates

kInvalidIndex == 0

----------------------------------------------------------------------------
(* WebStateOpener: a WebState and the item that was current in it.         *)

WebStateOpener(opener, navigation_index) ==
  [opener |-> opener, navigation_index |-> navigation_index]

\* WebStateOpener(): no opener, and -1 for its navigation index.
NullOpener == WebStateOpener(NoWebState, -1)

\* WebStateOpener(web_state): captures the current item of the opener.
OpenerFromWebState(nav, web_state) ==
  IF web_state = NoWebState THEN NullOpener
                            ELSE WebStateOpener(web_state, nav[web_state])

----------------------------------------------------------------------------
(* Queries of the list.                                                    *)

ContainsIndex(ws, index) == index \in 1..Len(ws)

InList(ws) == {ws[i].web_state : i \in 1..Len(ws)}

\* GetActiveWebState.
WebStateAtOrNull(ws, index) ==
  IF index = kInvalidIndex THEN NoWebState ELSE ws[index].web_state

GetIndexOfWebState(ws, web_state) ==
  IF web_state \in InList(ws)
  THEN CHOOSE i \in 1..Len(ws) : ws[i].web_state = web_state
  ELSE kInvalidIndex

\* WasOpenedBy: with use_group, only if the opener has not navigated since.
WasOpenedBy(wrapper, nav, opener, use_group) ==
  /\ wrapper.opener.opener = opener
  /\ use_group => wrapper.opener.navigation_index = nav[opener]

OpenedBy(ws, nav, opener, use_group) ==
  {i \in 1..Len(ws) : WasOpenedBy(ws[i], nav, opener, use_group)}

\* How many steps to the right of `start' the position i is, wrapping around
\* the end of the list.
CyclicDistance(ws, start, i) ==
  IF i >= start THEN i - start ELSE (i + Len(ws)) - start

\* The element of a non-empty set of positions met first, or last, on a walk
\* from `start' to the right.
FirstFrom(ws, start, S) ==
  CHOOSE i \in S : \A j \in S :
    CyclicDistance(ws, start, i) <= CyclicDistance(ws, start, j)

LastFrom(ws, start, S) ==
  CHOOSE i \in S : \A j \in S :
    CyclicDistance(ws, start, i) >= CyclicDistance(ws, start, j)

\* GetIndexOfNthWebStateOpenedBy with n = 1.  The walk never returns to
\* `start' itself.
GetIndexOfNextWebStateOpenedBy(ws, nav, opener, start, use_group) ==
  LET found == OpenedBy(ws, nav, opener, use_group) \ {start} IN
  IF opener = NoWebState \/ ~ContainsIndex(ws, start) \/ found = {}
  THEN kInvalidIndex
  ELSE FirstFrom(ws, start, found)

\* GetIndexOfNthWebStateOpenedBy with n = INT_MAX.
GetIndexOfLastWebStateOpenedBy(ws, nav, opener, start, use_group) ==
  LET found == OpenedBy(ws, nav, opener, use_group) \ {start} IN
  IF opener = NoWebState \/ ~ContainsIndex(ws, start) \/ found = {}
  THEN kInvalidIndex
  ELSE LastFrom(ws, start, found)

----------------------------------------------------------------------------
(* WebStateListRemovingIndexes: a set of positions about to be removed.    *)

\* Mutants of IndexAfterRemoval: the shift is forgotten; every removed
\* position shifts, not only the ones before.
IndexAfterRemovalUnshifted(removing, index) ==
  IF index \in removing THEN kInvalidIndex ELSE index

IndexAfterRemovalShiftedByAll(removing, index) ==
  IF index \in removing
  THEN kInvalidIndex
  ELSE index - Cardinality(removing)

IndexAfterRemoval(removing, index) ==
  IF index \in removing
  THEN kInvalidIndex
  ELSE index - Cardinality({r \in removing : r < index})

----------------------------------------------------------------------------
(* WebStateListOrderController.                                            *)

\* After the last WebState of the opener's current group, else right after
\* the opener, else at the end.
DetermineInsertionIndex(ws, nav, opener) ==
  IF opener = NoWebState
  THEN Len(ws) + 1
  ELSE LET opener_index == GetIndexOfWebState(ws, opener)
           child == GetIndexOfLastWebStateOpenedBy(ws, nav, opener,
                                                   opener_index, TRUE)
       IN (IF child # kInvalidIndex THEN child ELSE opener_index) + 1

\* Mutant: considers only the children opened since the last navigation.
FindIndexInGroup(ws, nav, removing, web_state, start) ==
  LET staying == OpenedBy(ws, nav, web_state, TRUE) \ removing IN
  IF staying = {}
  THEN kInvalidIndex
  ELSE IndexAfterRemoval(removing, FirstFrom(ws, start, staying))

\* The loop visits the WebStates opened by web_state, rightwards from start,
\* and stops at the first that stays; a child met twice ends it.  `start' is
\* always one of the removed positions.
FindIndexOfNextNonRemovedWebStateOpenedBy(ws, nav, removing, web_state, start) ==
  LET staying == OpenedBy(ws, nav, web_state, FALSE) \ removing IN
  IF staying = {}
  THEN kInvalidIndex
  ELSE IndexAfterRemoval(removing, FirstFrom(ws, start, staying))

\* Mutant: never looks before `active'.
ClosestRemainingAfterOnly(ws, removing, active) ==
  LET after == {i \in (1..Len(ws)) \ removing : i > active} IN
  IF after # {} THEN CHOOSE i \in after : \A j \in after : i <= j
                ELSE kInvalidIndex

\* The closest position that stays after `active', else the closest before.
ClosestRemaining(ws, removing, active) ==
  LET staying == (1..Len(ws)) \ removing
      after   == {i \in staying : i > active}
  IN  IF after # {}
      THEN CHOOSE i \in after : \A j \in after : i <= j
      ELSE CHOOSE i \in staying : \A j \in staying : i >= j

\* Child, then sibling, then opener, then closest neighbour.
DetermineNewActiveIndex(ws, nav, active, removing) ==
  LET opener  == ws[active].opener.opener
      child   == FindIndexOfNextNonRemovedWebStateOpenedBy(
                   ws, nav, removing, ws[active].web_state, active)
      sibling == FindIndexOfNextNonRemovedWebStateOpenedBy(
                   ws, nav, removing, opener, active)
      parent  == IndexAfterRemoval(removing, GetIndexOfWebState(ws, opener))
  IN  IF active = kInvalidIndex \/ Cardinality(removing) = Len(ws)
      THEN kInvalidIndex
      ELSE IF active \notin removing
      THEN IndexAfterRemoval(removing, active)
      ELSE IF child # kInvalidIndex
      THEN child
      ELSE IF opener # NoWebState /\ sibling # kInvalidIndex
      THEN sibling
      ELSE IF opener # NoWebState /\ parent # kInvalidIndex
      THEN parent
      ELSE IndexAfterRemoval(removing, ClosestRemaining(ws, removing, active))

=============================================================================
