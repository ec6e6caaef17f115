----------------------- MODULE OrderControllerSearch -----------------------
(***************************************************************************)
(* The two loops of the order controller, as the code runs them, against   *)
(* what WebStateListOrderController says they compute:                     *)
(*                                                                         *)
(*   - FindIndexOfNextNonRemovedWebStateOpenedBy, an unbounded loop        *)
(*     (for (;;)) whose only exits are the three tests of its body; one    *)
(*     iteration is one step here;                                         *)
(*   - GetIndexOfNthWebStateOpenedBy, the cyclic scan it calls, as a       *)
(*     function of the number of its iterations.                           *)
(*                                                                         *)
(* The inputs are every list of Length tabs with any opener relation, any  *)
(* set of tabs to remove and any removed starting position.  The WebState  *)
(* at position p is p itself; opener 0 is null.                            *)
(***************************************************************************)
EXTENDS WebStateListOrderController

CONSTANTS Length,               \* number of tabs
          MaxNavigationIndex    \* bound on the navigation indexes

ASSUME LengthAssumption ==
  Length \in Nat /\ WebStates = 1..Length /\ NoWebState = 0

VARIABLES
  ws, nav, removing, web_state, start,   \* the inputs, never changed
  children, starting_index,              \* the locals of the loop
  result                                 \* what it returned, or Running

inputs == <<ws, nav, removing, web_state, start>>
vars == <<ws, nav, removing, web_state, start, children, starting_index, result>>

Running == -1

----------------------------------------------------------------------------

\* Mutant: the scan starts on `first' itself.
IndexFromFirst(first, i) == (((first - 1) + (i - 1)) % Len(ws)) + 1

\* The position that the i-th iteration looks at.
IndexOfIteration(first, i) == (((first - 1) + i) % Len(ws)) + 1

\* The i-th iteration; `locals' holds n and found_index, and n = 0 stands for
\* the break.
ScanIteration(locals, opener, first, use_group, i) ==
  LET index == IndexOfIteration(first, i) IN
  IF locals.n = 0 \/ ~WasOpenedBy(ws[index], nav, opener, use_group)
  THEN locals
  ELSE [n |-> locals.n - 1, found_index |-> index]

\* GetIndexOfNthWebStateOpenedBy; after[i] holds its locals after i iterations.
Scan(opener, first, use_group, n) ==
  LET after[i \in 0..(Len(ws) - 1)] ==
        IF i = 0
        THEN [n |-> n, found_index |-> kInvalidIndex]
        ELSE ScanIteration(after[i - 1], opener, first, use_group, i)
  IN  IF opener = NoWebState \/ ~ContainsIndex(ws, first)
      THEN kInvalidIndex
      ELSE after[Len(ws) - 1].found_index

\* INT_MAX exceeds the length of any list.
IntMax == Length + 1

\* Mutants: gives up at the first removed child; forgets which children it
\* has visited.
IterateOnce ==
  /\ result = Running
  /\ result' = IndexAfterRemoval(removing,
                                 Scan(web_state, starting_index, FALSE, 1))
  /\ UNCHANGED <<inputs, children, starting_index>>

IterateForgetting ==
  LET child == Scan(web_state, starting_index, FALSE, 1)
      after == IndexAfterRemoval(removing, child)
  IN  /\ result = Running
      /\ UNCHANGED <<inputs, children>>
      /\ \/ /\ child = kInvalidIndex \/ after # kInvalidIndex
            /\ result' = after
            /\ UNCHANGED starting_index
         \/ /\ child # kInvalidIndex /\ after = kInvalidIndex
            /\ starting_index' = child
            /\ UNCHANGED result

\* One iteration of FindIndexOfNextNonRemovedWebStateOpenedBy.
Iterate ==
  LET child == Scan(web_state, starting_index, FALSE, 1)
      after == IndexAfterRemoval(removing, child)
  IN  /\ result = Running
      /\ UNCHANGED inputs
      /\ \/ /\ child = kInvalidIndex \/ child \in children
            /\ result' = kInvalidIndex
            /\ UNCHANGED <<children, starting_index>>
         \/ /\ child # kInvalidIndex /\ child \notin children
            /\ after # kInvalidIndex
            /\ result' = after
            /\ UNCHANGED <<children, starting_index>>
         \/ /\ child # kInvalidIndex /\ child \notin children
            /\ after = kInvalidIndex
            /\ children' = children \cup {child}
            /\ starting_index' = child
            /\ UNCHANGED result

OpenersOf(p) ==
  {NullOpener} \cup {WebStateOpener(o, n) : o \in WebStates \ {p},
                                            n \in 0..MaxNavigationIndex}

Lists == {s \in [WebStates -> UNION {OpenersOf(p) : p \in WebStates}] :
            \A p \in WebStates : s[p] \in OpenersOf(p)}

Init ==
  /\ \E s \in Lists : ws = [p \in WebStates |-> [web_state |-> p,
                                                 opener |-> s[p]]]
  /\ nav = [w \in WebStates |-> 0]
  /\ removing \in SUBSET WebStates
  /\ web_state \in WebStates
  /\ start \in removing
  /\ children = {}
  /\ starting_index = start
  /\ result = Running

Next == Iterate

Spec == Init /\ [][Next]_vars /\ WF_vars(Iterate)

----------------------------------------------------------------------------
(* Properties.                                                             *)

\* Whatever the openers and the removed tabs, the loop returns where the
\* nearest staying child of the WebState ends up, to the right of the
\* starting position and around the end of the list, and nothing if no child
\* stays: the moving start and the set of visited children skip nobody.
LoopFindsNearestStayingChild ==
  result # Running =>
    result = FindIndexOfNextNonRemovedWebStateOpenedBy(ws, nav, removing,
                                                       web_state, start)

\* The scan with n = 1 finds the next WebState of the opener and the scan with
\* n = INT_MAX the last one, with and without the navigation group.
ScanFindsNextAndLast ==
  \A use_group \in BOOLEAN :
    /\ Scan(web_state, start, use_group, 1)
         = GetIndexOfNextWebStateOpenedBy(ws, nav, web_state, start, use_group)
    /\ Scan(web_state, start, use_group, IntMax)
         = GetIndexOfLastWebStateOpenedBy(ws, nav, web_state, start, use_group)

\* The WebState that DetermineNewActiveIndex selects is one that stays, and
\* its new index is its place among those that stay; with nothing left there
\* is no selection.
NewActiveStays ==
  LET staying == WebStates \ removing
      new     == DetermineNewActiveIndex(ws, nav, start, removing)
  IN  IF staying = {} THEN new = kInvalidIndex
      ELSE \E p \in staying : new = Cardinality({q \in staying : q <= p})

\* The unbounded loop ends.
LoopTerminates == <>(result # Running)

=============================================================================
