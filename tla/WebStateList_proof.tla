------------------------ MODULE WebStateList_proof ------------------------
(***************************************************************************)
(* Proofs about WebStateList, for any set of WebStates, any bound on the   *)
(* navigation indexes and any length of the list.                          *)
(*                                                                         *)
(* First what the updates of the list do to a well-formed list, then that  *)
(* the order controller answers with positions of the list, and that IInv  *)
(* is inductive.                                                           *)
(*                                                                         *)
(* The last part is about WebStateListObservers, for any sequence of       *)
(* observers.  The composition implements the list alone, so that every    *)
(* theorem about WebStateList holds of it; then one invariant per observer *)
(* says what it holds before and after it is told of the call being made.  *)
(***************************************************************************)
EXTENDS WebStateListObservers, ListLemmas, FiniteSetTheorems

WellFormed(ws) ==
  /\ ws \in Seq(Wrappers)
  /\ DistinctWebStates(ws)
  /\ OpenersInList(ws)

----------------------------------------------------------------------------
(* Updates of the list.                                                    *)

\* The opener of a tab that has none is an opener (WebStateOpener()).
LEMMA NullOpenerType == NullOpener \in Openers
  BY MaxNavigationIndexAssumption
     DEF NullOpener, WebStateOpener, Openers, NavigationIndexes

\* Setting an opener changes neither who is in the list nor where.
LEMMA SetOpenerAt ==
  ASSUME NEW ws, WellFormed(ws), NEW i \in 1..Len(ws), NEW o \in Openers,
         \/ o.opener = NoWebState
         \/ \E j \in 1..Len(ws) : j # i /\ ws[j].web_state = o.opener
  PROVE  LET new == [ws EXCEPT ![i] = SetOpener(ws[i], o)] IN
         /\ WellFormed(new)
         /\ Len(new) = Len(ws)
         /\ \A j \in 1..Len(ws) : new[j].web_state = ws[j].web_state
<1> DEFINE new == [ws EXCEPT ![i] = SetOpener(ws[i], o)]
<1>0. ws \in Seq(Wrappers) /\ \A j \in 1..Len(ws) : ws[j] \in Wrappers
  BY ElementOfSeq DEF WellFormed
<1>1. /\ SetOpener(ws[i], o) \in Wrappers
      /\ SetOpener(ws[i], o).web_state = ws[i].web_state
      /\ SetOpener(ws[i], o).opener = o
  BY <1>0 DEF SetOpener, Wrappers
<1>2. /\ new \in Seq(Wrappers)
      /\ Len(new) = Len(ws)
      /\ \A j \in 1..Len(ws) :
           new[j] = IF j = i THEN SetOpener(ws[i], o) ELSE ws[j]
  BY <1>0, <1>1, ExceptSeq
<1> HIDE DEF new
<1>3. \A j \in 1..Len(ws) : new[j].web_state = ws[j].web_state
  BY <1>1, <1>2
<1>4. DistinctWebStates(new)
  BY <1>2, <1>3 DEF WellFormed, DistinctWebStates
<1>5. OpenersInList(new)
  <2> SUFFICES ASSUME NEW k \in 1..Len(ws), new[k].opener.opener # NoWebState
               PROVE  \E j \in 1..Len(ws) :
                        j # k /\ new[j].web_state = new[k].opener.opener
    BY <1>2 DEF OpenersInList
  <2>1. \E j \in 1..Len(ws) :
          j # k /\ ws[j].web_state = new[k].opener.opener
    BY <1>1, <1>2 DEF WellFormed, OpenersInList
  <2> QED
    BY <2>1, <1>3
<1> QED
  BY <1>2, <1>3, <1>4, <1>5 DEF WellFormed, new

\* After ClearOpenersReferencing nobody names the WebState.
LEMMA ClearOpeners ==
  ASSUME NEW ws, WellFormed(ws), NEW w
  PROVE  LET new == ClearOpenersReferencing(ws, w) IN
         /\ WellFormed(new)
         /\ Len(new) = Len(ws)
         /\ \A j \in 1..Len(ws) : /\ new[j].web_state = ws[j].web_state
                                  /\ w # NoWebState => new[j].opener.opener # w
<1> DEFINE new == ClearOpenersReferencing(ws, w)
<1>0. /\ ws \in Seq(Wrappers)
      /\ Len(ws) \in Nat
      /\ \A j \in 1..Len(ws) : ws[j] \in Wrappers
  BY ElementOfSeq, LenProperties DEF WellFormed
<1>1. \A j \in 1..Len(ws) :
        /\ SetOpener(ws[j], NullOpener) \in Wrappers
        /\ SetOpener(ws[j], NullOpener).web_state = ws[j].web_state
        /\ SetOpener(ws[j], NullOpener).opener.opener = NoWebState
  BY <1>0, NullOpenerType DEF SetOpener, Wrappers, NullOpener, WebStateOpener
<1>2. /\ new \in [1..Len(ws) -> Wrappers]
      /\ \A j \in 1..Len(ws) :
           new[j] = IF ws[j].opener.opener = w
                    THEN SetOpener(ws[j], NullOpener) ELSE ws[j]
  BY <1>0, <1>1 DEF ClearOpenersReferencing
<1> HIDE DEF new
<1>3. new \in Seq(Wrappers) /\ Len(new) = Len(ws)
  BY <1>0, <1>2, FunctionIsSeq
<1>4. \A j \in 1..Len(ws) : new[j].web_state = ws[j].web_state
  BY <1>1, <1>2
<1>5. \A j \in 1..Len(ws) :
        /\ w # NoWebState => new[j].opener.opener # w
        /\ new[j].opener.opener \in {NoWebState, ws[j].opener.opener}
  BY <1>1, <1>2
<1>6. DistinctWebStates(new)
  BY <1>3, <1>4 DEF WellFormed, DistinctWebStates
<1>7. OpenersInList(new)
  <2> SUFFICES ASSUME NEW k \in 1..Len(ws), new[k].opener.opener # NoWebState
               PROVE  \E j \in 1..Len(ws) :
                        j # k /\ new[j].web_state = new[k].opener.opener
    BY <1>3 DEF OpenersInList
  <2>1. \E j \in 1..Len(ws) :
          j # k /\ ws[j].web_state = new[k].opener.opener
    BY <1>5 DEF WellFormed, OpenersInList
  <2> QED
    BY <2>1, <1>4
<1> QED
  BY <1>3, <1>4, <1>5, <1>6, <1>7 DEF WellFormed, new

\* INSERT_INHERIT_OPENER clears every opener.
LEMMA ClearAll ==
  ASSUME NEW ws, WellFormed(ws)
  PROVE  LET new == ClearAllOpeners(ws) IN
         /\ WellFormed(new)
         /\ Len(new) = Len(ws)
         /\ \A j \in 1..Len(ws) : new[j].web_state = ws[j].web_state
<1> DEFINE new == ClearAllOpeners(ws)
<1>0. /\ ws \in Seq(Wrappers)
      /\ Len(ws) \in Nat
      /\ \A j \in 1..Len(ws) : ws[j] \in Wrappers
  BY ElementOfSeq, LenProperties DEF WellFormed
<1>1. \A j \in 1..Len(ws) :
        /\ SetOpener(ws[j], NullOpener) \in Wrappers
        /\ SetOpener(ws[j], NullOpener).web_state = ws[j].web_state
        /\ SetOpener(ws[j], NullOpener).opener.opener = NoWebState
  BY <1>0, NullOpenerType DEF SetOpener, Wrappers, NullOpener, WebStateOpener
<1>2. /\ new \in [1..Len(ws) -> Wrappers]
      /\ \A j \in 1..Len(ws) : new[j] = SetOpener(ws[j], NullOpener)
  BY <1>0, <1>1 DEF ClearAllOpeners
<1> HIDE DEF new
<1>3. new \in Seq(Wrappers) /\ Len(new) = Len(ws)
  BY <1>0, <1>2, FunctionIsSeq
<1>4. DistinctWebStates(new)
  BY <1>1, <1>2, <1>3 DEF WellFormed, DistinctWebStates
<1>5. OpenersInList(new)
  BY <1>1, <1>2, <1>3 DEF OpenersInList
<1> QED
  BY <1>1, <1>2, <1>3, <1>4, <1>5 DEF WellFormed, new

\* Inserting a new WebState, which has no opener yet, shifts the others.
LEMMA InsertNew ==
  ASSUME NEW ws, WellFormed(ws), NEW i \in 1..(Len(ws) + 1),
         NEW e \in Wrappers, e.opener.opener = NoWebState,
         \A j \in 1..Len(ws) : ws[j].web_state # e.web_state
  PROVE  LET new == InsertAt(ws, i, e) IN
         /\ WellFormed(new)
         /\ Len(new) = Len(ws) + 1
         /\ new[i] = e
         /\ \A j \in 1..Len(ws) :
              ws[j] = IF j < i THEN new[j] ELSE new[j + 1]
<1> DEFINE new == InsertAt(ws, i, e)
<1>0. ws \in Seq(Wrappers) /\ Len(ws) \in Nat
  BY LenProperties DEF WellFormed
<1>1. /\ new \in Seq(Wrappers)
      /\ Len(new) = Len(ws) + 1
      /\ \A j \in 1..(Len(ws) + 1) :
           new[j] = IF j < i THEN ws[j] ELSE IF j = i THEN e ELSE ws[j - 1]
  BY <1>0, InsertAtPositions
<1> HIDE DEF new
<1>2. \A j \in 1..Len(ws) : ws[j] = IF j < i THEN new[j] ELSE new[j + 1]
  BY <1>0, <1>1
<1>3. new[i] = e
  BY <1>0, <1>1
<1>4. DistinctWebStates(new)
  <2> SUFFICES ASSUME NEW j \in 1..(Len(ws) + 1), NEW k \in 1..(Len(ws) + 1),
                      new[j].web_state = new[k].web_state
               PROVE  j = k
    BY <1>1 DEF DistinctWebStates
  <2> DEFINE source(x) == IF x < i THEN x ELSE x - 1
  <2>1. \A x \in 1..(Len(ws) + 1) :
          x # i => source(x) \in 1..Len(ws) /\ new[x] = ws[source(x)]
    BY <1>0, <1>1
  <2>2. CASE j = i /\ k # i
    BY <1>3, <2>1, <2>2
  <2>3. CASE j # i /\ k = i
    BY <1>3, <2>1, <2>3
  <2>4. CASE j # i /\ k # i
    <3>1. source(j) = source(k)
      <4> HIDE DEF source
      <4> QED
        BY <2>1, <2>4 DEF WellFormed, DistinctWebStates
    <3> QED
      BY <2>4, <3>1, <1>0
  <2> QED
    BY <2>2, <2>3, <2>4
<1>5. OpenersInList(new)
  <2> SUFFICES ASSUME NEW k \in 1..(Len(ws) + 1),
                      new[k].opener.opener # NoWebState
               PROVE  \E j \in 1..(Len(ws) + 1) :
                        j # k /\ new[j].web_state = new[k].opener.opener
    BY <1>1 DEF OpenersInList
  <2> DEFINE m == IF k < i THEN k ELSE k - 1
  <2>1. m \in 1..Len(ws) /\ new[k] = ws[m]
    BY <1>0, <1>1
  <2>2. PICK j \in 1..Len(ws) :
          j # m /\ ws[j].web_state = new[k].opener.opener
    BY <2>1 DEF WellFormed, OpenersInList
  <2> DEFINE l == IF j < i THEN j ELSE j + 1
  <2>3. /\ l \in 1..(Len(ws) + 1)
        /\ l # k
        /\ new[l] = ws[j]
    BY <1>0, <1>1, <1>2, <2>1, <2>2
  <2> QED
    BY <2>2, <2>3
<1> QED
  BY <1>1, <1>2, <1>3, <1>4, <1>5 DEF WellFormed, new

\* Removing a WebState that nobody names shifts the others.
LEMMA RemoveUnnamed ==
  ASSUME NEW ws, WellFormed(ws), NEW i \in 1..Len(ws),
         \A j \in 1..Len(ws) : ws[j].opener.opener # ws[i].web_state
  PROVE  LET new == RemoveAt(ws, i) IN
         /\ WellFormed(new)
         /\ Len(new) = Len(ws) - 1
         /\ \A j \in 1..(Len(ws) - 1) :
              new[j] = IF j < i THEN ws[j] ELSE ws[j + 1]
         /\ \A j \in 1..(Len(ws) - 1) : new[j].web_state # ws[i].web_state
<1> DEFINE new == RemoveAt(ws, i)
           source(x) == IF x < i THEN x ELSE x + 1
<1>0. ws \in Seq(Wrappers) /\ Len(ws) \in Nat
  BY LenProperties DEF WellFormed
<1>1. /\ new \in Seq(Wrappers)
      /\ Len(new) = Len(ws) - 1
      /\ \A j \in 1..(Len(ws) - 1) :
           new[j] = IF j < i THEN ws[j] ELSE ws[j + 1]
  BY <1>0, RemoveAtPositions
<1> HIDE DEF new
<1>2. \A j \in 1..(Len(ws) - 1) :
        /\ source(j) \in 1..Len(ws)
        /\ source(j) # i
        /\ new[j] = ws[source(j)]
  BY <1>0, <1>1
<1>3. \A j, k \in 1..(Len(ws) - 1) : source(j) = source(k) => j = k
  BY <1>0
<1>4. \A m \in 1..Len(ws) :
        m # i => \E j \in 1..(Len(ws) - 1) : source(j) = m
  <2> SUFFICES ASSUME NEW m \in 1..Len(ws), m # i
               PROVE  \E j \in 1..(Len(ws) - 1) : source(j) = m
    OBVIOUS
  <2>1. CASE m < i
    <3>1. m \in 1..(Len(ws) - 1) /\ source(m) = m
      BY <1>0, <2>1
    <3> QED
      BY <3>1
  <2>2. CASE m > i
    <3>1. m - 1 \in 1..(Len(ws) - 1) /\ source(m - 1) = m
      BY <1>0, <2>2
    <3> QED
      BY <3>1
  <2> QED
    BY <1>0, <2>1, <2>2
<1> HIDE DEF source
<1>5. \A j \in 1..(Len(ws) - 1) : new[j].web_state # ws[i].web_state
  BY <1>2 DEF WellFormed, DistinctWebStates
<1>6. DistinctWebStates(new)
  BY <1>1, <1>2, <1>3 DEF WellFormed, DistinctWebStates
<1>7. OpenersInList(new)
  <2> SUFFICES ASSUME NEW k \in 1..(Len(ws) - 1),
                      new[k].opener.opener # NoWebState
               PROVE  \E j \in 1..(Len(ws) - 1) :
                        j # k /\ new[j].web_state = new[k].opener.opener
    BY <1>1 DEF OpenersInList
  <2>1. PICK m \in 1..Len(ws) :
          m # source(k) /\ ws[m].web_state = new[k].opener.opener
    BY <1>2 DEF WellFormed, OpenersInList
  <2>2. m # i
    BY <1>2, <2>1
  <2>3. PICK j \in 1..(Len(ws) - 1) : source(j) = m
    BY <1>4, <2>2
  <2> QED
    BY <1>2, <2>1, <2>3
<1> QED
  BY <1>1, <1>5, <1>6, <1>7 DEF WellFormed, new

\* The position that the wrapper at position x of the list comes from, once
\* the one at `from' is moved to `to'.
MovedFrom(from, to, x) ==
  IF x = to THEN from
  ELSE IF from < to /\ from <= x /\ x < to THEN x + 1
  ELSE IF to < from /\ to < x /\ x <= from THEN x - 1
  ELSE x

\* Moving a WebState permutes the list.
LEMMA MovePermutes ==
  ASSUME NEW ws, WellFormed(ws),
         NEW from \in 1..Len(ws), NEW to \in 1..Len(ws), from # to
  PROVE  LET new == InsertAt(RemoveAt(ws, from), to, ws[from]) IN
         /\ WellFormed(new)
         /\ Len(new) = Len(ws)
         /\ \A j \in 1..Len(ws) : new[j] = ws[MovedFrom(from, to, j)]
<1> DEFINE mid == RemoveAt(ws, from)
           new == InsertAt(mid, to, ws[from])
           source(x) == MovedFrom(from, to, x)
<1>0. ws \in Seq(Wrappers) /\ Len(ws) \in Nat /\ ws[from] \in Wrappers
  BY LenProperties, ElementOfSeq DEF WellFormed
<1>1. /\ mid \in Seq(Wrappers)
      /\ Len(mid) = Len(ws) - 1
      /\ \A j \in 1..(Len(ws) - 1) :
           mid[j] = IF j < from THEN ws[j] ELSE ws[j + 1]
  BY <1>0, RemoveAtPositions
<1> HIDE DEF mid
<1>2. /\ new \in Seq(Wrappers)
      /\ Len(new) = Len(ws)
      /\ \A j \in 1..Len(ws) :
           new[j] = IF j < to THEN mid[j]
                    ELSE IF j = to THEN ws[from] ELSE mid[j - 1]
  <2>1. to \in 1..(Len(mid) + 1) /\ Len(mid) + 1 = Len(ws)
    BY <1>0, <1>1
  <2>2. /\ new \in Seq(Wrappers)
        /\ Len(new) = Len(mid) + 1
        /\ \A j \in 1..(Len(mid) + 1) :
             new[j] = IF j < to THEN mid[j]
                      ELSE IF j = to THEN ws[from] ELSE mid[j - 1]
    <3> DEFINE e == ws[from]
    <3>1. e \in Wrappers /\ mid \in Seq(Wrappers)
      BY <1>0, <1>1
    <3> HIDE DEF e
    <3>2. /\ InsertAt(mid, to, e) \in Seq(Wrappers)
          /\ Len(InsertAt(mid, to, e)) = Len(mid) + 1
          /\ \A j \in 1..(Len(mid) + 1) :
               InsertAt(mid, to, e)[j] = IF j < to THEN mid[j]
                                         ELSE IF j = to THEN e ELSE mid[j - 1]
      BY ONLY <2>1, <3>1, InsertAtPositions
    <3> QED
      BY <3>2 DEF e
  <2> QED
    BY <2>1, <2>2
<1> HIDE DEF new
<1>3. \A j \in 1..Len(ws) : source(j) \in 1..Len(ws)
  BY <1>0 DEF MovedFrom
<1>4. \A j \in 1..Len(ws) : new[j] = ws[source(j)]
  <2> SUFFICES ASSUME NEW j \in 1..Len(ws)
               PROVE  new[j] = ws[source(j)]
    OBVIOUS
  <2>1. CASE j = to
    BY <1>2, <2>1 DEF MovedFrom
  <2>2. CASE j < to
    <3>1. new[j] = mid[j] /\ j \in 1..(Len(ws) - 1)
      BY <1>0, <1>2, <2>2
    <3>2. mid[j] = IF j < from THEN ws[j] ELSE ws[j + 1]
      BY <1>1, <3>1
    <3>3. source(j) = IF j < from THEN j ELSE j + 1
      BY <1>0, <2>2 DEF MovedFrom
    <3> QED
      BY <3>1, <3>2, <3>3
  <2>3. CASE j > to
    <3>1. new[j] = mid[j - 1] /\ j - 1 \in 1..(Len(ws) - 1)
      BY <1>0, <1>2, <2>3
    <3>2. mid[j - 1] = IF j - 1 < from THEN ws[j - 1] ELSE ws[(j - 1) + 1]
      BY <1>1, <3>1
    <3>3. /\ source(j) = IF j - 1 < from THEN j - 1 ELSE j
          /\ (j - 1) + 1 = j
      BY <1>0, <2>3 DEF MovedFrom
    <3> QED
      BY <3>1, <3>2, <3>3
  <2> QED
    BY <1>0, <2>1, <2>2, <2>3
<1>5. \A j, k \in 1..Len(ws) : source(j) = source(k) => j = k
  BY <1>0 DEF MovedFrom
<1>6. \A m \in 1..Len(ws) : \E j \in 1..Len(ws) : source(j) = m
  <2> SUFFICES ASSUME NEW m \in 1..Len(ws)
               PROVE  \E j \in 1..Len(ws) : source(j) = m
    OBVIOUS
  <2> DEFINE j == MovedFrom(to, from, m)
  <2>1. j \in 1..Len(ws) /\ source(j) = m
    BY <1>0 DEF MovedFrom
  <2> QED
    BY <2>1
<1> HIDE DEF source
<1>7. DistinctWebStates(new)
  <2> SUFFICES ASSUME NEW j \in 1..Len(ws), NEW k \in 1..Len(ws),
                      new[j].web_state = new[k].web_state
               PROVE  j = k
    BY <1>2 DEF DistinctWebStates
  <2>1. ws[source(j)].web_state = ws[source(k)].web_state
    BY <1>4
  <2>2. source(j) \in 1..Len(ws) /\ source(k) \in 1..Len(ws)
    BY <1>3
  <2>3. source(j) = source(k)
    BY <2>1, <2>2 DEF WellFormed, DistinctWebStates
  <2> QED
    BY <1>5, <2>3
<1>8. OpenersInList(new)
  <2> SUFFICES ASSUME NEW k \in 1..Len(ws), new[k].opener.opener # NoWebState
               PROVE  \E j \in 1..Len(ws) :
                        j # k /\ new[j].web_state = new[k].opener.opener
    BY <1>2 DEF OpenersInList
  <2>0. source(k) \in 1..Len(ws) /\ new[k] = ws[source(k)]
    BY <1>3, <1>4
  <2>1. PICK m \in 1..Len(ws) :
          m # source(k) /\ ws[m].web_state = new[k].opener.opener
    BY <2>0 DEF WellFormed, OpenersInList
  <2>2. PICK j \in 1..Len(ws) : source(j) = m
    BY <1>6
  <2> QED
    BY <1>4, <2>1, <2>2
<1> QED
  BY <1>2, <1>4, <1>7, <1>8 DEF WellFormed, new, mid, source

\* Replacing a WebState that nobody names by a new one, which gets no opener.
LEMMA ReplaceUnnamed ==
  ASSUME NEW ws, WellFormed(ws), NEW i \in 1..Len(ws), NEW w \in WebStates,
         \A j \in 1..Len(ws) : /\ ws[j].opener.opener # ws[i].web_state
                               /\ ws[j].web_state # w
  PROVE  LET new == [ws EXCEPT ![i] = ReplaceWebState(ws[i], w)] IN
         /\ WellFormed(new)
         /\ Len(new) = Len(ws)
         /\ new[i].web_state = w
         /\ \A j \in 1..Len(ws) : j # i => new[j] = ws[j]
<1> DEFINE e   == ReplaceWebState(ws[i], w)
           new == [ws EXCEPT ![i] = e]
<1>0. /\ ws \in Seq(Wrappers)
      /\ Len(ws) \in Nat
      /\ \A j \in 1..Len(ws) : ws[j] \in Wrappers
  BY ElementOfSeq, LenProperties DEF WellFormed
<1>1. /\ e \in Wrappers
      /\ e.web_state = w
      /\ e.opener.opener = NoWebState
  BY <1>0, NullOpenerType
     DEF ReplaceWebState, Wrappers, NullOpener, WebStateOpener
<1> HIDE DEF e
<1>2. /\ new \in Seq(Wrappers)
      /\ Len(new) = Len(ws)
      /\ \A j \in 1..Len(ws) : new[j] = IF j = i THEN e ELSE ws[j]
  BY <1>0, <1>1, ExceptSeq
<1> HIDE DEF new
<1>3. DistinctWebStates(new)
  BY <1>1, <1>2 DEF WellFormed, DistinctWebStates
<1>4. OpenersInList(new)
  <2> SUFFICES ASSUME NEW k \in 1..Len(ws), new[k].opener.opener # NoWebState
               PROVE  \E j \in 1..Len(ws) :
                        j # k /\ new[j].web_state = new[k].opener.opener
    BY <1>2 DEF OpenersInList
  <2>1. k # i /\ new[k] = ws[k]
    BY <1>1, <1>2
  <2>2. PICK j \in 1..Len(ws) :
          j # k /\ ws[j].web_state = ws[k].opener.opener
    BY <2>1 DEF WellFormed, OpenersInList
  <2> QED
    BY <1>2, <2>1, <2>2
<1> QED
  BY <1>1, <1>2, <1>3, <1>4 DEF WellFormed, new, e

----------------------------------------------------------------------------
(* The order controller answers with positions of the list.                *)

\* The distance the search has walked, round the end of the list, is less than
\* the length of the list (GetIndexOfNthWebStateOpenedBy).
LEMMA CyclicDistanceRange ==
  ASSUME NEW ws, Len(ws) \in Nat,
         NEW start \in 1..Len(ws), NEW i \in 1..Len(ws)
  PROVE  CyclicDistance(ws, start, i) \in 0..(Len(ws) - 1)
  BY DEF CyclicDistance

\* The nearest position of a non-empty set is one of its elements, and so is
\* the farthest.
LEMMA FirstFromFound ==
  ASSUME NEW ws, Len(ws) \in Nat, NEW start \in 1..Len(ws),
         NEW S \in SUBSET (1..Len(ws)), S # {}
  PROVE  FirstFrom(ws, start, S) \in S
<1> DEFINE rank == [i \in S |-> CyclicDistance(ws, start, i)]
<1>1. rank \in [S -> Nat]
  BY CyclicDistanceRange
<1>2. \E i \in S : \A j \in S : rank[i] <= rank[j]
  <2> HIDE DEF rank
  <2> QED
    BY <1>1, LeastRankExists
<1>3. \E i \in S : \A j \in S :
        CyclicDistance(ws, start, i) <= CyclicDistance(ws, start, j)
  BY <1>2
<1> QED
  BY <1>3 DEF FirstFrom

\* The last match of GetIndexOfLastWebStateOpenedBy is a position of the list.
LEMMA LastFromFound ==
  ASSUME NEW ws, Len(ws) \in Nat, NEW start \in 1..Len(ws),
         NEW S \in SUBSET (1..Len(ws)), S # {}
  PROVE  LastFrom(ws, start, S) \in S
<1> DEFINE rank == [i \in S |-> Len(ws) - CyclicDistance(ws, start, i)]
<1>0. \A i \in S : CyclicDistance(ws, start, i) \in 0..(Len(ws) - 1)
  BY CyclicDistanceRange
<1>1. rank \in [S -> Nat]
  BY <1>0
<1>2. \E i \in S : \A j \in S : rank[i] <= rank[j]
  <2> HIDE DEF rank
  <2> QED
    BY <1>1, LeastRankExists
<1>3. PICK i \in S : \A j \in S : Len(ws) - CyclicDistance(ws, start, i)
                                  <= Len(ws) - CyclicDistance(ws, start, j)
  BY <1>2
<1>4. \A j \in S : CyclicDistance(ws, start, i) >= CyclicDistance(ws, start, j)
  BY <1>0, <1>3
<1> QED
  BY <1>4 DEF LastFrom

\* If a tab stays, the last loops of DetermineNewActiveIndex find one that stays.
LEMMA ClosestRemainingFound ==
  ASSUME NEW ws, Len(ws) \in Nat, NEW active \in 1..Len(ws), NEW removing,
         (1..Len(ws)) \ removing # {}
  PROVE  ClosestRemaining(ws, removing, active) \in (1..Len(ws)) \ removing
<1> DEFINE staying == (1..Len(ws)) \ removing
           after   == {i \in staying : i > active}
<1>1. CASE after # {}
  <2> DEFINE rank == [i \in after |-> i]
  <2>1. rank \in [after -> Nat]
    OBVIOUS
  <2>2. \E i \in after : \A j \in after : rank[i] <= rank[j]
    <3> HIDE DEF rank, after
    <3> QED
      BY <1>1, <2>1, LeastRankExists
  <2>3. \E i \in after : \A j \in after : i <= j
    BY <2>2
  <2>4. (CHOOSE i \in after : \A j \in after : i <= j) \in after
    BY <2>3
  <2> QED
    BY <1>1, <2>4 DEF ClosestRemaining
<1>2. CASE after = {}
  <2> DEFINE rank == [i \in staying |-> Len(ws) - i]
  <2>1. rank \in [staying -> Nat]
    OBVIOUS
  <2>2. \E i \in staying : \A j \in staying : rank[i] <= rank[j]
    <3> HIDE DEF rank
    <3> QED
      BY <2>1, LeastRankExists
  <2>3. PICK i \in staying : \A j \in staying : Len(ws) - i <= Len(ws) - j
    BY <2>2
  <2>4. \A j \in staying : i >= j
    BY <2>3
  <2>5. (CHOOSE k \in staying : \A j \in staying : k >= j) \in staying
    BY <2>4
  <2> QED
    BY <1>2, <2>5 DEF ClosestRemaining
<1> QED
  BY <1>1, <1>2

\* GetIndexOfWebState finds a tab that is in the list.
LEMMA GetIndexOfWebStateFound ==
  ASSUME NEW ws, NEW w, \E j \in 1..Len(ws) : ws[j].web_state = w
  PROVE  /\ GetIndexOfWebState(ws, w) \in 1..Len(ws)
         /\ ws[GetIndexOfWebState(ws, w)].web_state = w
  BY DEF GetIndexOfWebState, InList

\* What removing one position does to another (the visitor for a single int
\* of WebStateListRemovingIndexes).
LEMMA IndexAfterOneRemoval ==
  ASSUME NEW r \in Nat, NEW i \in Nat
  PROVE  IndexAfterRemoval({r}, i) = IF i = r THEN kInvalidIndex
                                     ELSE IF i > r THEN i - 1 ELSE i
<1>1. CASE i = r
  BY <1>1 DEF IndexAfterRemoval
<1>2. CASE i > r
  <2>1. {x \in {r} : x < i} = {r}
    BY <1>2
  <2> QED
    BY <1>2, <2>1, FS_Singleton DEF IndexAfterRemoval
<1>3. CASE i < r
  <2>1. {x \in {r} : x < i} = {}
    BY <1>3
  <2> QED
    BY <1>3, <2>1, FS_EmptySet DEF IndexAfterRemoval
<1> QED
  BY <1>1, <1>2, <1>3

\* A new WebState goes to a position of the list or right after its end, so
\* that the clamp in InsertWebStateImpl never applies.
LEMMA InsertionIndexRange ==
  ASSUME NEW ws, WellFormed(ws), NEW n, NEW opener,
         opener = NoWebState \/ \E j \in 1..Len(ws) : ws[j].web_state = opener
  PROVE  DetermineInsertionIndex(ws, n, opener) \in 1..(Len(ws) + 1)
<1>0. Len(ws) \in Nat
  BY LenProperties DEF WellFormed
<1>1. CASE opener = NoWebState
  BY <1>0, <1>1 DEF DetermineInsertionIndex
<1>2. CASE opener # NoWebState
  <2> DEFINE at    == GetIndexOfWebState(ws, opener)
             found == OpenedBy(ws, n, opener, TRUE) \ {at}
             child == GetIndexOfLastWebStateOpenedBy(ws, n, opener, at, TRUE)
  <2>1. at \in 1..Len(ws)
    BY <1>2, GetIndexOfWebStateFound
  <2> HIDE DEF at
  <2>2. child \in {kInvalidIndex} \cup (1..Len(ws))
    <3>1. found \in SUBSET (1..Len(ws))
      BY DEF OpenedBy
    <3>2. found # {} => LastFrom(ws, at, found) \in found
      <4> HIDE DEF found
      <4> QED
        BY <1>0, <2>1, <3>1, LastFromFound
    <3> QED
      BY <3>1, <3>2 DEF GetIndexOfLastWebStateOpenedBy
  <2>3. DetermineInsertionIndex(ws, n, opener)
          = (IF child # kInvalidIndex THEN child ELSE at) + 1
    BY <1>2 DEF DetermineInsertionIndex, at
  <2> HIDE DEF child
  <2> QED
    BY <1>0, <2>1, <2>2, <2>3 DEF kInvalidIndex
<1> QED
  BY <1>1, <1>2

\* A child or sibling found in the list is a position that remains.
LEMMA FindIndexRange ==
  ASSUME NEW ws, WellFormed(ws), NEW n, NEW r \in 1..Len(ws), NEW w
  PROVE  FindIndexOfNextNonRemovedWebStateOpenedBy(ws, n, {r}, w, r)
           \in 0..(Len(ws) - 1)
<1> DEFINE staying == OpenedBy(ws, n, w, FALSE) \ {r}
<1>0. Len(ws) \in Nat
  BY LenProperties DEF WellFormed
<1>1. staying \in SUBSET (1..Len(ws)) /\ r \notin staying
  BY DEF OpenedBy
<1>2. CASE staying = {}
  BY <1>0, <1>2 DEF FindIndexOfNextNonRemovedWebStateOpenedBy, kInvalidIndex
<1>3. CASE staying # {}
  <2> DEFINE f == FirstFrom(ws, r, staying)
  <2>1. FindIndexOfNextNonRemovedWebStateOpenedBy(ws, n, {r}, w, r)
          = IndexAfterRemoval({r}, f)
    BY <1>3 DEF FindIndexOfNextNonRemovedWebStateOpenedBy
  <2> HIDE DEF staying
  <2>2. f \in staying
    BY <1>0, <1>1, <1>3, FirstFromFound
  <2>3. f \in 1..Len(ws) /\ f # r
    BY <1>1, <2>2
  <2> HIDE DEF f
  <2>4. IndexAfterRemoval({r}, f) = IF f > r THEN f - 1 ELSE f
    BY <1>0, <2>3, IndexAfterOneRemoval
  <2> QED
    BY <1>0, <2>1, <2>3, <2>4
<1> QED
  BY <1>2, <1>3

\* When one WebState goes, the new active index designates a WebState that
\* stays; the old active WebState if it is not the one that goes; and none
\* only if there was none or the list becomes empty (the NOTREACHED at the
\* end of DetermineNewActiveIndex is not reached).
LEMMA NewActiveIndexRange ==
  ASSUME NEW ws, WellFormed(ws), NEW n, NEW r \in 1..Len(ws),
         NEW active \in 0..Len(ws)
  PROVE  LET new == DetermineNewActiveIndex(ws, n, active, {r}) IN
         /\ new \in 0..(Len(ws) - 1)
         /\ active = kInvalidIndex => new = kInvalidIndex
         /\ (active # kInvalidIndex /\ active # r)
              => new = IF active > r THEN active - 1 ELSE active
         /\ new = kInvalidIndex => active = kInvalidIndex \/ Len(ws) = 1
<1> DEFINE new     == DetermineNewActiveIndex(ws, n, active, {r})
           opener  == ws[active].opener.opener
           child   == FindIndexOfNextNonRemovedWebStateOpenedBy(
                        ws, n, {r}, ws[active].web_state, active)
           sibling == FindIndexOfNextNonRemovedWebStateOpenedBy(
                        ws, n, {r}, opener, active)
           parent  == IndexAfterRemoval({r}, GetIndexOfWebState(ws, opener))
           closest == IndexAfterRemoval({r}, ClosestRemaining(ws, {r}, active))
<1>0. Len(ws) \in Nat /\ Cardinality({r}) = 1
  BY LenProperties, FS_Singleton DEF WellFormed
<1>1. new = IF active = kInvalidIndex \/ 1 = Len(ws) THEN kInvalidIndex
            ELSE IF active \notin {r} THEN IndexAfterRemoval({r}, active)
            ELSE IF child # kInvalidIndex THEN child
            ELSE IF opener # NoWebState /\ sibling # kInvalidIndex THEN sibling
            ELSE IF opener # NoWebState /\ parent # kInvalidIndex THEN parent
            ELSE closest
  BY <1>0 DEF DetermineNewActiveIndex
<1> HIDE DEF new
<1>2. CASE active = kInvalidIndex \/ Len(ws) = 1
  BY <1>0, <1>1, <1>2 DEF kInvalidIndex, new
<1>3. CASE active # kInvalidIndex /\ Len(ws) # 1 /\ active # r
  <2>1. new = IndexAfterRemoval({r}, active)
    BY <1>1, <1>3
  <2>2. IndexAfterRemoval({r}, active) = IF active > r THEN active - 1
                                                       ELSE active
    BY <1>0, <1>3, IndexAfterOneRemoval
  <2> QED
    BY <1>0, <1>3, <2>1, <2>2 DEF kInvalidIndex, new
<1>4. CASE active # kInvalidIndex /\ Len(ws) # 1 /\ active = r
  <2>1. child \in 0..(Len(ws) - 1) /\ sibling \in 0..(Len(ws) - 1)
    BY <1>4, FindIndexRange
  <2>2. opener # NoWebState => parent \in 0..(Len(ws) - 1)
    <3> SUFFICES ASSUME opener # NoWebState
                 PROVE  parent \in 0..(Len(ws) - 1)
      OBVIOUS
    <3> DEFINE p == GetIndexOfWebState(ws, opener)
    <3>1. PICK j \in 1..Len(ws) : j # r /\ ws[j].web_state = opener
      BY <1>4 DEF WellFormed, OpenersInList
    <3>2. p \in 1..Len(ws) /\ ws[p].web_state = opener
      BY <3>1, GetIndexOfWebStateFound
    <3>3. p # r
      BY <3>1, <3>2 DEF WellFormed, DistinctWebStates
    <3> HIDE DEF p
    <3>4. IndexAfterRemoval({r}, p) = IF p > r THEN p - 1 ELSE p
      BY <1>0, <3>2, <3>3, IndexAfterOneRemoval
    <3>5. IndexAfterRemoval({r}, p) \in 0..(Len(ws) - 1)
      BY <1>0, <3>2, <3>3, <3>4
    <3> QED
      BY <3>5 DEF p
  <2>3. closest \in 1..(Len(ws) - 1)
    <3> DEFINE c == ClosestRemaining(ws, {r}, active)
    <3>1. \E k \in 1..Len(ws) : k # r
      <4>1. IF r = 1 THEN 2 \in 1..Len(ws) /\ 2 # r
                     ELSE 1 \in 1..Len(ws) /\ 1 # r
        BY <1>0, <1>4
      <4> QED
        BY <4>1
    <3>2. c \in 1..Len(ws) /\ c # r
      BY <1>0, <1>4, <3>1, ClosestRemainingFound
    <3> HIDE DEF c
    <3>3. IndexAfterRemoval({r}, c) = IF c > r THEN c - 1 ELSE c
      BY <1>0, <3>2, IndexAfterOneRemoval
    <3>4. IndexAfterRemoval({r}, c) \in 1..(Len(ws) - 1)
      BY <1>0, <3>2, <3>3
    <3> QED
      BY <3>4 DEF c
  <2> HIDE DEF child, sibling, parent, closest, opener
  <2>4. /\ new \in 0..(Len(ws) - 1)
        /\ new # kInvalidIndex
    BY <1>0, <1>1, <1>4, <2>1, <2>2, <2>3 DEF kInvalidIndex
  <2> QED
    BY <1>4, <2>4 DEF new
<1> QED
  BY <1>2, <1>3, <1>4

----------------------------------------------------------------------------
(* IInv is inductive.                                                      *)

\* No method running is a state of `op'.
LEMMA IdleType == Idle \in Operations
  BY NullOpenerType DEF Idle, Operations, Steps, kInvalidIndex

\* What the actions need of IInv.
LEMMA IInvFacts ==
  ASSUME IInv
  PROVE  /\ WellFormed(web_state_wrappers)
         /\ Len(web_state_wrappers) \in Nat
         /\ active_index \in 0..Len(web_state_wrappers)
         /\ \A i \in Indexes : web_state_wrappers[i] \in Wrappers
         /\ op \in Operations
  BY LenProperties, ElementOfSeq
     DEF IInv, TypeOK, NoDuplicate, NoDanglingOpener, WellFormed,
         ActiveIndexIsValid, ContainsIndex, kInvalidIndex, Indexes

\* The conjuncts of IInv' that are about the list alone.
LEMMA IInvFromParts ==
  ASSUME WellFormed(web_state_wrappers)',
         (active_index \in 0..Len(web_state_wrappers))',
         (batch \in {"none", "caller", "close_all"})',
         (op \in Operations)',
         (realized \in SUBSET WebStates)',
         (nav \in [WebStates -> NavigationIndexes])',
         OperationOK',
         SelectionIsRealized'
  PROVE  IInv'
<1>1. (Len(web_state_wrappers) \in Nat)'
  BY LenProperties DEF WellFormed
<1> QED
  BY <1>1 DEF IInv, TypeOK, NoDuplicate, NoDanglingOpener, WellFormed,
              ActiveIndexIsValid, ContainsIndex, kInvalidIndex

\* The empty list satisfies the invariant.
LEMMA InitIInv ==
  ASSUME Init
  PROVE  IInv
<1>1. web_state_wrappers = <<>> /\ Len(web_state_wrappers) = 0
  BY DEF Init
<1>2. nav \in [WebStates -> NavigationIndexes]
  BY MaxNavigationIndexAssumption DEF Init, NavigationIndexes
<1>3. TypeOK
  BY <1>1, <1>2, IdleType DEF Init, TypeOK, kInvalidIndex
<1>4. OperationOK
  BY DEF Init, OperationOK, Idle
<1>5. SelectionIsRealized
  BY DEF Init, SelectionIsRealized, GetActiveWebState, WebStateAtOrNull
<1> QED
  BY <1>1, <1>3, <1>4, <1>5
     DEF Init, IInv, NoDuplicate, NoDanglingOpener, DistinctWebStates,
         OpenersInList, ActiveIndexIsValid

\* The observers are told of a new active WebState only once it is realized.
LEMMA NotifyRealizes ==
  ASSUME NEW ws, WellFormed(ws), NEW index \in 0..Len(ws),
         NEW old \in WebStates \cup {NoWebState}, NEW close \in BOOLEAN,
         NEW after, after \in Operations, realized \in SUBSET WebStates,
         NotifyIfActiveWebStateChanged(ws, old, index, close, after)
  PROVE  LET new == WebStateAtOrNull(ws, index) IN
         /\ op' \in Operations
         /\ realized' \in SUBSET WebStates
         /\ realized \subseteq realized'
         /\ old = new => op' = after
         /\ old # new => /\ op'.step = "WebStateActivatedAt"
                         /\ op'.close = close
                         /\ op'.old_web_state = old
                         /\ op'.web_state = new
                         /\ new \in realized' \cup {NoWebState}
         /\ old = new => realized' = realized
<1> DEFINE new == WebStateAtOrNull(ws, index)
<1>1. new \in WebStates \cup {NoWebState}
  <2>0. \A i \in 1..Len(ws) : ws[i] \in Wrappers
    BY ElementOfSeq DEF WellFormed
  <2>1. \A i \in 1..Len(ws) : ws[i].web_state \in WebStates
    BY <2>0 DEF Wrappers
  <2>2. Len(ws) \in Nat
    BY LenProperties DEF WellFormed
  <2> QED
    BY <2>1, <2>2 DEF WebStateAtOrNull, kInvalidIndex
<1>2. CASE old = new
  BY <1>2 DEF NotifyIfActiveWebStateChanged
<1>3. CASE old # new
  <2> DEFINE call == [Idle EXCEPT !.step = "WebStateActivatedAt",
                                  !.web_state = new,
                                  !.old_web_state = old,
                                  !.index = index,
                                  !.close = close]
  <2>0. index \in Nat
    BY LenProperties DEF WellFormed
  <2>1. /\ call \in Operations
        /\ call.step = "WebStateActivatedAt"
        /\ call.close = close
        /\ call.old_web_state = old
        /\ call.web_state = new
    <3> HIDE DEF new
    <3> QED
      BY <1>1, <2>0, NullOpenerType DEF Idle, Operations, Steps, kInvalidIndex
  <2>2. op' = call /\ realized' = realized \cup ({new} \ {NoWebState})
    BY <1>3 DEF NotifyIfActiveWebStateChanged
  <2> HIDE DEF call
  <2> QED
    BY <1>1, <1>3, <2>1, <2>2
<1> QED
  BY <1>2, <1>3

\* Activating keeps the list well-formed and leaves a realized selection.
LEMMA ActivateRealizes ==
  ASSUME NEW ws, WellFormed(ws), NEW index \in 0..Len(ws),
         NEW after, after \in Operations, realized \in SUBSET WebStates,
         active_index \in 0..Len(ws),
         WebStateAtOrNull(ws, active_index) \in realized \cup {NoWebState},
         ActivateWebStateAtImpl(ws, index, after)
  PROVE  /\ WellFormed(web_state_wrappers')
         /\ Len(web_state_wrappers') = Len(ws)
         /\ \A j \in 1..Len(ws) :
              web_state_wrappers'[j].web_state = ws[j].web_state
         /\ active_index' = index
         /\ op' \in Operations
         /\ \/ /\ op' = after
               /\ WebStateAtOrNull(ws, active_index)
                    = WebStateAtOrNull(ws, index)
               /\ realized' = realized
            \/ /\ op'.step = "WebStateActivatedAt" /\ ~op'.close
               /\ op'.old_web_state = WebStateAtOrNull(ws, active_index)
               /\ op'.web_state = WebStateAtOrNull(web_state_wrappers', index)
         /\ realized' \in SUBSET WebStates
         /\ realized \subseteq realized'
         /\ WebStateAtOrNull(web_state_wrappers', active_index')
              \in realized' \cup {NoWebState}
<1> DEFINE reset == ResetOpenerOnActiveWebStateChange(ws, active_index)
           old   == WebStateAtOrNull(ws, active_index)
           new   == WebStateAtOrNull(ws, index)
<1>0. Len(ws) \in Nat /\ \A i \in 1..Len(ws) : ws[i] \in Wrappers
  BY LenProperties, ElementOfSeq DEF WellFormed
<1>1. /\ WellFormed(reset)
      /\ Len(reset) = Len(ws)
      /\ \A j \in 1..Len(ws) : reset[j].web_state = ws[j].web_state
  <2>1. CASE active_index # kInvalidIndex /\ ws[active_index].should_reset_opener
    <3>1. active_index \in 1..Len(ws)
      BY <1>0, <2>1 DEF kInvalidIndex
    <3>2. NullOpener \in Openers /\ NullOpener.opener = NoWebState
      BY NullOpenerType DEF NullOpener, WebStateOpener
    <3>3. reset = [ws EXCEPT ![active_index]
                               = SetOpener(ws[active_index], NullOpener)]
      BY <2>1 DEF ResetOpenerOnActiveWebStateChange
    <3> DEFINE set == [ws EXCEPT ![active_index]
                                   = SetOpener(ws[active_index], NullOpener)]
    <3>4. /\ WellFormed(set)
          /\ Len(set) = Len(ws)
          /\ \A j \in 1..Len(ws) : set[j].web_state = ws[j].web_state
      BY <3>1, <3>2, SetOpenerAt
    <3> QED
      BY <3>3, <3>4
  <2>2. CASE ~(active_index # kInvalidIndex
               /\ ws[active_index].should_reset_opener)
    BY <2>2 DEF ResetOpenerOnActiveWebStateChange
  <2> QED
    BY <2>1, <2>2
<1>2. WebStateAtOrNull(reset, index) = new
  BY <1>0, <1>1 DEF WebStateAtOrNull, kInvalidIndex
<1>3. old \in WebStates \cup {NoWebState}
  BY <1>0 DEF WebStateAtOrNull, kInvalidIndex, Wrappers
<1>4. /\ web_state_wrappers' = reset
      /\ active_index' = index
      /\ NotifyIfActiveWebStateChanged(reset, old, index, FALSE, after)
  BY DEF ActivateWebStateAtImpl
<1>5. index \in 0..Len(reset)
  BY <1>1
<1> HIDE DEF reset, old
<1>6. /\ op' \in Operations
      /\ realized' \in SUBSET WebStates
      /\ realized \subseteq realized'
      /\ old = WebStateAtOrNull(reset, index) => op' = after
      /\ old # WebStateAtOrNull(reset, index) =>
           /\ op'.step = "WebStateActivatedAt"
           /\ op'.close = FALSE
           /\ op'.old_web_state = old
           /\ op'.web_state = WebStateAtOrNull(reset, index)
           /\ WebStateAtOrNull(reset, index) \in realized' \cup {NoWebState}
      /\ old = WebStateAtOrNull(reset, index) => realized' = realized
  BY <1>1, <1>3, <1>4, <1>5, NotifyRealizes, FALSE \in BOOLEAN
<1>7. new \in realized' \cup {NoWebState}
  BY <1>2, <1>6 DEF old
<1> QED
  BY <1>1, <1>2, <1>4, <1>6, <1>7 DEF old

----------------------------------------------------------------------------
(* What a step of the list does to the set of tabs and to the active one,  *)
(* by the observer call it ends in.                                        *)

SameTabs == InList(web_state_wrappers') = InList(web_state_wrappers)

TellsInserted ==
  /\ op.step = "Idle"
  /\ op'.step = "WebStateInsertedAt"
  /\ op'.web_state \in NotInList
  /\ InList(web_state_wrappers')
       = InList(web_state_wrappers) \cup {op'.web_state}
  /\ GetActiveWebState' = GetActiveWebState
  /\ realized' = realized

TellsReplaced ==
  /\ op.step = "Idle"
  /\ op'.step = "WebStateReplacedAt"
  /\ op'.web_state \in NotInList
  /\ op'.old_web_state \in InList(web_state_wrappers)
  /\ InList(web_state_wrappers')
       = (InList(web_state_wrappers) \ {op'.old_web_state})
           \cup {op'.web_state}
  /\ GetActiveWebState' = IF GetActiveWebState = op'.old_web_state
                          THEN op'.web_state ELSE GetActiveWebState
  /\ realized' = realized

TellsDetached ==
  /\ op.step = "WillDetachWebStateAt"
  /\ op'.step = "WebStateDetachedAt"
  /\ op'.web_state \in InList(web_state_wrappers)
  /\ InList(web_state_wrappers')
       = InList(web_state_wrappers) \ {op'.web_state}
  /\ op'.activate <=> GetActiveWebState = op'.web_state
  /\ ~op'.activate => GetActiveWebState' = GetActiveWebState
  /\ \/ GetActiveWebState' # NoWebState
     \/ GetActiveWebState = NoWebState
     \/ Len(web_state_wrappers') = 0
  /\ realized' = realized

\* After WebStateReplacedAt and WebStateDetachedAt the active WebState has
\* already changed; the other steps change it and announce the old one.
TellsActivated ==
  /\ op.step \notin {"WebStateActivatedAt", "WillCloseWebStateAt"}
  /\ op'.step = "WebStateActivatedAt"
  /\ SameTabs
  /\ op'.web_state = GetActiveWebState'
  /\ IF op.step \in {"WebStateReplacedAt", "WebStateDetachedAt"}
     THEN GetActiveWebState' = GetActiveWebState
     ELSE op'.old_web_state = GetActiveWebState
  /\ \/ GetActiveWebState' # NoWebState
     \/ GetActiveWebState = NoWebState
     \/ op.step = "WillBeginBatchOperation"
  /\ realized \subseteq realized' /\ realized' \subseteq WebStates

KeepsTabs ==
  /\ op.step # "WebStateReplacedAt"
  /\ ~(op.step = "WebStateDetachedAt" /\ op.activate)
  /\ op'.step \notin {"WebStateInsertedAt", "WebStateReplacedAt",
                      "WebStateDetachedAt", "WebStateActivatedAt"}
  /\ SameTabs
  /\ GetActiveWebState' = GetActiveWebState
  /\ realized' = IF op.step = "WillCloseWebStateAt"
                 THEN realized \ {op.web_state} ELSE realized

\* The wrappers of the same WebStates in the same order are the same tabs.
LEMMA SameInList ==
  ASSUME NEW ws, NEW new, Len(new) = Len(ws),
         \A j \in 1..Len(ws) : new[j].web_state = ws[j].web_state
  PROVE  InList(new) = InList(ws)
  BY DEF InList

\* InsertWebState.  The opener, if any, is in the list.
LEMMA InsertPreserves ==
  ASSUME IInv, NEW w \in NotInList, NEW activating \in BOOLEAN,
         NEW force \in BOOLEAN, NEW index,
         force => index \in 1..(Len(web_state_wrappers) + 1),
         NEW inherit \in BOOLEAN, NEW opener \in Openers,
         opener.opener \in InList(web_state_wrappers) \cup {NoWebState},
         InsertWebState(w, activating, force, index, inherit, opener)
  PROVE  IInv' /\ TellsInserted
<1> DEFINE ws     == IF inherit THEN ClearAllOpeners(web_state_wrappers)
                                ELSE web_state_wrappers
           parent == IF inherit
                     THEN OpenerFromWebState(nav, GetActiveWebState)
                     ELSE opener
           chosen == DetermineInsertionIndex(ws, nav, parent.opener)
           at     == IF force THEN index
                     ELSE IF chosen > Len(ws) + 1 THEN Len(ws) + 1 ELSE chosen
           new    == [WebStateWrapper(w) EXCEPT !.should_reset_opener = inherit]
           call   == [Idle EXCEPT !.step = "WebStateInsertedAt",
                                  !.web_state = w, !.index = at,
                                  !.opener = parent, !.activate = activating]
<1>0. /\ WellFormed(web_state_wrappers)
      /\ Len(web_state_wrappers) \in Nat
      /\ active_index \in 0..Len(web_state_wrappers)
      /\ \A i \in 1..Len(web_state_wrappers) :
           web_state_wrappers[i].web_state \in WebStates
  BY IInvFacts DEF Indexes, Wrappers
<1>1. /\ web_state_wrappers' = InsertAt(ws, at, new)
      /\ active_index' = IF active_index >= at THEN active_index + 1
                                               ELSE active_index
      /\ op' = call
      /\ op.step = "Idle"
      /\ UNCHANGED <<batch, realized, nav>>
  BY DEF InsertWebState, IsMutating
<1>2. /\ WellFormed(ws)
      /\ Len(ws) = Len(web_state_wrappers)
      /\ \A j \in 1..Len(ws) : ws[j].web_state = web_state_wrappers[j].web_state
  BY <1>0, ClearAll
<1>3. /\ parent \in Openers
      /\ \/ parent.opener = NoWebState
         \/ \E j \in 1..Len(ws) : ws[j].web_state = parent.opener
  <2>1. CASE inherit
    <3>1. \/ GetActiveWebState = NoWebState
          \/ /\ GetActiveWebState \in WebStates
             /\ \E j \in 1..Len(web_state_wrappers) :
                  web_state_wrappers[j].web_state = GetActiveWebState
      BY <1>0 DEF GetActiveWebState, WebStateAtOrNull, kInvalidIndex
    <3>2. nav \in [WebStates -> NavigationIndexes]
      BY DEF IInv, TypeOK
    <3>3. parent = OpenerFromWebState(nav, GetActiveWebState)
      BY <2>1
    <3>4. CASE GetActiveWebState = NoWebState
      BY <3>3, <3>4, NullOpenerType
         DEF OpenerFromWebState, NullOpener, WebStateOpener
    <3>5. CASE GetActiveWebState # NoWebState
      <4>1. parent = WebStateOpener(GetActiveWebState, nav[GetActiveWebState])
        BY <3>3, <3>5 DEF OpenerFromWebState
      <4>2. parent \in Openers /\ parent.opener = GetActiveWebState
        BY <4>1, <3>1, <3>2, <3>5 DEF WebStateOpener, Openers
      <4> HIDE DEF parent, ws
      <4> QED
        BY <1>2, <3>1, <3>5, <4>2
    <3> QED
      BY <3>4, <3>5
  <2>2. CASE ~inherit
    BY <2>2, <1>2 DEF InList
  <2> QED
    BY <2>1, <2>2
<1> HIDE DEF ws, parent
<1>4. at \in 1..(Len(ws) + 1)
  <2>1. chosen \in 1..(Len(ws) + 1)
    BY <1>2, <1>3, InsertionIndexRange
  <2> HIDE DEF chosen
  <2> QED
    BY <1>0, <1>2, <2>1
<1> HIDE DEF at
<1>5. /\ new \in Wrappers
      /\ new.web_state = w
      /\ new.opener.opener = NoWebState
      /\ \A j \in 1..Len(ws) : ws[j].web_state # w
  BY <1>2, NullOpenerType
     DEF WebStateWrapper, Wrappers, NotInList, InList, NullOpener,
         WebStateOpener
<1> HIDE DEF new
<1>6. /\ WellFormed(web_state_wrappers')
      /\ Len(web_state_wrappers') = Len(ws) + 1
      /\ web_state_wrappers'[at] = new
      /\ \A j \in 1..Len(ws) :
           ws[j] = IF j < at THEN web_state_wrappers'[j]
                             ELSE web_state_wrappers'[j + 1]
  <2>1. /\ WellFormed(InsertAt(ws, at, new))
        /\ Len(InsertAt(ws, at, new)) = Len(ws) + 1
        /\ InsertAt(ws, at, new)[at] = new
        /\ \A j \in 1..Len(ws) :
             ws[j] = IF j < at THEN InsertAt(ws, at, new)[j]
                               ELSE InsertAt(ws, at, new)[j + 1]
    BY <1>2, <1>4, <1>5, InsertNew
  <2> QED
    BY <1>1, <2>1
<1>7. /\ call \in Operations
      /\ call.step = "WebStateInsertedAt"
      /\ call.web_state = w
      /\ call.index = at
      /\ call.opener = parent
  <2>1. w \in WebStates /\ at \in Nat
    BY <1>0, <1>2, <1>4 DEF NotInList
  <2> QED
    BY <1>3, <2>1, NullOpenerType DEF Idle, Operations, Steps
<1> HIDE DEF call
<1>8. active_index' \in 0..Len(web_state_wrappers')
  BY <1>0, <1>1, <1>2, <1>4, <1>6
<1>9. OperationOK'
  <2>1. at \in 1..Len(web_state_wrappers')
    BY <1>4, <1>6
  <2>2. \/ parent.opener = NoWebState
        \/ \E j \in 1..Len(web_state_wrappers') :
             j # at /\ web_state_wrappers'[j].web_state = parent.opener
    <3> SUFFICES ASSUME parent.opener # NoWebState
                 PROVE  \E j \in 1..Len(web_state_wrappers') :
                          /\ j # at
                          /\ web_state_wrappers'[j].web_state = parent.opener
      OBVIOUS
    <3>1. PICK j \in 1..Len(ws) : ws[j].web_state = parent.opener
      BY <1>3
    <3> DEFINE k == IF j < at THEN j ELSE j + 1
    <3>2. /\ k \in 1..Len(web_state_wrappers')
          /\ k # at
          /\ web_state_wrappers'[k] = ws[j]
      BY <1>0, <1>2, <1>4, <1>6
    <3> QED
      BY <3>1, <3>2
  <2> QED
    BY <1>1, <1>7, <2>1, <2>2 DEF OperationOK, Indexes
<1>10. GetActiveWebState' = GetActiveWebState
  <2>1. CASE active_index = kInvalidIndex
    BY <1>0, <1>1, <1>4, <1>2, <2>1
       DEF GetActiveWebState, WebStateAtOrNull, kInvalidIndex
  <2>2. CASE active_index # kInvalidIndex
    <3>1. /\ active_index \in 1..Len(ws)
          /\ active_index' # kInvalidIndex
          /\ ws[active_index].web_state
               = web_state_wrappers[active_index].web_state
      BY <1>0, <1>1, <1>2, <2>2 DEF kInvalidIndex
    <3>2. web_state_wrappers'[active_index'] = ws[active_index]
      BY <1>1, <1>2, <1>4, <1>6, <3>1
    <3> QED
      BY <2>2, <3>1, <3>2 DEF GetActiveWebState, WebStateAtOrNull
  <2> QED
    BY <2>1, <2>2
<1>11. SelectionIsRealized'
  <2>1. GetActiveWebState \in realized \cup {NoWebState}
    BY <1>1 DEF IInv, SelectionIsRealized
  <2> QED
    BY <1>1, <1>10, <2>1 DEF SelectionIsRealized
<1>12. /\ batch' \in {"none", "caller", "close_all"}
       /\ realized' \in SUBSET WebStates
       /\ nav' \in [WebStates -> NavigationIndexes]
  BY <1>1 DEF IInv, TypeOK
<1>13. IInv'
  BY <1>1, <1>6, <1>7, <1>8, <1>9, <1>11, <1>12, IInvFromParts
<1>14. InList(web_state_wrappers') = InList(web_state_wrappers) \cup {w}
  <2>1. ASSUME NEW x \in InList(web_state_wrappers')
        PROVE  x \in InList(web_state_wrappers) \cup {w}
    <3>1. PICK j \in 1..(Len(ws) + 1) : x = web_state_wrappers'[j].web_state
      BY <1>6, <2>1 DEF InList
    <3>2. j = at \/ \E k \in 1..Len(ws) : web_state_wrappers'[j] = ws[k]
      <4>1. CASE j < at
        BY <1>0, <1>2, <1>4, <1>6, <4>1
      <4>2. CASE j > at
        <5>1. j - 1 \in 1..Len(ws) /\ ~(j - 1 < at) /\ (j - 1) + 1 = j
          BY <1>0, <1>2, <1>4, <4>2
        <5> QED
          BY <1>6, <5>1
      <4> QED
        BY <1>0, <1>2, <1>4, <4>1, <4>2
    <3> QED
      BY <1>2, <1>5, <1>6, <3>1, <3>2 DEF InList
  <2>2. ASSUME NEW x \in InList(web_state_wrappers) \cup {w}
        PROVE  x \in InList(web_state_wrappers')
    <3>1. CASE x = w
      <4>1. at \in 1..Len(web_state_wrappers')
        BY <1>4, <1>6
      <4> QED
        BY <1>5, <1>6, <3>1, <4>1 DEF InList
    <3>2. CASE x # w
      <4>1. PICK j \in 1..Len(ws) : x = ws[j].web_state
        BY <1>2, <2>2, <3>2 DEF InList
      <4>2. PICK k \in 1..(Len(ws) + 1) : web_state_wrappers'[k] = ws[j]
        BY <1>0, <1>2, <1>6
      <4> QED
        BY <1>6, <4>1, <4>2 DEF InList
    <3> QED
      BY <3>1, <3>2
  <2> QED
    BY <2>1, <2>2
<1>15. TellsInserted
  BY <1>1, <1>7, <1>10, <1>14 DEF TellsInserted
<1> QED
  BY <1>13, <1>15

\* MoveWebStateAt.
LEMMA MovePreserves ==
  ASSUME IInv, NEW from \in Indexes, NEW to \in Indexes,
         MoveWebStateAt(from, to)
  PROVE  IInv' /\ KeepsTabs
<1> DEFINE ws   == web_state_wrappers
           call == [Idle EXCEPT !.step = "WebStateMoved",
                                !.web_state = ws[from].web_state,
                                !.index = to]
<1>0. /\ WellFormed(ws)
      /\ Len(ws) \in Nat
      /\ active_index \in 0..Len(ws)
      /\ \A i \in 1..Len(ws) : ws[i] \in Wrappers
      /\ from \in 1..Len(ws) /\ to \in 1..Len(ws) /\ from # to
  BY IInvFacts DEF Indexes, MoveWebStateAt
<1>1. /\ ws' = InsertAt(RemoveAt(ws, from), to, ws[from])
      /\ op' = call
      /\ op.step = "Idle"
      /\ UNCHANGED <<batch, realized, nav>>
  BY DEF MoveWebStateAt, IsMutating
<1>2. /\ WellFormed(ws')
      /\ Len(ws') = Len(ws)
      /\ \A j \in 1..Len(ws) : ws'[j] = ws[MovedFrom(from, to, j)]
  BY <1>0, <1>1, MovePermutes
<1>3. /\ active_index' \in 0..Len(ws)
      /\ active_index' = kInvalidIndex <=> active_index = kInvalidIndex
      /\ active_index # kInvalidIndex =>
           MovedFrom(from, to, active_index') = active_index
  BY <1>0 DEF MoveWebStateAt, MovedFrom, kInvalidIndex
<1>4. call \in Operations /\ call.step = "WebStateMoved"
  <2>1. ws[from].web_state \in WebStates /\ to \in Nat
    BY <1>0 DEF Wrappers
  <2> QED
    BY <2>1, NullOpenerType DEF Idle, Operations, Steps
<1> HIDE DEF call
<1>5. OperationOK'
  BY <1>1, <1>4 DEF OperationOK
<1>6. GetActiveWebState' = GetActiveWebState
  BY <1>0, <1>2, <1>3 DEF GetActiveWebState, WebStateAtOrNull, kInvalidIndex
<1>7. SelectionIsRealized'
  <2>1. GetActiveWebState \in realized \cup {NoWebState}
    BY <1>1 DEF IInv, SelectionIsRealized
  <2> QED
    BY <1>1, <1>6, <2>1 DEF SelectionIsRealized
<1>8. /\ batch' \in {"none", "caller", "close_all"}
      /\ realized' \in SUBSET WebStates
      /\ nav' \in [WebStates -> NavigationIndexes]
  BY <1>1 DEF IInv, TypeOK
<1>9. IInv'
  BY <1>1, <1>2, <1>3, <1>4, <1>5, <1>7, <1>8, IInvFromParts
<1>10. InList(ws') = InList(ws)
  <2>1. \A j \in 1..Len(ws) : MovedFrom(from, to, j) \in 1..Len(ws)
    BY <1>0 DEF MovedFrom
  <2>2. ASSUME NEW j \in 1..Len(ws)
        PROVE  \E k \in 1..Len(ws) : ws'[k] = ws[j]
    <3> DEFINE k == MovedFrom(to, from, j)
    <3>1. k \in 1..Len(ws) /\ MovedFrom(from, to, k) = j
      BY <1>0 DEF MovedFrom
    <3> QED
      BY <1>2, <3>1
  <2>3. ASSUME NEW x \in InList(ws') PROVE x \in InList(ws)
    BY <1>2, <2>1, <2>3 DEF InList
  <2>4. ASSUME NEW x \in InList(ws) PROVE x \in InList(ws')
    <3>1. PICK j \in 1..Len(ws) : x = ws[j].web_state
      BY <2>4 DEF InList
    <3>2. PICK k \in 1..Len(ws) : ws'[k] = ws[j]
      BY <2>2
    <3> QED
      BY <1>2, <3>1, <3>2 DEF InList
  <2> QED
    BY <2>3, <2>4
<1> QED
  BY <1>1, <1>4, <1>6, <1>9, <1>10 DEF KeepsTabs, SameTabs

\* ReplaceWebStateAt.
LEMMA ReplacePreserves ==
  ASSUME IInv, NEW i \in Indexes, NEW w \in NotInList, ReplaceWebStateAt(i, w)
  PROVE  IInv' /\ TellsReplaced
<1> DEFINE ws      == web_state_wrappers
           old     == ws[i].web_state
           cleared == ClearOpenersReferencing(ws, old)
           call    == [Idle EXCEPT !.step = "WebStateReplacedAt",
                                   !.web_state = w, !.old_web_state = old,
                                   !.index = i]
<1>0. /\ WellFormed(ws)
      /\ Len(ws) \in Nat
      /\ active_index \in 0..Len(ws)
      /\ i \in 1..Len(ws)
      /\ old \in WebStates
      /\ w \in WebStates
      /\ \A j \in 1..Len(ws) : ws[j].web_state # w
  BY IInvFacts DEF Indexes, Wrappers, NotInList, InList
<1>1. /\ ws' = [cleared EXCEPT ![i] = ReplaceWebState(cleared[i], w)]
      /\ op' = call
      /\ op.step = "Idle"
      /\ UNCHANGED <<active_index, batch, realized, nav>>
  BY DEF ReplaceWebStateAt, IsMutating
<1>2. /\ WellFormed(cleared)
      /\ Len(cleared) = Len(ws)
      /\ \A j \in 1..Len(ws) : /\ cleared[j].web_state = ws[j].web_state
                               /\ cleared[j].opener.opener # old
  BY <1>0, ClearOpeners, NoWebStateAssumption
<1> HIDE DEF cleared
<1>3. /\ WellFormed(ws')
      /\ Len(ws') = Len(ws)
      /\ ws'[i].web_state = w
      /\ \A j \in 1..Len(ws) : j # i => ws'[j] = cleared[j]
  <2>1. /\ i \in 1..Len(cleared)
        /\ \A j \in 1..Len(cleared) :
             /\ cleared[j].opener.opener # cleared[i].web_state
             /\ cleared[j].web_state # w
    BY <1>0, <1>2
  <2> DEFINE new == [cleared EXCEPT ![i] = ReplaceWebState(cleared[i], w)]
  <2>2. /\ WellFormed(new)
        /\ Len(new) = Len(cleared)
        /\ new[i].web_state = w
        /\ \A j \in 1..Len(cleared) : j # i => new[j] = cleared[j]
    BY <1>0, <1>2, <2>1, ReplaceUnnamed
  <2> QED
    BY <1>1, <1>2, <2>2
<1>4. /\ call \in Operations
      /\ call.step = "WebStateReplacedAt"
      /\ call.web_state = w
      /\ call.old_web_state = old
  <2>1. i \in Nat
    BY <1>0
  <2> HIDE DEF old
  <2> QED
    BY <1>0, <2>1, NullOpenerType DEF Idle, Operations, Steps
<1> HIDE DEF call
<1>5. \A j \in 1..Len(ws') : ws'[j].web_state # old
  <2>1. \A j \in 1..Len(ws) : j # i => ws[j].web_state # old
    BY <1>0 DEF WellFormed, DistinctWebStates
  <2> QED
    BY <1>0, <1>2, <1>3, <2>1
<1>6. OperationOK'
  BY <1>1, <1>4, <1>0, <1>5 DEF OperationOK, NotInList, InList
<1>7. SelectionIsRealized'
  BY <1>1, <1>4 DEF SelectionIsRealized
<1>8. /\ batch' \in {"none", "caller", "close_all"}
      /\ realized' \in SUBSET WebStates
      /\ nav' \in [WebStates -> NavigationIndexes]
  BY <1>1 DEF IInv, TypeOK
<1>9. IInv'
  BY <1>0, <1>1, <1>3, <1>4, <1>6, <1>7, <1>8, IInvFromParts
<1>10. \A j \in 1..Len(ws) :
         ws'[j].web_state = IF j = i THEN w ELSE ws[j].web_state
  BY <1>2, <1>3
<1>11. old \in InList(ws) /\ InList(ws') = (InList(ws) \ {old}) \cup {w}
  <2>1. \A j \in 1..Len(ws) : j # i <=> ws[j].web_state # old
    BY <1>0 DEF WellFormed, DistinctWebStates
  <2> HIDE DEF old
  <2>2. i \in 1..Len(ws) /\ ws[i].web_state = old
    BY <1>0 DEF old
  <2>3. ASSUME NEW x \in InList(ws')
        PROVE  x \in (InList(ws) \ {old}) \cup {w}
    BY <1>3, <1>10, <2>1, <2>3 DEF InList
  <2>4. ASSUME NEW x \in (InList(ws) \ {old}) \cup {w}
        PROVE  x \in InList(ws')
    BY <1>3, <1>10, <2>1, <2>2, <2>4 DEF InList
  <2> QED
    BY <2>2, <2>3, <2>4 DEF InList
<1>12. GetActiveWebState' = IF GetActiveWebState = old THEN w
                                                        ELSE GetActiveWebState
  <2>1. CASE active_index = kInvalidIndex
    BY <1>0, <1>1, <2>1, NoWebStateAssumption DEF GetActiveWebState, WebStateAtOrNull
  <2>2. CASE active_index # kInvalidIndex
    <3>1. active_index \in 1..Len(ws)
      BY <1>0, <2>2 DEF kInvalidIndex
    <3>2. active_index = i <=> ws[active_index].web_state = old
      BY <1>0, <3>1 DEF WellFormed, DistinctWebStates
    <3> QED
      BY <1>1, <1>10, <2>2, <3>1, <3>2 DEF GetActiveWebState, WebStateAtOrNull
  <2> QED
    BY <2>1, <2>2
<1> QED
  BY <1>1, <1>4, <1>9, <1>11, <1>12 DEF TellsReplaced

\* What WillDetach and WillClose announce.
LEMMA WillDetachType ==
  ASSUME IInv, NEW i \in Indexes, NEW close \in BOOLEAN
  PROVE  /\ WillDetach(i, close) \in Operations
         /\ WillDetach(i, close).step = "WillDetachWebStateAt"
         /\ WillDetach(i, close).index = i
         /\ WillDetach(i, close).web_state = web_state_wrappers[i].web_state
<1>1. web_state_wrappers[i].web_state \in WebStates /\ i \in Nat
  BY IInvFacts DEF Indexes, Wrappers
<1> QED
  BY <1>1, NullOpenerType DEF WillDetach, Idle, Operations, Steps

\* The call of WillCloseWebStateAt is a state of `op'.
LEMMA WillCloseType ==
  ASSUME NEW w \in WebStates
  PROVE  /\ WillClose(w) \in Operations
         /\ WillClose(w).step = "WillCloseWebStateAt"
         /\ WillClose(w).web_state = w
  BY NullOpenerType DEF WillClose, Idle, Operations, Steps, kInvalidIndex

\* What CloseAllWebStates does next is a state of `op'.
LEMMA CloseNextType ==
  ASSUME IInv
  PROVE  /\ CloseNextOrEndBatch \in Operations
         /\ \/ CloseNextOrEndBatch.step = "BatchOperationEnded"
            \/ /\ CloseNextOrEndBatch.step = "WillDetachWebStateAt"
               /\ CloseNextOrEndBatch.index \in Indexes
               /\ CloseNextOrEndBatch.web_state
                    = web_state_wrappers[CloseNextOrEndBatch.index].web_state
<1> DEFINE n == Len(web_state_wrappers)
<1>0. n \in Nat
  BY IInvFacts
<1>1. CASE n = 0
  BY <1>1, NullOpenerType
     DEF CloseNextOrEndBatch, Idle, Operations, Steps, kInvalidIndex
<1>2. CASE n # 0
  <2>1. n \in Indexes
    BY <1>0, <1>2 DEF Indexes
  <2>2. CloseNextOrEndBatch = WillDetach(n, TRUE)
    BY <1>2 DEF CloseNextOrEndBatch
  <2> HIDE DEF n
  <2> QED
    BY <2>1, <2>2, WillDetachType, TRUE \in BOOLEAN
<1> QED
  BY <1>1, <1>2

\* The steps that only make the next observer call.
LEMMA CallPreserves ==
  ASSUME IInv, UNCHANGED <<web_state_wrappers, active_index, nav>>,
         GetActiveWebState \in realized' \cup {NoWebState},
         batch' \in {"none", "caller", "close_all"},
         realized' \in SUBSET WebStates, op' \in Operations, OperationOK'
  PROVE  IInv'
<1>1. SelectionIsRealized'
  BY DEF SelectionIsRealized, GetActiveWebState
<1>2. nav' \in [WebStates -> NavigationIndexes]
  BY DEF IInv, TypeOK
<1>3. WellFormed(web_state_wrappers')
  BY IInvFacts
<1>4. active_index' \in 0..Len(web_state_wrappers')
  BY IInvFacts
<1> QED
  BY <1>1, <1>2, <1>3, <1>4, IInvFromParts

\* DetachWebStateAt and CloseWebStateAt.
LEMMA DetachPreserves ==
  ASSUME IInv, NEW i \in Indexes, DetachWebStateAt(i) \/ CloseWebStateAt(i)
  PROVE  IInv' /\ KeepsTabs
<1>1. PICK close \in BOOLEAN :
        /\ op.step = "Idle"
        /\ op' = WillDetach(i, close)
        /\ UNCHANGED <<web_state_wrappers, active_index, batch, realized, nav>>
  BY DEF DetachWebStateAt, CloseWebStateAt, IsMutating
<1>2. OperationOK'
  BY <1>1, WillDetachType DEF OperationOK, Indexes
<1>3. /\ GetActiveWebState \in realized' \cup {NoWebState}
      /\ batch' \in {"none", "caller", "close_all"}
      /\ realized' \in SUBSET WebStates
      /\ op' \in Operations
  BY <1>1, WillDetachType DEF IInv, TypeOK, SelectionIsRealized
<1>4. KeepsTabs
  BY <1>1, WillDetachType DEF KeepsTabs, SameTabs, GetActiveWebState
<1> QED
  BY <1>1, <1>2, <1>3, <1>4, CallPreserves

\* The other methods of an idle list that leave the list as it is.
LEMMA BatchPreserves ==
  ASSUME IInv, CloseAllWebStates \/ WillBeginBatchOperation
               \/ BatchOperationEnded
  PROVE  IInv' /\ KeepsTabs
<1> DEFINE begin == [Idle EXCEPT !.step = "WillBeginBatchOperation"]
<1>1. begin \in Operations /\ begin.step = "WillBeginBatchOperation"
  BY NullOpenerType DEF Idle, Operations, Steps, kInvalidIndex
<1> HIDE DEF begin
<1>2. /\ op.step = "Idle"
      /\ op' = begin \/ op' = op
      /\ batch' \in {"none", "caller", "close_all"}
      /\ UNCHANGED <<web_state_wrappers, active_index, realized, nav>>
  BY DEF CloseAllWebStates, WillBeginBatchOperation, BatchOperationEnded,
         IsMutating, begin
<1>3. OperationOK'
  BY <1>1, <1>2 DEF OperationOK
<1>4. /\ GetActiveWebState \in realized' \cup {NoWebState}
      /\ realized' \in SUBSET WebStates
      /\ op' \in Operations
  BY <1>1, <1>2 DEF IInv, TypeOK, SelectionIsRealized
<1>5. KeepsTabs
  BY <1>1, <1>2 DEF KeepsTabs, SameTabs, GetActiveWebState
<1> QED
  BY <1>2, <1>3, <1>4, <1>5, CallPreserves

\* A step that ends in ActivateWebStateAtImpl.
LEMMA ActivationPreserves ==
  ASSUME IInv, op.step \in {"Idle", "WebStateInsertedAt",
                             "WillBeginBatchOperation"},
         NEW ws, WellFormed(ws), Len(ws) = Len(web_state_wrappers),
         \A j \in 1..Len(ws) : ws[j].web_state = web_state_wrappers[j].web_state,
         NEW index \in 0..Len(ws), NEW after, after \in Operations,
         index = kInvalidIndex => op.step = "WillBeginBatchOperation",
         ActivateWebStateAtImpl(ws, index, after),
         \/ after = Idle
         \/ /\ index = kInvalidIndex
            /\ after = CloseNextOrEndBatch,
         UNCHANGED <<batch, nav>>
  PROVE  IInv' /\ (TellsActivated \/ KeepsTabs)
<1>0. /\ Len(ws) \in Nat
      /\ active_index \in 0..Len(ws)
      /\ realized \in SUBSET WebStates
  BY IInvFacts DEF IInv, TypeOK
<1>1. WebStateAtOrNull(ws, active_index) = GetActiveWebState
  BY <1>0 DEF GetActiveWebState, WebStateAtOrNull, kInvalidIndex
<1>2. WebStateAtOrNull(ws, active_index) \in realized \cup {NoWebState}
  BY <1>1 DEF IInv, SelectionIsRealized
<1>3. /\ WellFormed(web_state_wrappers')
      /\ Len(web_state_wrappers') = Len(ws)
      /\ \A j \in 1..Len(ws) :
           web_state_wrappers'[j].web_state = ws[j].web_state
      /\ active_index' = index
      /\ op' \in Operations
      /\ \/ /\ op' = after /\ realized' = realized
            /\ WebStateAtOrNull(ws, active_index) = WebStateAtOrNull(ws, index)
         \/ /\ op'.step = "WebStateActivatedAt" /\ ~op'.close
            /\ op'.old_web_state = WebStateAtOrNull(ws, active_index)
            /\ op'.web_state = WebStateAtOrNull(web_state_wrappers', index)
      /\ realized' \in SUBSET WebStates
      /\ realized \subseteq realized'
      /\ WebStateAtOrNull(web_state_wrappers', active_index')
           \in realized' \cup {NoWebState}
  BY <1>0, <1>2, ActivateRealizes
<1>4. OperationOK'
  <2>1. CASE op'.step = "WebStateActivatedAt" /\ ~op'.close
    BY <2>1 DEF OperationOK
  <2>2. CASE op' = Idle
    BY <2>2 DEF OperationOK, Idle
  <2>3. CASE op' = CloseNextOrEndBatch
    <3>1. \/ op'.step = "BatchOperationEnded"
          \/ /\ op'.step = "WillDetachWebStateAt"
             /\ op'.index \in Indexes
             /\ op'.web_state = web_state_wrappers[op'.index].web_state
      BY <2>3, CloseNextType
    <3> QED
      BY <1>3, <3>1 DEF OperationOK, Indexes
  <2> QED
    BY <1>3, <2>1, <2>2, <2>3
<1>5. SelectionIsRealized'
  BY <1>3 DEF SelectionIsRealized, GetActiveWebState
<1>6. /\ batch' \in {"none", "caller", "close_all"}
      /\ nav' \in [WebStates -> NavigationIndexes]
  BY DEF IInv, TypeOK
<1>7. active_index' \in 0..Len(web_state_wrappers')
  BY <1>3
<1>8. IInv'
  BY <1>3, <1>4, <1>5, <1>6, <1>7, IInvFromParts
<1>9. SameTabs
  BY <1>3, SameInList DEF SameTabs
<1>10. /\ GetActiveWebState' = WebStateAtOrNull(web_state_wrappers', index)
       /\ GetActiveWebState' = WebStateAtOrNull(ws, index)
       /\ index # kInvalidIndex => GetActiveWebState' # NoWebState
  <2>1. GetActiveWebState' = WebStateAtOrNull(web_state_wrappers', index)
    BY <1>3 DEF GetActiveWebState
  <2>2. ASSUME index # kInvalidIndex
        PROVE  web_state_wrappers'[index].web_state = ws[index].web_state
    BY <1>0, <1>3, <2>2 DEF kInvalidIndex
  <2>3. index # kInvalidIndex => ws[index] \in Wrappers
    BY <1>0, ElementOfSeq DEF WellFormed, kInvalidIndex
  <2>4. index # kInvalidIndex => ws[index].web_state # NoWebState
    BY <2>3, NoWebStateAssumption DEF Wrappers
  <2> QED
    BY <2>1, <2>2, <2>4 DEF WebStateAtOrNull
<1>11. CASE op'.step = "WebStateActivatedAt"
  <2>1. /\ op'.old_web_state = GetActiveWebState
        /\ op'.web_state = GetActiveWebState'
    <3>1. ~(op' = after)
      <4>1. after = Idle => after.step # "WebStateActivatedAt"
        BY DEF Idle
      <4>2. after = CloseNextOrEndBatch => after.step # "WebStateActivatedAt"
        BY CloseNextType
      <4> QED
        BY <1>11, <4>1, <4>2
    <3> QED
      BY <1>1, <1>3, <1>10, <3>1
  <2> QED
    BY <1>3, <1>8, <1>9, <1>10, <1>11, <2>1 DEF TellsActivated
<1>12. CASE op'.step # "WebStateActivatedAt"
  <2>1. op' = after /\ realized' = realized /\ GetActiveWebState' = GetActiveWebState
    BY <1>1, <1>3, <1>10, <1>12
  <2>2. op'.step \in {"Idle", "BatchOperationEnded", "WillDetachWebStateAt"}
    BY <2>1, CloseNextType DEF Idle
  <2> QED
    BY <1>8, <1>9, <2>1, <2>2 DEF KeepsTabs
<1> QED
  BY <1>11, <1>12

\* ActivateWebStateAt preserves the invariant.
LEMMA ActivatePreserves ==
  ASSUME IInv, NEW i \in Indexes, ActivateWebStateAt(i)
  PROVE  IInv' /\ (TellsActivated \/ KeepsTabs)
<1>1. /\ op.step = "Idle"
      /\ ActivateWebStateAtImpl(web_state_wrappers, i, Idle)
      /\ UNCHANGED <<batch, nav>>
  BY DEF ActivateWebStateAt, IsMutating
<1>2. /\ WellFormed(web_state_wrappers)
      /\ i \in 0..Len(web_state_wrappers)
      /\ i # kInvalidIndex
  BY IInvFacts DEF Indexes, kInvalidIndex
<1> QED
  BY <1>1, <1>2, IdleType, ActivationPreserves

\* CloseAllWebStates deselects the active tab and goes on to close the tabs.
LEMMA AfterBeginBatchPreserves ==
  ASSUME IInv, AfterWillBeginBatchOperation
  PROVE  IInv' /\ (TellsActivated \/ KeepsTabs)
<1>1. /\ op.step = "WillBeginBatchOperation"
      /\ ActivateWebStateAtImpl(web_state_wrappers, kInvalidIndex,
                                CloseNextOrEndBatch)
      /\ UNCHANGED <<batch, nav>>
  BY DEF AfterWillBeginBatchOperation
<1>2. /\ WellFormed(web_state_wrappers)
      /\ kInvalidIndex \in 0..Len(web_state_wrappers)
  BY IInvFacts DEF kInvalidIndex
<1> QED
  BY <1>1, <1>2, CloseNextType, ActivationPreserves

\* AfterWebStateInsertedAt: the opener is set, then the WebState activated.
LEMMA AfterInsertedPreserves ==
  ASSUME IInv, AfterWebStateInsertedAt
  PROVE  IInv' /\ (TellsActivated \/ KeepsTabs)
<1> DEFINE ws == IF op.opener.opener = NoWebState
                 THEN web_state_wrappers
                 ELSE [web_state_wrappers EXCEPT
                         ![op.index] = SetOpener(web_state_wrappers[op.index],
                                                 op.opener)]
<1>0. /\ WellFormed(web_state_wrappers)
      /\ Len(web_state_wrappers) \in Nat
      /\ active_index \in 0..Len(web_state_wrappers)
      /\ op \in Operations
      /\ op.step = "WebStateInsertedAt"
      /\ op.index \in 1..Len(web_state_wrappers)
      /\ op.opener \in Openers
      /\ \/ op.opener.opener = NoWebState
         \/ \E j \in 1..Len(web_state_wrappers) :
              /\ j # op.index
              /\ web_state_wrappers[j].web_state = op.opener.opener
  BY IInvFacts
     DEF AfterWebStateInsertedAt, IInv, OperationOK, Indexes, Operations
<1>1. /\ WellFormed(ws)
      /\ Len(ws) = Len(web_state_wrappers)
      /\ \A j \in 1..Len(ws) :
           ws[j].web_state = web_state_wrappers[j].web_state
  <2> DEFINE set == [web_state_wrappers EXCEPT
                       ![op.index] = SetOpener(web_state_wrappers[op.index],
                                               op.opener)]
  <2>1. /\ WellFormed(set)
        /\ Len(set) = Len(web_state_wrappers)
        /\ \A j \in 1..Len(web_state_wrappers) :
             set[j].web_state = web_state_wrappers[j].web_state
    BY <1>0, SetOpenerAt
  <2> QED
    BY <1>0, <2>1
<1>2. \/ ActivateWebStateAtImpl(ws, op.index, Idle) /\ UNCHANGED <<batch, nav>>
      \/ /\ web_state_wrappers' = ws
         /\ op' = Idle
         /\ UNCHANGED <<active_index, realized, batch, nav>>
  BY DEF AfterWebStateInsertedAt
<1> HIDE DEF ws
<1>3. CASE ActivateWebStateAtImpl(ws, op.index, Idle)
           /\ UNCHANGED <<batch, nav>>
  <2>1. op.index \in 0..Len(ws) /\ op.index # kInvalidIndex
    BY <1>0, <1>1 DEF kInvalidIndex
  <2> QED
    BY <1>0, <1>1, <1>3, <2>1, IdleType, ActivationPreserves
<1>4. CASE /\ web_state_wrappers' = ws
           /\ op' = Idle
           /\ UNCHANGED <<active_index, realized, batch, nav>>
  <2>1. OperationOK' /\ op' \in Operations
    BY <1>4, IdleType DEF OperationOK, Idle
  <2>2. GetActiveWebState' = GetActiveWebState
    BY <1>0, <1>1, <1>4 DEF GetActiveWebState, WebStateAtOrNull, kInvalidIndex
  <2>3. SelectionIsRealized'
    BY <1>0, <1>4, <2>2 DEF IInv, SelectionIsRealized
  <2>4. /\ batch' \in {"none", "caller", "close_all"}
        /\ realized' \in SUBSET WebStates
        /\ nav' \in [WebStates -> NavigationIndexes]
    BY <1>4 DEF IInv, TypeOK
  <2>5. IInv'
    BY <1>0, <1>1, <1>4, <2>1, <2>3, <2>4, IInvFromParts
  <2>6. SameTabs
    BY <1>1, <1>4, SameInList DEF SameTabs
  <2> QED
    BY <1>0, <1>4, <2>2, <2>5, <2>6 DEF KeepsTabs, Idle
<1> QED
  BY <1>2, <1>3, <1>4

\* SetOpenerOfWebStateAt, as session restoration calls it.
LEMMA RestoreOpenerPreserves ==
  ASSUME IInv, RestoreOpener
  PROVE  IInv' /\ KeepsTabs
<1>1. PICK i \in Indexes, j \in Indexes, n \in NavigationIndexes :
        /\ i # j
        /\ SetOpenerOfWebStateAt(
             i, WebStateOpener(web_state_wrappers[j].web_state, n))
  BY DEF RestoreOpener
<1> DEFINE o   == WebStateOpener(web_state_wrappers[j].web_state, n)
           set == [web_state_wrappers EXCEPT
                     ![i] = SetOpener(web_state_wrappers[i], o)]
<1>2. /\ WellFormed(web_state_wrappers)
      /\ Len(web_state_wrappers) \in Nat
      /\ active_index \in 0..Len(web_state_wrappers)
      /\ i \in 1..Len(web_state_wrappers)
      /\ j \in 1..Len(web_state_wrappers)
      /\ web_state_wrappers[j].web_state \in WebStates
  BY IInvFacts DEF Indexes, Wrappers
<1>3. o \in Openers /\ o.opener = web_state_wrappers[j].web_state
  BY <1>2 DEF WebStateOpener, Openers
<1>4. /\ web_state_wrappers' = set
      /\ op.step = "Idle"
      /\ UNCHANGED <<active_index, batch, op, realized, nav>>
  BY <1>1 DEF SetOpenerOfWebStateAt, IsMutating
<1> HIDE DEF o
<1>5. /\ WellFormed(set)
      /\ Len(set) = Len(web_state_wrappers)
      /\ \A k \in 1..Len(web_state_wrappers) :
           set[k].web_state = web_state_wrappers[k].web_state
  BY <1>1, <1>2, <1>3, SetOpenerAt
<1> HIDE DEF set
<1>6. OperationOK'
  BY <1>4 DEF OperationOK
<1>7. GetActiveWebState' = GetActiveWebState
  BY <1>2, <1>4, <1>5 DEF GetActiveWebState, WebStateAtOrNull, kInvalidIndex
<1>8. SelectionIsRealized'
  BY <1>4, <1>7 DEF IInv, SelectionIsRealized
<1>9. /\ batch' \in {"none", "caller", "close_all"}
      /\ realized' \in SUBSET WebStates
      /\ op' \in Operations
      /\ nav' \in [WebStates -> NavigationIndexes]
  BY <1>4 DEF IInv, TypeOK
<1>10. IInv'
  BY <1>2, <1>4, <1>5, <1>6, <1>8, <1>9, IInvFromParts
<1>11. SameTabs
  BY <1>4, <1>5, SameInList DEF SameTabs
<1> QED
  BY <1>4, <1>7, <1>10, <1>11 DEF KeepsTabs

\* AfterWillDetachWebStateAt: the WebState leaves the list.
LEMMA AfterWillDetachPreserves ==
  ASSUME IInv, AfterWillDetachWebStateAt
  PROVE  IInv' /\ TellsDetached
<1> DEFINE ws      == web_state_wrappers
           r       == op.index
           cleared == ClearOpenersReferencing(ws, op.web_state)
           call    == [op EXCEPT !.step = "WebStateDetachedAt",
                                 !.activate = (op.index = active_index)]
<1>0. /\ WellFormed(ws)
      /\ Len(ws) \in Nat
      /\ active_index \in 0..Len(ws)
      /\ op \in Operations
      /\ op.step = "WillDetachWebStateAt"
      /\ r \in 1..Len(ws)
      /\ ws[r].web_state = op.web_state
      /\ op.web_state \in WebStates
  BY IInvFacts
     DEF AfterWillDetachWebStateAt, IInv, OperationOK, Indexes, Wrappers
<1>1. /\ active_index' = DetermineNewActiveIndex(ws, nav, active_index, {r})
      /\ ws' = RemoveAt(cleared, r)
      /\ op' = call
      /\ UNCHANGED <<batch, realized, nav>>
  BY DEF AfterWillDetachWebStateAt
<1>2. /\ WellFormed(cleared)
      /\ Len(cleared) = Len(ws)
      /\ \A j \in 1..Len(ws) : /\ cleared[j].web_state = ws[j].web_state
                               /\ cleared[j].opener.opener # op.web_state
  BY <1>0, ClearOpeners, NoWebStateAssumption
<1> HIDE DEF cleared
<1>3. /\ WellFormed(ws')
      /\ Len(ws') = Len(ws) - 1
      /\ \A j \in 1..(Len(ws) - 1) :
           ws'[j] = IF j < r THEN cleared[j] ELSE cleared[j + 1]
      /\ \A j \in 1..(Len(ws) - 1) : ws'[j].web_state # op.web_state
  <2>1. /\ r \in 1..Len(cleared)
        /\ \A j \in 1..Len(cleared) :
             cleared[j].opener.opener # cleared[r].web_state
    BY <1>0, <1>2
  <2> DEFINE new == RemoveAt(cleared, r)
  <2>2. /\ WellFormed(new)
        /\ Len(new) = Len(cleared) - 1
        /\ \A j \in 1..(Len(cleared) - 1) :
             new[j] = IF j < r THEN cleared[j] ELSE cleared[j + 1]
        /\ \A j \in 1..(Len(cleared) - 1) :
             new[j].web_state # cleared[r].web_state
    BY <1>2, <2>1, RemoveUnnamed
  <2> QED
    BY <1>0, <1>1, <1>2, <2>2
<1>4. /\ active_index' \in 0..(Len(ws) - 1)
      /\ active_index = kInvalidIndex => active_index' = kInvalidIndex
      /\ (active_index # kInvalidIndex /\ active_index # r)
           => active_index' = IF active_index > r THEN active_index - 1
                                                  ELSE active_index
      /\ active_index' = kInvalidIndex
           => active_index = kInvalidIndex \/ Len(ws) = 1
  <2> DEFINE new == DetermineNewActiveIndex(ws, nav, active_index, {r})
  <2>1. /\ new \in 0..(Len(ws) - 1)
        /\ active_index = kInvalidIndex => new = kInvalidIndex
        /\ (active_index # kInvalidIndex /\ active_index # r)
             => new = IF active_index > r THEN active_index - 1
                                          ELSE active_index
        /\ new = kInvalidIndex => active_index = kInvalidIndex \/ Len(ws) = 1
    BY <1>0, NewActiveIndexRange
  <2> QED
    BY <1>1, <2>1
<1>5. /\ call \in Operations
      /\ call.step = "WebStateDetachedAt"
      /\ call.web_state = op.web_state
      /\ call.activate = (r = active_index)
  BY <1>0 DEF Operations, Steps
<1> HIDE DEF call
<1>6. OperationOK'
  BY <1>0, <1>1, <1>3, <1>5 DEF OperationOK, NotInList, InList
<1>7. r # active_index => GetActiveWebState' = GetActiveWebState
  <2> SUFFICES ASSUME r # active_index
               PROVE  GetActiveWebState' = GetActiveWebState
    OBVIOUS
  <2>1. CASE active_index = kInvalidIndex
    BY <1>4, <2>1 DEF GetActiveWebState, WebStateAtOrNull
  <2>2. CASE active_index # kInvalidIndex
    <3>1. /\ active_index' \in 1..(Len(ws) - 1)
          /\ active_index \in 1..Len(ws)
          /\ active_index' # kInvalidIndex
      BY <1>0, <1>4, <2>2 DEF kInvalidIndex
    <3>2. ws'[active_index'] = cleared[active_index]
      BY <1>0, <1>3, <1>4, <2>2, <3>1
    <3> QED
      BY <1>2, <2>2, <3>1, <3>2 DEF GetActiveWebState, WebStateAtOrNull
  <2> QED
    BY <2>1, <2>2
<1>10. SelectionIsRealized'
  <2>1. CASE r = active_index
    BY <1>1, <1>5, <2>1 DEF SelectionIsRealized
  <2>2. CASE r # active_index
    <3>1. GetActiveWebState \in realized \cup {NoWebState}
      BY <1>0 DEF IInv, SelectionIsRealized
    <3> QED
      BY <1>1, <1>7, <2>2, <3>1 DEF SelectionIsRealized
  <2> QED
    BY <2>1, <2>2
<1>8. /\ batch' \in {"none", "caller", "close_all"}
      /\ realized' \in SUBSET WebStates
      /\ nav' \in [WebStates -> NavigationIndexes]
  BY <1>1 DEF IInv, TypeOK
<1>9. active_index' \in 0..Len(ws')
  BY <1>3, <1>4
<1>11. IInv'
  BY <1>1, <1>3, <1>5, <1>6, <1>8, <1>9, <1>10, IInvFromParts
<1>12. InList(ws') = InList(ws) \ {op.web_state}
  <2>1. ASSUME NEW x \in InList(ws') PROVE x \in InList(ws) /\ x # op.web_state
    <3>1. PICK k \in 1..(Len(ws) - 1) : x = ws'[k].web_state
      BY <1>3, <2>1 DEF InList
    <3>2. PICK m \in 1..Len(ws) : ws'[k] = cleared[m]
      <4>1. k \in 1..Len(ws) /\ k + 1 \in 1..Len(ws)
        BY <1>0
      <4> QED
        BY <1>3, <4>1
    <3> QED
      BY <1>2, <1>3, <3>1, <3>2 DEF InList
  <2>2. ASSUME NEW x \in InList(ws), x # op.web_state PROVE x \in InList(ws')
    <3>1. PICK k \in 1..Len(ws) : x = ws[k].web_state /\ k # r
      BY <1>0, <2>2 DEF InList
    <3>2. PICK m \in 1..(Len(ws) - 1) : ws'[m] = cleared[k]
      <4>1. CASE k < r
        <5>1. k \in 1..(Len(ws) - 1)
          BY <1>0, <4>1
        <5> QED
          BY <1>3, <4>1, <5>1
      <4>2. CASE k > r
        <5>1. k - 1 \in 1..(Len(ws) - 1) /\ ~(k - 1 < r) /\ (k - 1) + 1 = k
          BY <1>0, <4>2
        <5> QED
          BY <1>3, <5>1
      <4> QED
        BY <1>0, <3>1, <4>1, <4>2
    <3> QED
      BY <1>2, <1>3, <3>1, <3>2 DEF InList
  <2> QED
    BY <2>1, <2>2
<1>13. r = active_index <=> GetActiveWebState = op.web_state
  BY <1>0, NoWebStateAssumption
     DEF GetActiveWebState, WebStateAtOrNull, kInvalidIndex, WellFormed,
         DistinctWebStates
<1>14. \/ GetActiveWebState' # NoWebState
       \/ GetActiveWebState = NoWebState
       \/ Len(ws') = 0
  <2>1. CASE active_index' = kInvalidIndex
    BY <1>0, <1>3, <1>4, <2>1 DEF GetActiveWebState, WebStateAtOrNull
  <2>2. CASE active_index' # kInvalidIndex
    <3>1. ws'[active_index'] \in Wrappers
      BY <1>3, <1>9, <2>2, ElementOfSeq DEF WellFormed, kInvalidIndex
    <3> QED
      BY <2>2, <3>1, NoWebStateAssumption
         DEF GetActiveWebState, WebStateAtOrNull, Wrappers
  <2> QED
    BY <2>1, <2>2
<1>15. op.web_state \in InList(ws)
  BY <1>0 DEF InList
<1> QED
  BY <1>0, <1>1, <1>5, <1>7, <1>11, <1>12, <1>13, <1>14, <1>15 DEF TellsDetached

\* A step that tells the observers that a WebState that has left the list is
\* no longer the active one.
LEMMA DepartureNotified ==
  ASSUME IInv, NEW old \in NotInList, NEW close \in BOOLEAN,
         NEW after, after \in Operations,
         op.step \in {"WebStateReplacedAt", "WebStateDetachedAt"},
         NotifyIfActiveWebStateChanged(web_state_wrappers, old, active_index,
                                       close, after),
         UNCHANGED <<web_state_wrappers, active_index, batch, nav>>
  PROVE  IInv' /\ TellsActivated
<1> DEFINE new == WebStateAtOrNull(web_state_wrappers, active_index)
<1>0. /\ WellFormed(web_state_wrappers)
      /\ Len(web_state_wrappers) \in Nat
      /\ active_index \in 0..Len(web_state_wrappers)
      /\ realized \in SUBSET WebStates
      /\ old \in WebStates
  BY IInvFacts DEF IInv, TypeOK, NotInList
<1>1. old # new
  BY <1>0, NoWebStateAssumption
     DEF WebStateAtOrNull, NotInList, InList, kInvalidIndex
<1>2. /\ op' \in Operations
      /\ realized' \in SUBSET WebStates
      /\ op'.step = "WebStateActivatedAt"
      /\ realized \subseteq realized'
      /\ op'.old_web_state = old
      /\ op'.web_state = new
      /\ new \in realized' \cup {NoWebState}
  BY <1>0, <1>1, NotifyRealizes
<1>3. OperationOK'
  BY <1>2 DEF OperationOK, NotInList
<1>4. batch' \in {"none", "caller", "close_all"}
  BY DEF IInv, TypeOK
<1>5. IInv'
  BY <1>2, <1>3, <1>4, CallPreserves DEF GetActiveWebState
<1>6. GetActiveWebState' = GetActiveWebState /\ GetActiveWebState = new
  BY DEF GetActiveWebState
<1> QED
  BY <1>2, <1>5, <1>6 DEF TellsActivated, SameTabs

\* ReplaceWebStateAt after its observers: the new tab is realized if active.
LEMMA AfterReplacedPreserves ==
  ASSUME IInv, AfterWebStateReplacedAt
  PROVE  IInv' /\ TellsActivated
<1>1. /\ op.step = "WebStateReplacedAt"
      /\ op.old_web_state \in NotInList
      /\ NotifyIfActiveWebStateChanged(web_state_wrappers, op.old_web_state,
                                       active_index, FALSE, Idle)
      /\ UNCHANGED <<web_state_wrappers, active_index, batch, nav>>
  BY DEF AfterWebStateReplacedAt, IInv, OperationOK
<1> QED
  BY <1>1, IdleType, DepartureNotified, FALSE \in BOOLEAN

\* DetachWebStateAtImpl after WebStateDetachedAt.
LEMMA AfterDetachedPreserves ==
  ASSUME IInv, AfterWebStateDetachedAt
  PROVE  IInv' /\ (TellsActivated \/ KeepsTabs)
<1> DEFINE done == IF op.close THEN WillClose(op.web_state) ELSE Idle
<1>0. /\ op.step = "WebStateDetachedAt"
      /\ op.web_state \in NotInList
      /\ op.web_state \in WebStates
      /\ op.close \in BOOLEAN
      /\ op.activate \in BOOLEAN
  BY IInvFacts
     DEF AfterWebStateDetachedAt, IInv, OperationOK, NotInList, Operations
<1>1. /\ done \in Operations
      /\ \/ done.step = "Idle"
         \/ done.step = "WillCloseWebStateAt" /\ done.web_state = op.web_state
  BY <1>0, IdleType, WillCloseType DEF Idle
<1>2. CASE op.activate
  <2>1. /\ NotifyIfActiveWebStateChanged(web_state_wrappers, op.web_state,
                                         active_index, op.close, done)
        /\ UNCHANGED <<web_state_wrappers, active_index, batch, nav>>
    BY <1>2 DEF AfterWebStateDetachedAt
  <2> HIDE DEF done
  <2> QED
    BY <1>0, <1>1, <2>1, DepartureNotified
<1>3. CASE ~op.activate
  <2>1. /\ op' = done
        /\ UNCHANGED <<web_state_wrappers, active_index, batch, realized, nav>>
    BY <1>3 DEF AfterWebStateDetachedAt
  <2> HIDE DEF done
  <2>2. OperationOK'
    BY <1>0, <1>1, <2>1 DEF OperationOK, NotInList
  <2>3. /\ GetActiveWebState \in realized' \cup {NoWebState}
        /\ batch' \in {"none", "caller", "close_all"}
        /\ realized' \in SUBSET WebStates
    BY <1>0, <1>3, <2>1 DEF IInv, TypeOK, SelectionIsRealized
  <2>4. IInv'
    BY <1>1, <2>1, <2>2, <2>3, CallPreserves
  <2> QED
    BY <1>0, <1>1, <1>3, <2>1, <2>4 DEF KeepsTabs, SameTabs, GetActiveWebState
<1> QED
  BY <1>0, <1>2, <1>3

\* The return of the observers of WebStateActivatedAt.
LEMMA AfterActivatedPreserves ==
  ASSUME IInv, AfterWebStateActivatedAt
  PROVE  IInv' /\ KeepsTabs
<1>1. /\ op.step = "WebStateActivatedAt"
      /\ \/ op.close /\ op' = WillClose(op.old_web_state)
         \/ op' = CloseNextOrEndBatch
         \/ op' = Idle
      /\ UNCHANGED <<web_state_wrappers, active_index, batch, realized, nav>>
  BY DEF AfterWebStateActivatedAt
<1>2. op.close => op.old_web_state \in NotInList
  BY <1>1 DEF IInv, OperationOK
<1>5. op'.step \in {"Idle", "BatchOperationEnded", "WillDetachWebStateAt",
                    "WillCloseWebStateAt"}
  BY <1>1, <1>2, WillCloseType, CloseNextType DEF Idle, NotInList
<1>3. OperationOK' /\ op' \in Operations
  <2>1. CASE op.close /\ op' = WillClose(op.old_web_state)
    BY <1>1, <1>2, <2>1, WillCloseType DEF OperationOK, NotInList
  <2>2. CASE op' = CloseNextOrEndBatch
    BY <1>1, <2>2, CloseNextType DEF OperationOK, Indexes
  <2>3. CASE op' = Idle
    BY <2>3, IdleType DEF OperationOK, Idle
  <2> QED
    BY <1>1, <2>1, <2>2, <2>3
<1>4. /\ GetActiveWebState \in realized' \cup {NoWebState}
      /\ batch' \in {"none", "caller", "close_all"}
      /\ realized' \in SUBSET WebStates
  BY <1>1 DEF IInv, TypeOK, SelectionIsRealized
<1>6. KeepsTabs
  BY <1>1, <1>5 DEF KeepsTabs, SameTabs, GetActiveWebState
<1> QED
  BY <1>1, <1>3, <1>4, <1>6, CallPreserves

\* AfterWillCloseWebStateAt: the destroyed WebState is not the active one.
LEMMA AfterWillClosePreserves ==
  ASSUME IInv, AfterWillCloseWebStateAt
  PROVE  IInv' /\ KeepsTabs
<1>1. /\ op.step = "WillCloseWebStateAt"
      /\ op' = CloseNextOrEndBatch \/ op' = Idle
      /\ realized' = realized \ {op.web_state}
      /\ nav' = [nav EXCEPT ![op.web_state] = -1]
      /\ UNCHANGED <<web_state_wrappers, active_index, batch>>
  BY DEF AfterWillCloseWebStateAt
<1>2. op.web_state \in NotInList
  BY <1>1 DEF IInv, OperationOK
<1>3. OperationOK' /\ op' \in Operations
  <2>1. CASE op' = CloseNextOrEndBatch
    BY <1>1, <2>1, CloseNextType DEF OperationOK, Indexes
  <2>2. CASE op' = Idle
    BY <2>2, IdleType DEF OperationOK, Idle
  <2> QED
    BY <1>1, <2>1, <2>2
<1>4. SelectionIsRealized'
  <2>1. GetActiveWebState \in realized \cup {NoWebState}
    BY <1>1 DEF IInv, SelectionIsRealized
  <2>2. GetActiveWebState # op.web_state
    BY <1>2, IInvFacts, NoWebStateAssumption
       DEF GetActiveWebState, WebStateAtOrNull, NotInList, InList,
           kInvalidIndex
  <2>3. GetActiveWebState' = GetActiveWebState
    BY <1>1 DEF GetActiveWebState
  <2> QED
    BY <1>1, <2>1, <2>2, <2>3 DEF SelectionIsRealized
<1>5. nav' \in [WebStates -> NavigationIndexes]
  <2>1. -1 \in NavigationIndexes
    BY MaxNavigationIndexAssumption DEF NavigationIndexes
  <2>2. nav \in [WebStates -> NavigationIndexes]
    BY DEF IInv, TypeOK
  <2> QED
    BY <1>1, <2>1, <2>2
<1>6. /\ batch' \in {"none", "caller", "close_all"}
      /\ realized' \in SUBSET WebStates
  BY <1>1 DEF IInv, TypeOK
<1>7. WellFormed(web_state_wrappers')
  BY <1>1, IInvFacts
<1>8. active_index' \in 0..Len(web_state_wrappers')
  BY <1>1, IInvFacts
<1>9. IInv'
  BY <1>3, <1>4, <1>5, <1>6, <1>7, <1>8, IInvFromParts
<1>10. op'.step \in {"Idle", "BatchOperationEnded", "WillDetachWebStateAt"}
  BY <1>1, CloseNextType DEF Idle
<1> QED
  BY <1>1, <1>9, <1>10 DEF KeepsTabs, SameTabs, GetActiveWebState

\* The steps that only release the lock.
LEMMA ReturnPreserves ==
  ASSUME IInv, AfterBatchOperationEnded \/ AfterWebStateMoved
  PROVE  IInv' /\ KeepsTabs
<1>1. /\ op.step \in {"BatchOperationEnded", "WebStateMoved"}
      /\ op' = Idle
      /\ batch' \in {"none", batch}
      /\ UNCHANGED <<web_state_wrappers, active_index, realized, nav>>
  BY DEF AfterBatchOperationEnded, AfterWebStateMoved
<1>2. OperationOK' /\ op' \in Operations
  BY <1>1, IdleType DEF OperationOK, Idle
<1>3. /\ GetActiveWebState \in realized' \cup {NoWebState}
      /\ batch' \in {"none", "caller", "close_all"}
      /\ realized' \in SUBSET WebStates
  BY <1>1 DEF IInv, TypeOK, SelectionIsRealized
<1>4. KeepsTabs
  BY <1>1 DEF KeepsTabs, SameTabs, GetActiveWebState, Idle
<1> QED
  BY <1>1, <1>2, <1>3, <1>4, CallPreserves

\* Realizing a tab or navigating in it does not touch the list.
LEMMA EnvironmentPreserves ==
  ASSUME IInv, Environment
  PROVE  IInv'
<1>1. /\ UNCHANGED listVars
      /\ realized \subseteq realized'
      /\ realized' \in SUBSET WebStates
      /\ nav' \in [WebStates -> NavigationIndexes]
  <2>1. ASSUME NEW w \in WebStates, ForceRealized(w)
        PROVE  <1>1!1 /\ <1>1!2 /\ <1>1!3 /\ <1>1!4
    BY <2>1 DEF ForceRealized, IInv, TypeOK, listVars
  <2>2. ASSUME NEW w \in WebStates, NEW n \in NavigationIndexes,
               Navigate(w, n)
        PROVE  <1>1!1 /\ <1>1!2 /\ <1>1!3 /\ <1>1!4
    BY <2>2 DEF Navigate, IInv, TypeOK, listVars
  <2> QED
    BY <2>1, <2>2 DEF Environment
<1>2. OperationOK'
  BY <1>1 DEF IInv, OperationOK, Indexes, NotInList, listVars
<1>3. SelectionIsRealized'
  BY <1>1 DEF IInv, SelectionIsRealized, GetActiveWebState, listVars
<1> QED
  BY <1>1, <1>2, <1>3 DEF IInv, TypeOK, NoDuplicate, NoDanglingOpener,
                          ActiveIndexIsValid, listVars

ListEffect ==
  \/ TellsInserted
  \/ TellsReplaced
  \/ TellsDetached
  \/ TellsActivated
  \/ KeepsTabs

\* Every step of the list preserves the invariant and is one of the five
\* kinds: one case per action.
LEMMA ListStepPreserves ==
  ASSUME IInv, Mutate \/ Continue
  PROVE  IInv' /\ ListEffect
<1>1. CASE Insert
  <2>1. PICK w \in NotInList, activating \in BOOLEAN, opener \in NameableOpeners :
          \/ \E i \in 1..(Len(web_state_wrappers) + 1) :
               InsertWebState(w, activating, TRUE, i, FALSE, opener)
          \/ InsertWebState(w, activating, FALSE, kInvalidIndex, FALSE, opener)
    BY <1>1 DEF Insert
  <2>2. /\ opener \in Openers
        /\ opener.opener \in InList(web_state_wrappers) \cup {NoWebState}
    <3>1. CASE opener = NullOpener
      BY <3>1, NullOpenerType DEF NullOpener, WebStateOpener
    <3>2. CASE opener # NullOpener
      <4>1. PICK o \in realized \cap InList(web_state_wrappers) :
              opener = OpenerFromWebState(nav, o)
        BY <3>2 DEF NameableOpeners
      <4>2. /\ o \in WebStates
            /\ o # NoWebState
            /\ nav[o] \in NavigationIndexes
        BY NoWebStateAssumption DEF IInv, TypeOK
      <4>3. opener = [opener |-> o, navigation_index |-> nav[o]]
        BY <4>1, <4>2 DEF OpenerFromWebState, WebStateOpener
      <4> QED
        BY <4>2, <4>3 DEF Openers
    <3> QED
      BY <3>1, <3>2
  <2>3. ASSUME NEW i \in 1..(Len(web_state_wrappers) + 1),
               InsertWebState(w, activating, TRUE, i, FALSE, opener)
        PROVE  IInv' /\ TellsInserted
    BY <2>2, <2>3, InsertPreserves, TRUE \in BOOLEAN, FALSE \in BOOLEAN
  <2>4. ASSUME InsertWebState(w, activating, FALSE, kInvalidIndex, FALSE, opener)
        PROVE  IInv' /\ TellsInserted
    BY <2>2, <2>4, InsertPreserves, FALSE \in BOOLEAN
  <2> QED
    BY <2>1, <2>3, <2>4 DEF ListEffect
<1>2. CASE InsertInheritingOpener
  <2>1. PICK w \in NotInList, activating \in BOOLEAN :
          \/ \E i \in 1..(Len(web_state_wrappers) + 1) :
               InsertWebState(w, activating, TRUE, i, TRUE, NullOpener)
          \/ InsertWebState(w, activating, FALSE, kInvalidIndex, TRUE, NullOpener)
    BY <1>2 DEF InsertInheritingOpener
  <2>2. /\ NullOpener \in Openers
        /\ NullOpener.opener \in InList(web_state_wrappers) \cup {NoWebState}
    BY NullOpenerType DEF NullOpener, WebStateOpener
  <2>3. ASSUME NEW i \in 1..(Len(web_state_wrappers) + 1),
               InsertWebState(w, activating, TRUE, i, TRUE, NullOpener)
        PROVE  IInv' /\ TellsInserted
    BY <2>2, <2>3, InsertPreserves, TRUE \in BOOLEAN
  <2>4. ASSUME InsertWebState(w, activating, FALSE, kInvalidIndex, TRUE,
                              NullOpener)
        PROVE  IInv' /\ TellsInserted
    BY <2>2, <2>4, InsertPreserves, TRUE \in BOOLEAN, FALSE \in BOOLEAN
  <2> QED
    BY <2>1, <2>3, <2>4 DEF ListEffect
<1>3. CASE \E from, to \in Indexes : MoveWebStateAt(from, to)
  BY <1>3, MovePreserves DEF ListEffect
<1>4. CASE \E i \in Indexes, w \in NotInList : ReplaceWebStateAt(i, w)
  BY <1>4, ReplacePreserves DEF ListEffect
<1>5. CASE \E i \in Indexes : DetachWebStateAt(i) \/ CloseWebStateAt(i)
  BY <1>5, DetachPreserves DEF ListEffect
<1>6. CASE CloseAllWebStates \/ WillBeginBatchOperation \/ BatchOperationEnded
  BY <1>6, BatchPreserves DEF ListEffect
<1>7. CASE \E i \in Indexes : ActivateWebStateAt(i)
  BY <1>7, ActivatePreserves DEF ListEffect
<1>8. CASE RestoreOpener
  BY <1>8, RestoreOpenerPreserves DEF ListEffect
<1>9. CASE Continue
  BY <1>9, AfterInsertedPreserves, AfterReplacedPreserves,
     AfterWillDetachPreserves, AfterDetachedPreserves,
     AfterActivatedPreserves, AfterWillClosePreserves,
     AfterBeginBatchPreserves, ReturnPreserves
     DEF Continue, ListEffect
<1> QED
  BY <1>1, <1>2, <1>3, <1>4, <1>5, <1>6, <1>7, <1>8, <1>9 DEF Mutate

\* Every step preserves the invariant.
LEMMA NextPreserves ==
  ASSUME IInv, [Next]_vars
  PROVE  IInv'
<1>1. CASE UNCHANGED vars
  BY <1>1 DEF vars, IInv, TypeOK, NoDuplicate, NoDanglingOpener,
              ActiveIndexIsValid, OperationOK, SelectionIsRealized,
              GetActiveWebState, Indexes, NotInList
<1> QED
  BY <1>1, ListStepPreserves, EnvironmentPreserves DEF Next

----------------------------------------------------------------------------
(* The theorems.                                                           *)

\* Every reachable state satisfies the inductive invariant.
THEOREM Inductive == Spec => []IInv
<1>1. Init => IInv
  BY InitIInv
<1>2. IInv /\ [Next]_vars => IInv'
  BY NextPreserves
<1> QED
  BY <1>1, <1>2, PTL DEF Spec

\* The variables keep their types, for any number of tabs.
THEOREM TypeCorrect == Spec => []TypeOK
<1>1. IInv => TypeOK
  BY DEF IInv
<1> QED
  BY <1>1, Inductive, PTL

\* No observer of the list ever sees an opener that is not in the list:
\* ClearOpenersReferencing, called before a WebState is replaced or erased,
\* is enough to keep the raw opener pointers from dangling.
THEOREM OpenersNeverDangle == Spec => []NoDanglingOpener
<1>1. IInv => NoDanglingOpener
  BY DEF IInv
<1> QED
  BY <1>1, Inductive, PTL

\* No WebState is in the list twice.
THEOREM OwnedOnce == Spec => []NoDuplicate
<1>1. IInv => NoDuplicate
  BY DEF IInv
<1> QED
  BY <1>1, Inductive, PTL

\* The active index is kInvalidIndex or a position of the list in every
\* state, those in the middle of a mutation included.
THEOREM ActiveIndexAlwaysValid == Spec => []ActiveIndexIsValid
<1>1. IInv => ActiveIndexIsValid
  BY DEF IInv
<1> QED
  BY <1>1, Inductive, PTL

\* Whenever no method of the list is running the active WebState is realized.
THEOREM ActiveAlwaysRealized == Spec => []ActiveWebStateIsRealized
<1>1. IInv => ActiveWebStateIsRealized
  BY DEF IInv, SelectionIsRealized, ActiveWebStateIsRealized, IsMutating
<1> QED
  BY <1>1, Inductive, PTL

----------------------------------------------------------------------------
(* What a step may never do.                                               *)

\* What a step of the list, of its environment, or no step at all does.
LEMMA StepKinds ==
  ASSUME IInv, [Next]_vars
  PROVE  /\ IInv'
         /\ \/ (Mutate \/ Continue) /\ ListEffect
            \/ UNCHANGED listVars /\ GetActiveWebState' = GetActiveWebState
<1>1. CASE UNCHANGED vars
  BY <1>1, NextPreserves DEF vars, listVars, GetActiveWebState
<1>2. CASE Environment
  <2>1. UNCHANGED listVars
    BY <1>2 DEF Environment, ForceRealized, Navigate, listVars
  <2> QED
    BY <2>1, NextPreserves DEF listVars, GetActiveWebState
<1> QED
  BY <1>1, <1>2, ListStepPreserves DEF Next

\* The active WebState is null exactly when there is no active index.
LEMMA ActiveOrNull ==
  ASSUME IInv
  PROVE  /\ GetActiveWebState = NoWebState <=> active_index = kInvalidIndex
         /\ GetActiveWebState \in InList(web_state_wrappers) \cup {NoWebState}
<1>1. CASE active_index = kInvalidIndex
  BY <1>1 DEF GetActiveWebState, WebStateAtOrNull
<1>2. CASE active_index # kInvalidIndex
  <2>1. active_index \in Indexes /\ web_state_wrappers[active_index] \in Wrappers
    BY <1>2, IInvFacts DEF Indexes, kInvalidIndex
  <2> QED
    BY <1>2, <2>1, NoWebStateAssumption
       DEF GetActiveWebState, WebStateAtOrNull, Wrappers, InList, Indexes
<1> QED
  BY <1>1, <1>2

\* The active WebState changes only with a call that says so, for any list and
\* any order of the methods: the index arithmetic of InsertWebStateImpl,
\* MoveWebStateAtImpl and DetermineNewActiveIndex keeps it on the same tab.
THEOREM ActiveNeverChangesSilently == Spec => ActiveChangesOnlyWhenTold
<1>1. ASSUME IInv, [Next]_vars, GetActiveWebState' # GetActiveWebState
      PROVE  \/ /\ op'.step = "WebStateActivatedAt"
                /\ op'.old_web_state = GetActiveWebState
                /\ op'.web_state = GetActiveWebState'
             \/ /\ op'.step = "WebStateDetachedAt"
                /\ op'.web_state = GetActiveWebState
                /\ op'.activate
             \/ /\ op'.step = "WebStateReplacedAt"
                /\ op'.old_web_state = GetActiveWebState
  <2>1. ListEffect
    BY <1>1, StepKinds
  <2>2. ~TellsInserted /\ ~KeepsTabs
    BY <1>1 DEF TellsInserted, KeepsTabs
  <2>3. CASE TellsReplaced
    BY <1>1, <2>3 DEF TellsReplaced
  <2>4. CASE TellsDetached
    BY <1>1, <2>4 DEF TellsDetached
  <2>5. CASE TellsActivated
    BY <1>1, <2>5 DEF TellsActivated
  <2> QED
    BY <2>1, <2>2, <2>3, <2>4, <2>5 DEF ListEffect
<1> QED
  BY <1>1, Inductive, PTL DEF Spec, ActiveChangesOnlyWhenTold

\* Only CloseAllWebStates runs inside its own batch, and it ends the batch
\* with an empty list.
BatchOK ==
  /\ op.step = "WillBeginBatchOperation" => batch = "close_all"
  /\ op.step = "BatchOperationEnded" => web_state_wrappers = <<>>

\* The batch of CloseAllWebStates is kept by every step.
LEMMA BatchStep ==
  ASSUME IInv, BatchOK, [Next]_vars
  PROVE  BatchOK'
<1> USE DEF kInvalidIndex
<1>1. CASE UNCHANGED listVars
  BY <1>1 DEF BatchOK, listVars
<1>2. CASE op'.step \notin {"WillBeginBatchOperation", "BatchOperationEnded"}
  BY <1>2 DEF BatchOK
<1>3. CASE CloseAllWebStates
  BY <1>3 DEF CloseAllWebStates, BatchOK, Idle
<1>4. CASE op' = CloseNextOrEndBatch /\ Len(web_state_wrappers') = Len(web_state_wrappers)
  <2>1. CASE Len(web_state_wrappers) = 0
    <3>1. op'.step = "BatchOperationEnded"
      BY <1>4, <2>1 DEF CloseNextOrEndBatch, Idle
    <3>2. web_state_wrappers' \in Seq(Wrappers)
      BY NextPreserves DEF IInv, TypeOK
    <3>3. web_state_wrappers' = <<>>
      BY <1>4, <2>1, <3>2, EmptySeq
    <3> QED
      BY <3>1, <3>3 DEF BatchOK
  <2>2. CASE Len(web_state_wrappers) # 0
    <3>1. op'.step = "WillDetachWebStateAt"
      BY <1>4, <2>2 DEF CloseNextOrEndBatch, WillDetach, Idle
    <3> QED
      BY <3>1 DEF BatchOK
  <2> QED
    BY <2>1, <2>2
<1>5. ASSUME NEW ws, NEW old, NEW i, NEW close, NEW after,
             NotifyIfActiveWebStateChanged(ws, old, i, close, after)
      PROVE  op' = after \/ op'.step = "WebStateActivatedAt"
  BY <1>5 DEF NotifyIfActiveWebStateChanged, Idle
<1>6. CASE Mutate
  <2>1. CASE Insert \/ InsertInheritingOpener
    <3>0. ASSUME NEW w, NEW a, NEW force, NEW i, NEW inherit, NEW o,
                 InsertWebState(w, a, force, i, inherit, o)
          PROVE  op'.step = "WebStateInsertedAt"
      BY <3>0 DEF InsertWebState, Idle
    <3>1. op'.step = "WebStateInsertedAt"
      BY <2>1, <3>0 DEF Insert, InsertInheritingOpener
    <3> QED
      BY <1>2, <3>1
  <2>2. CASE \E from, to \in Indexes : MoveWebStateAt(from, to)
    <3>1. op'.step = "WebStateMoved"
      BY <2>2 DEF MoveWebStateAt, Idle
    <3> QED
      BY <1>2, <3>1
  <2>3. CASE \E i \in Indexes, w \in NotInList : ReplaceWebStateAt(i, w)
    <3>1. op'.step = "WebStateReplacedAt"
      BY <2>3 DEF ReplaceWebStateAt, Idle
    <3> QED
      BY <1>2, <3>1
  <2>4. CASE \E i \in Indexes : DetachWebStateAt(i) \/ CloseWebStateAt(i)
    <3>1. op'.step = "WillDetachWebStateAt"
      BY <2>4 DEF DetachWebStateAt, CloseWebStateAt, WillDetach, Idle
    <3> QED
      BY <1>2, <3>1
  <2>5. CASE \E i \in Indexes : ActivateWebStateAt(i)
    <3>1. op' = Idle \/ op'.step = "WebStateActivatedAt"
      BY <1>5, <2>5 DEF ActivateWebStateAt, ActivateWebStateAtImpl
    <3> QED
      BY <1>2, <3>1 DEF Idle
  <2>6. CASE RestoreOpener \/ WillBeginBatchOperation \/ BatchOperationEnded
    <3>1. op'.step = "Idle"
      BY <2>6 DEF RestoreOpener, SetOpenerOfWebStateAt, WillBeginBatchOperation,
                  BatchOperationEnded, IsMutating
    <3> QED
      BY <1>2, <3>1
  <2> QED
    BY <1>3, <1>6, <2>1, <2>2, <2>3, <2>4, <2>5, <2>6 DEF Mutate
<1>7. CASE Continue
  <2>1. CASE AfterWebStateInsertedAt
    <3>1. op' = Idle \/ op'.step = "WebStateActivatedAt"
      BY <1>5, <2>1 DEF AfterWebStateInsertedAt, ActivateWebStateAtImpl
    <3> QED
      BY <1>2, <3>1 DEF Idle
  <2>2. CASE AfterWebStateReplacedAt
    <3>1. op' = Idle \/ op'.step = "WebStateActivatedAt"
      BY <1>5, <2>2 DEF AfterWebStateReplacedAt
    <3> QED
      BY <1>2, <3>1 DEF Idle
  <2>3. CASE AfterWillDetachWebStateAt
    <3>1. op'.step = "WebStateDetachedAt"
      BY <2>3 DEF AfterWillDetachWebStateAt, IInv, TypeOK, Operations
    <3> QED
      BY <1>2, <3>1
  <2>4. CASE AfterWebStateDetachedAt
    <3>1. \/ op' = Idle \/ op' = WillClose(op.web_state)
          \/ op'.step = "WebStateActivatedAt"
      BY <1>5, <2>4 DEF AfterWebStateDetachedAt
    <3>2. WillClose(op.web_state).step = "WillCloseWebStateAt"
      BY DEF WillClose, Idle
    <3>3. Idle.step = "Idle"
      BY DEF Idle
    <3> QED
      BY <1>2, <3>1, <3>2, <3>3
  <2>5. CASE AfterWebStateActivatedAt \/ AfterWillCloseWebStateAt
    <3>1. /\ web_state_wrappers' = web_state_wrappers
          /\ \/ op' = CloseNextOrEndBatch \/ op' = Idle
             \/ op' = WillClose(op.old_web_state)
      BY <2>5 DEF AfterWebStateActivatedAt, AfterWillCloseWebStateAt
    <3>2. WillClose(op.old_web_state).step = "WillCloseWebStateAt"
      BY DEF WillClose, Idle
    <3>3. Idle.step = "Idle"
      BY DEF Idle
    <3> QED
      BY <1>2, <1>4, <3>1, <3>2, <3>3
  <2>6. CASE AfterWillBeginBatchOperation
    <3>1. op' = CloseNextOrEndBatch \/ op'.step = "WebStateActivatedAt"
      BY <1>5, <2>6 DEF AfterWillBeginBatchOperation, ActivateWebStateAtImpl
    <3>2. Len(web_state_wrappers') = Len(web_state_wrappers)
      BY <2>6 DEF AfterWillBeginBatchOperation, ActivateWebStateAtImpl,
                  ResetOpenerOnActiveWebStateChange, IInv, TypeOK
    <3> QED
      BY <1>2, <1>4, <3>1, <3>2
  <2>7. CASE AfterBatchOperationEnded \/ AfterWebStateMoved
    <3>1. op' = Idle
      BY <2>7 DEF AfterBatchOperationEnded, AfterWebStateMoved
    <3> QED
      BY <1>2, <3>1 DEF Idle
  <2> QED
    BY <1>7, <2>1, <2>2, <2>3, <2>4, <2>5, <2>6, <2>7 DEF Continue
<1> QED
  BY <1>1, <1>6, <1>7, StepKinds

\* The invariant that the two theorems below rest on.
LEMMA BatchInvariant == Spec => [](IInv /\ BatchOK)
<1>1. Init => IInv /\ BatchOK
  BY InitIInv DEF Init, BatchOK, Idle
<1>2. IInv /\ BatchOK /\ [Next]_vars => (IInv /\ BatchOK)'
  BY NextPreserves, BatchStep
<1> QED
  BY <1>1, <1>2, PTL DEF Spec

\* A window that shows a tab goes on showing one until its list is empty,
\* however tabs are closed, replaced or moved: only CloseAllWebStates
\* deselects first.
THEOREM SelectionIsNeverLost == Spec => SelectionSurvivesUntilEmpty
<1>1. ASSUME IInv, BatchOK, [Next]_vars,
             active_index # kInvalidIndex, active_index' = kInvalidIndex
      PROVE  Len(web_state_wrappers') = 0 \/ batch = "close_all"
  <2>1. GetActiveWebState # NoWebState
    BY <1>1, ActiveOrNull
  <2>2. GetActiveWebState' = NoWebState
    BY <1>1 DEF GetActiveWebState, WebStateAtOrNull
  <2>3. ListEffect
    BY <1>1, <2>1, <2>2, StepKinds
  <2>4. ~TellsInserted /\ ~KeepsTabs
    BY <2>1, <2>2 DEF TellsInserted, KeepsTabs
  <2>5. CASE TellsReplaced
    BY <2>1, <2>2, <2>5, NoWebStateAssumption DEF TellsReplaced, NotInList
  <2>6. CASE TellsDetached
    BY <2>1, <2>2, <2>6 DEF TellsDetached
  <2>7. CASE TellsActivated
    BY <1>1, <2>1, <2>2, <2>7 DEF TellsActivated, BatchOK
  <2> QED
    BY <2>3, <2>4, <2>5, <2>6, <2>7 DEF ListEffect
<1> QED
  BY <1>1, BatchInvariant, PTL DEF Spec, SelectionSurvivesUntilEmpty

\* CloseAllWebStates closes every tab before it ends its batch and releases
\* the lock, whatever its observers do in between, and nobody else ends it.
THEOREM CloseAllClosesEverything == Spec => CloseAllEmptiesList
<1>1. ASSUME IInv, BatchOK, [Next]_vars, batch = "close_all", batch' # batch
      PROVE  web_state_wrappers' = <<>> /\ ~IsMutating'
  <2>1. AfterBatchOperationEnded
    BY <1>1
       DEF Next, Mutate, Continue, Environment, vars, Insert,
           InsertInheritingOpener, InsertWebState, MoveWebStateAt,
           ReplaceWebStateAt, DetachWebStateAt, CloseWebStateAt,
           CloseAllWebStates, ActivateWebStateAt, RestoreOpener,
           SetOpenerOfWebStateAt, WillBeginBatchOperation,
           BatchOperationEnded, AfterWebStateInsertedAt, AfterWebStateMoved,
           AfterWebStateReplacedAt, AfterWillDetachWebStateAt,
           AfterWebStateDetachedAt, AfterWebStateActivatedAt,
           AfterWillCloseWebStateAt, AfterWillBeginBatchOperation,
           ForceRealized, Navigate
  <2> QED
    BY <1>1, <2>1 DEF AfterBatchOperationEnded, BatchOK, IsMutating, Idle
<1> QED
  BY <1>1, BatchInvariant, PTL DEF Spec, CloseAllEmptiesList

----------------------------------------------------------------------------
(* Where the selection goes when the active WebState is detached.          *)

Children(ws, r) ==
  {i \in 1..Len(ws) : ws[i].opener.opener = ws[r].web_state}

Siblings(ws, r) ==
  {i \in (1..Len(ws)) \ {r} : /\ ws[r].opener.opener # NoWebState
                              /\ ws[i].opener.opener = ws[r].opener.opener}

\* The place of position x once position r is erased.
Shifted(r, x) == IF x > r THEN x - 1 ELSE x

InFamily(ws, r, x) ==
  \/ x \in Children(ws, r)
  \/ Children(ws, r) = {} /\ x \in Siblings(ws, r)
  \/ /\ Children(ws, r) = {} /\ Siblings(ws, r) = {}
     /\ ws[r].opener.opener \in {NoWebState, ws[x].web_state}

\* The search for a child or a sibling finds one if there is one.
LEMMA FindIndexFinds ==
  ASSUME NEW ws, WellFormed(ws), NEW n, NEW r \in 1..Len(ws), NEW w
  PROVE  LET found   == FindIndexOfNextNonRemovedWebStateOpenedBy(
                          ws, n, {r}, w, r)
             staying == {i \in (1..Len(ws)) \ {r} : ws[i].opener.opener = w}
         IN  IF staying = {}
             THEN found = kInvalidIndex
             ELSE \E x \in staying :
                    found = Shifted(r, x) /\ found # kInvalidIndex
<1> DEFINE staying == OpenedBy(ws, n, w, FALSE) \ {r}
<1>0. Len(ws) \in Nat
  BY LenProperties DEF WellFormed
<1>1. /\ staying \in SUBSET (1..Len(ws)) /\ r \notin staying
      /\ staying = {i \in (1..Len(ws)) \ {r} : ws[i].opener.opener = w}
  BY DEF OpenedBy, WasOpenedBy
<1>2. CASE staying = {}
  BY <1>1, <1>2 DEF FindIndexOfNextNonRemovedWebStateOpenedBy
<1>3. CASE staying # {}
  <2> DEFINE f == FirstFrom(ws, r, staying)
  <2>1. FindIndexOfNextNonRemovedWebStateOpenedBy(ws, n, {r}, w, r)
          = IndexAfterRemoval({r}, f)
    BY <1>3 DEF FindIndexOfNextNonRemovedWebStateOpenedBy
  <2> HIDE DEF staying
  <2>2. f \in staying
    BY <1>0, <1>1, <1>3, FirstFromFound
  <2>3. f \in 1..Len(ws) /\ f # r
    BY <1>1, <2>2
  <2> HIDE DEF f
  <2>4. IndexAfterRemoval({r}, f) = Shifted(r, f)
    BY <1>0, <2>3, IndexAfterOneRemoval DEF Shifted
  <2>5. Shifted(r, f) # kInvalidIndex
    BY <1>0, <2>3 DEF Shifted, kInvalidIndex
  <2> QED
    BY <1>1, <1>3, <2>1, <2>2, <2>4, <2>5
<1> QED
  BY <1>2, <1>3

\* The new active position, for a list that does not become empty.
LEMMA NewActiveInFamily ==
  ASSUME NEW ws, WellFormed(ws), NEW n, NEW r \in 1..Len(ws), Len(ws) # 1
  PROVE  \E x \in (1..Len(ws)) \ {r} :
           /\ DetermineNewActiveIndex(ws, n, r, {r}) = Shifted(r, x)
           /\ InFamily(ws, r, x)
<1> DEFINE opener  == ws[r].opener.opener
           child   == FindIndexOfNextNonRemovedWebStateOpenedBy(
                        ws, n, {r}, ws[r].web_state, r)
           sibling == FindIndexOfNextNonRemovedWebStateOpenedBy(
                        ws, n, {r}, opener, r)
           p       == GetIndexOfWebState(ws, opener)
           parent  == IndexAfterRemoval({r}, p)
           c       == ClosestRemaining(ws, {r}, r)
           closest == IndexAfterRemoval({r}, c)
           new     == DetermineNewActiveIndex(ws, n, r, {r})
<1>a. Len(ws) \in Nat /\ Cardinality({r}) = 1
  BY LenProperties, FS_Singleton DEF WellFormed
<1>0. Len(ws) \in Nat /\ Cardinality({r}) = 1 /\ r # kInvalidIndex
  BY <1>a DEF kInvalidIndex
<1>1. new = IF child # kInvalidIndex THEN child
            ELSE IF opener # NoWebState /\ sibling # kInvalidIndex THEN sibling
            ELSE IF opener # NoWebState /\ parent # kInvalidIndex THEN parent
            ELSE closest
  BY <1>0 DEF DetermineNewActiveIndex
<1>2. Children(ws, r) = {i \in (1..Len(ws)) \ {r} :
                           ws[i].opener.opener = ws[r].web_state}
  <2>1. ws[r] \in Wrappers
    BY ElementOfSeq DEF WellFormed
  <2>2. ws[r].web_state # NoWebState
    BY <2>1, NoWebStateAssumption DEF Wrappers
  <2>3. ws[r].opener.opener # ws[r].web_state
    <3> SUFFICES ASSUME ws[r].opener.opener = ws[r].web_state PROVE FALSE
      OBVIOUS
    <3>1. PICK j \in 1..Len(ws) : j # r /\ ws[j].web_state = ws[r].web_state
      BY <2>2 DEF WellFormed, OpenersInList
    <3> QED
      BY <3>1 DEF WellFormed, DistinctWebStates
  <2> QED
    BY <2>3 DEF Children
<1>3. IF Children(ws, r) = {}
      THEN child = kInvalidIndex
      ELSE \E x \in Children(ws, r) :
             child = Shifted(r, x) /\ child # kInvalidIndex
  <2> DEFINE kids == {i \in (1..Len(ws)) \ {r} :
                        ws[i].opener.opener = ws[r].web_state}
  <2>1. IF kids = {} THEN child = kInvalidIndex
        ELSE \E x \in kids : child = Shifted(r, x) /\ child # kInvalidIndex
    BY FindIndexFinds
  <2> HIDE DEF kids, child
  <2>2. kids = Children(ws, r)
    BY <1>2 DEF kids
  <2> QED
    BY <2>1, <2>2
<1>4. opener # NoWebState =>
        IF Siblings(ws, r) = {}
        THEN sibling = kInvalidIndex
        ELSE \E x \in Siblings(ws, r) :
               sibling = Shifted(r, x) /\ sibling # kInvalidIndex
  <2> DEFINE kin == {i \in (1..Len(ws)) \ {r} : ws[i].opener.opener = opener}
  <2>1. IF kin = {} THEN sibling = kInvalidIndex
        ELSE \E x \in kin : sibling = Shifted(r, x) /\ sibling # kInvalidIndex
    BY FindIndexFinds
  <2> HIDE DEF sibling
  <2>2. opener # NoWebState => kin = Siblings(ws, r)
    BY DEF Siblings
  <2> HIDE DEF kin, opener
  <2> QED
    BY <2>1, <2>2
<1>5. opener # NoWebState =>
        /\ p \in (1..Len(ws)) \ {r} /\ ws[p].web_state = opener
        /\ parent = Shifted(r, p) /\ parent # kInvalidIndex
  <2> SUFFICES ASSUME opener # NoWebState
               PROVE  /\ p \in (1..Len(ws)) \ {r} /\ ws[p].web_state = opener
                      /\ parent = Shifted(r, p) /\ parent # kInvalidIndex
    OBVIOUS
  <2>1. PICK j \in 1..Len(ws) : j # r /\ ws[j].web_state = opener
    BY DEF WellFormed, OpenersInList
  <2>2. p \in 1..Len(ws) /\ ws[p].web_state = opener
    BY <2>1, GetIndexOfWebStateFound
  <2>3. p # r
    BY <2>1, <2>2 DEF WellFormed, DistinctWebStates
  <2> HIDE DEF p
  <2>4. parent = Shifted(r, p)
    BY <1>0, <2>2, <2>3, IndexAfterOneRemoval DEF Shifted
  <2> QED
    BY <1>0, <2>2, <2>3, <2>4 DEF Shifted, kInvalidIndex
<1>6. c \in (1..Len(ws)) \ {r} /\ closest = Shifted(r, c)
  <2>1. \E k \in 1..Len(ws) : k # r
    <3>1. CASE r = 1
      <4>1. Len(ws) \in Nat /\ Len(ws) >= 1 /\ Len(ws) # 1
        BY <1>a
      <4>2. 2 \in 1..Len(ws)
        BY <4>1
      <4>3. 2 # r
        BY <3>1
      <4> QED
        BY <4>2, <4>3
    <3>2. CASE r # 1
      <4>1. 1 \in 1..Len(ws) /\ 1 # r
        BY <1>a, <3>2
      <4> QED
        BY <4>1
    <3> QED
      BY <3>1, <3>2
  <2>2. c \in 1..Len(ws) /\ c # r
    BY <1>0, <2>1, ClosestRemainingFound
  <2> HIDE DEF c
  <2> QED
    BY <1>0, <2>2, IndexAfterOneRemoval DEF Shifted
<1> HIDE DEF child, sibling, parent, closest, p, c, new
<1>7. CASE Children(ws, r) # {}
  BY <1>1, <1>2, <1>3, <1>7 DEF InFamily, new
<1>8. CASE Children(ws, r) = {} /\ Siblings(ws, r) # {}
  <2>1. opener # NoWebState
    BY <1>8 DEF Siblings
  <2>2. PICK x \in Siblings(ws, r) : sibling = Shifted(r, x) /\ sibling # kInvalidIndex
    BY <1>4, <1>8, <2>1
  <2>3. x \in (1..Len(ws)) \ {r}
    BY DEF Siblings
  <2> QED
    BY <1>1, <1>3, <1>8, <2>1, <2>2, <2>3 DEF InFamily, new
<1>9. CASE Children(ws, r) = {} /\ Siblings(ws, r) = {} /\ opener # NoWebState
  BY <1>1, <1>3, <1>4, <1>5, <1>9 DEF InFamily, new
<1>10. CASE Children(ws, r) = {} /\ Siblings(ws, r) = {} /\ opener = NoWebState
  BY <1>1, <1>3, <1>6, <1>10 DEF InFamily, new
<1> QED
  BY <1>7, <1>8, <1>9, <1>10

\* When the active tab goes, the selection moves to one of its children if it
\* has any, else to a sibling, else to its opener, for any list and whatever
\* the openers are (DetermineNewActiveIndex reads them before they are
\* cleared).
THEOREM SelectionAlwaysInFamily == Spec => SelectionStaysInFamily
<1> DEFINE ws  == web_state_wrappers
           new == GetIndexOfWebState(ws, GetActiveWebState')
<1>1. ASSUME IInv, [Next]_vars, op.step = "WillDetachWebStateAt",
             op.index = active_index, ~(UNCHANGED web_state_wrappers)
      PROVE  \/ Children(ws, active_index) # {} /\ new \in Children(ws, active_index)
             \/ /\ Children(ws, active_index) = {}
                /\ Siblings(ws, active_index) # {}
                /\ new \in Siblings(ws, active_index)
             \/ /\ Children(ws, active_index) = {} /\ Siblings(ws, active_index) = {}
                /\ ws[active_index].opener.opener \in {NoWebState, GetActiveWebState'}
  <2>1. AfterWillDetachWebStateAt
    <3>1. ~(UNCHANGED vars) /\ ~Environment
      BY <1>1 DEF vars, Environment, ForceRealized, Navigate
    <3>2. ~Mutate
      BY <1>1 DEF Mutate, Insert, InsertInheritingOpener, InsertWebState,
           MoveWebStateAt, ReplaceWebStateAt, DetachWebStateAt,
           CloseWebStateAt, CloseAllWebStates, ActivateWebStateAt,
           RestoreOpener, SetOpenerOfWebStateAt, WillBeginBatchOperation,
           BatchOperationEnded, IsMutating
    <3> QED
      BY <1>1, <3>1, <3>2 DEF Next, Continue, AfterWebStateInsertedAt,
           AfterWebStateMoved, AfterWebStateReplacedAt,
           AfterWebStateDetachedAt, AfterWebStateActivatedAt,
           AfterWillCloseWebStateAt, AfterWillBeginBatchOperation,
           AfterBatchOperationEnded
  <2> DEFINE r == active_index
  <2>2. /\ WellFormed(ws) /\ Len(ws) \in Nat /\ r \in 1..Len(ws)
        /\ ws[r].web_state = op.web_state /\ op.web_state \in WebStates
    BY <1>1, IInvFacts DEF IInv, OperationOK, Indexes, Wrappers
  <2> DEFINE cleared == ClearOpenersReferencing(ws, op.web_state)
  <2>3. /\ active_index' = DetermineNewActiveIndex(ws, nav, r, {r})
        /\ ws' = RemoveAt(cleared, r)
    BY <1>1, <2>1 DEF AfterWillDetachWebStateAt
  <2>4. /\ WellFormed(cleared) /\ Len(cleared) = Len(ws)
        /\ \A j \in 1..Len(ws) : /\ cleared[j].web_state = ws[j].web_state
                                 /\ cleared[j].opener.opener # op.web_state
    BY <2>2, ClearOpeners, NoWebStateAssumption
  <2> HIDE DEF cleared
  <2>5. \A j \in 1..(Len(ws) - 1) :
          ws'[j] = IF j < r THEN cleared[j] ELSE cleared[j + 1]
    <3>1. cleared \in Seq(Wrappers) /\ r \in 1..Len(cleared)
      BY <2>2, <2>4 DEF WellFormed
    <3> QED
      BY <2>3, <2>4, <3>1, RemoveAtPositions
  <2>6. CASE Len(ws) = 1
    <3>1. r = 1 /\ \A j \in 1..Len(ws) : j = r
      BY <2>2, <2>6
    <3>2. ws[r].opener.opener = NoWebState
      BY <2>2, <3>1 DEF WellFormed, OpenersInList
    <3>3. Children(ws, r) = {} /\ Siblings(ws, r) = {}
      BY <2>2, <3>1, <3>2, NoWebStateAssumption DEF Children, Siblings
    <3> QED
      BY <3>2, <3>3
  <2>7. CASE Len(ws) # 1
    <3>1. PICK x \in (1..Len(ws)) \ {r} :
            /\ DetermineNewActiveIndex(ws, nav, r, {r}) = Shifted(r, x)
            /\ InFamily(ws, r, x)
      BY <2>2, <2>7, NewActiveInFamily
    <3>2. /\ active_index' \in 1..(Len(ws) - 1)
          /\ IF active_index' < r THEN active_index' = x ELSE active_index' + 1 = x
      BY <2>2, <2>3, <3>1 DEF Shifted
    <3>3. ws'[active_index'] = cleared[x]
      BY <2>5, <3>2
    <3>4. GetActiveWebState' = ws[x].web_state
      BY <2>2, <2>4, <3>2, <3>3 DEF GetActiveWebState, WebStateAtOrNull, kInvalidIndex
    <3>5. new = x
      <4>1. new \in 1..Len(ws) /\ ws[new].web_state = ws[x].web_state
        BY <3>4, GetIndexOfWebStateFound
      <4> HIDE DEF new
      <4> QED
        BY <2>2, <4>1 DEF WellFormed, DistinctWebStates
    <3> HIDE DEF new
    <3> QED
      BY <3>1, <3>4, <3>5 DEF InFamily
  <2> QED
    BY <2>6, <2>7
<1>2. ASSUME IInv, [Next]_vars
      PROVE  [(op.step = "WillDetachWebStateAt" /\ op.index = active_index) =>
                LET s        == web_state_wrappers
                    gone     == s[active_index]
                    children == {i \in Indexes : s[i].opener.opener = gone.web_state}
                    siblings == {i \in Indexes \ {active_index} :
                                   /\ gone.opener.opener # NoWebState
                                   /\ s[i].opener.opener = gone.opener.opener}
                    next     == GetIndexOfWebState(s, GetActiveWebState')
                IN  \/ UNCHANGED web_state_wrappers
                    \/ children # {} /\ next \in children
                    \/ children = {} /\ siblings # {} /\ next \in siblings
                    \/ /\ children = {} /\ siblings = {}
                       /\ gone.opener.opener \in {NoWebState, GetActiveWebState'}]_vars
  BY <1>1, <1>2 DEF Children, Siblings, Indexes
<1> QED
  BY <1>2, Inductive, PTL DEF Spec, SelectionStaysInFamily


----------------------------------------------------------------------------
(* The observers of the list.                                              *)

Names == {"all", "active", "usage", "deps"}

Tabs == InList(web_state_wrappers)

\* The WebState the current call brings into the list, and the one it takes
\* out of it.
Added == IF op.step \in {"WebStateInsertedAt", "WebStateReplacedAt"}
         THEN {op.web_state} ELSE {}
Removed == CASE op.step = "WebStateReplacedAt" -> {op.old_web_state}
             [] op.step = "WebStateDetachedAt" -> {op.web_state}
             [] OTHER -> {}

ToldAll(S) == (S \ Removed) \cup Added

\* An observer is told of the calls of one method only, and only if it is
\* attached.
PendingOK ==
  /\ pending \in Seq(Names)
  /\ ~IsMutating => pending = <<>>
  /\ \A o \in Names : Contains(pending, o) => Attached(o)

\* "all" observes the tabs of the list, or will once it is told.
AllOK ==
  IF Contains(pending, "all") THEN ToldAll(all_observed) = Tabs
  ELSE all_observed = IF Attached("all") THEN Tabs ELSE {}

\* "active" observes the active tab.  Between the call that announces that the
\* active WebState left and the one that announces the new one it still
\* observes the one that left.
ActiveOK ==
  IF ~Attached("active") THEN active_observed = NoWebState
  ELSE IF op.step = "WebStateActivatedAt"
  THEN Contains(pending, "active") \/ active_observed = GetActiveWebState
  ELSE IF op.step = "WebStateDetachedAt" /\ op.activate
  THEN active_observed = op.web_state
  ELSE IF op.step = "WebStateReplacedAt" /\ GetActiveWebState = op.web_state
  THEN active_observed = op.old_web_state
  ELSE active_observed = GetActiveWebState

\* What the running method announces is what the list now holds.
CallOK ==
  /\ op.step = "WebStateActivatedAt" => op.web_state = GetActiveWebState
  /\ Added \subseteq Tabs /\ Removed \cap Tabs = {}

\* "usage" waits for the unrealized tabs only, and has set the realized ones.
UsageOK ==
  /\ web_usage_enabled \in BOOLEAN
  /\ IF ~Attached("usage") THEN usage_observed = {}
     ELSE /\ usage_observed \subseteq
               Tabs \cup (IF Contains(pending, "usage") THEN Removed ELSE {})
          /\ \A w \in Tabs \ (IF Contains(pending, "usage") THEN Added ELSE {}) :
               IF w \in realized THEN w \in usage <=> web_usage_enabled
                                 ELSE w \in usage_observed

\* "deps" has installed on the realized tabs and waits for the others, or
\* will once it is told.
DepsOK ==
  IF Contains(pending, "deps")
  THEN /\ (installed \ (Removed \cap realized)) \cup (Added \cap realized)
            = realized \cap Tabs
       /\ (deps_observed \ (Removed \ realized)) \cup (Added \ realized)
            = Tabs \ realized
  ELSE /\ installed = IF Attached("deps") THEN realized \cap Tabs ELSE {}
       /\ deps_observed = IF Attached("deps") THEN Tabs \ realized ELSE {}

ObserversInv ==
  /\ IInv
  /\ PendingOK
  /\ CallOK
  /\ AllOK
  /\ ActiveOK
  /\ UsageOK
  /\ DepsOK

----------------------------------------------------------------------------
(* Who is still to be told.                                                *)

\* Nobody is left in the empty sequence.
LEMMA ContainsEmpty ==
  ASSUME NEW o
  PROVE  ~Contains(<<>>, o)
  BY DEF Contains

\* The loop over observers_ leaves the ones after the head.
LEMMA ContainsTail ==
  ASSUME NEW s \in Seq(Names), s # <<>>, NEW o
  PROVE  /\ Tail(s) \in Seq(Names) /\ Head(s) \in Names
         /\ Contains(s, o) <=> Head(s) = o \/ Contains(Tail(s), o)
<1>1. /\ Tail(s) \in Seq(Names) /\ Len(s) \in Nat \ {0} /\ Len(Tail(s)) = Len(s) - 1
      /\ Head(s) = s[1]
      /\ \A i \in 1..(Len(s) - 1) : Tail(s)[i] = s[i + 1]
  OBVIOUS
<1>2. Head(s) \in Names
  BY <1>1, ElementOfSeq
<1>3. ASSUME Contains(s, o), Head(s) # o
      PROVE  Contains(Tail(s), o)
  <2>1. PICK i \in 1..Len(s) : s[i] = o
    BY <1>3 DEF Contains
  <2>2. i - 1 \in 1..(Len(s) - 1) /\ (i - 1) + 1 = i
    BY <1>1, <1>3, <2>1
  <2>3. Tail(s)[i - 1] = o
    BY <1>1, <2>1, <2>2
  <2> QED
    BY <1>1, <2>2, <2>3 DEF Contains
<1>4. ASSUME Head(s) = o \/ Contains(Tail(s), o)
      PROVE  Contains(s, o)
  <2>1. CASE Head(s) = o
    BY <1>1, <2>1 DEF Contains
  <2>2. CASE Contains(Tail(s), o)
    <3>1. PICK i \in 1..(Len(s) - 1) : Tail(s)[i] = o
      BY <1>1, <2>2 DEF Contains
    <3>2. i + 1 \in 1..Len(s) /\ s[i + 1] = o
      BY <1>1, <3>1
    <3> QED
      BY <3>2 DEF Contains
  <2> QED
    BY <1>4, <2>1, <2>2
<1> QED
  BY <1>1, <1>2, <1>3, <1>4

\* A step of the list that makes a call has all its observers told of it.
LEMMA EverybodyIsTold ==
  ASSUME pending' = Observers
  PROVE  /\ pending' \in Seq(Names)
         /\ \A o \in Names : Contains(pending', o) <=> Attached(o)
  BY ObserversAssumption DEF Attached, Names

----------------------------------------------------------------------------
(* The steps of the list.                                                  *)

\* The calls describe what happens to the tabs.
LEMMA EffectOnTabs ==
  ASSUME IInv, IInv', ListEffect
  PROVE  /\ CallOK'
         /\ Tabs' = (Tabs \ Removed') \cup Added'
         /\ Added' \cap Tabs = {}
         /\ Removed' \subseteq Tabs
         /\ Added' \cup Removed' # {} => /\ realized' = realized
                                         /\ op'.step # "Idle" /\ op'.step # op.step
                                         /\ op.step # "WillCloseWebStateAt"
         /\ op.step # "WillCloseWebStateAt" => realized \subseteq realized'
         /\ op.step = "WillCloseWebStateAt" =>
              /\ op.web_state \in WebStates \ Tabs
              /\ realized' = realized \ {op.web_state}
              /\ SameTabs /\ Added' = {} /\ Removed' = {}
<1>0. op.step = "WillCloseWebStateAt" => op.web_state \in WebStates \ Tabs
  BY DEF IInv, OperationOK, NotInList, Tabs
<1>1. CASE TellsInserted
  <2>1. Added' = {op'.web_state} /\ Removed' = {}
    BY <1>1 DEF TellsInserted, Added, Removed
  <2> QED
    BY <1>1, <2>1 DEF TellsInserted, CallOK, Tabs, NotInList
<1>2. CASE TellsReplaced
  <2>1. Added' = {op'.web_state} /\ Removed' = {op'.old_web_state}
    BY <1>2 DEF TellsReplaced, Added, Removed
  <2> QED
    BY <1>2, <2>1 DEF TellsReplaced, CallOK, Tabs, NotInList
<1>3. CASE TellsDetached
  <2>1. Added' = {} /\ Removed' = {op'.web_state}
    BY <1>3 DEF TellsDetached, Added, Removed
  <2> QED
    BY <1>3, <2>1 DEF TellsDetached, CallOK, Tabs
<1>4. CASE TellsActivated
  <2>1. Added' = {} /\ Removed' = {}
    BY <1>4 DEF TellsActivated, Added, Removed
  <2> QED
    BY <1>4, <2>1 DEF TellsActivated, CallOK, Tabs, SameTabs
<1>5. CASE KeepsTabs
  <2>1. Added' = {} /\ Removed' = {}
    BY <1>5 DEF KeepsTabs, Added, Removed
  <2> QED
    BY <1>0, <1>5, <2>1 DEF KeepsTabs, CallOK, Tabs, SameTabs
<1> QED
  BY <1>1, <1>2, <1>3, <1>4, <1>5 DEF ListEffect

\* What every observer finds after a step of the list.
LEMMA ListStepFacts ==
  ASSUME ObserversInv, ListStep
  PROVE  /\ IInv' /\ PendingOK' /\ CallOK' /\ ListEffect
         /\ \A o \in Names : ~Contains(pending, o)
         /\ \/ \A o \in Names : Contains(pending', o) <=> Attached(o)
            \/ /\ \A o \in Names : ~Contains(pending', o)
               /\ Added' = {} /\ Removed' = {} /\ op'.step # "WebStateActivatedAt"
<1>1. pending = <<>> /\ (Mutate \/ Continue)
      /\ pending' = IF op' # op /\ op'.step # "Idle" THEN Observers ELSE <<>>
  BY DEF ListStep
<1>2. IInv' /\ ListEffect
  BY <1>1, ListStepPreserves DEF ObserversInv
<1>3. /\ CallOK'
      /\ Added' \cup Removed' # {} => op'.step # "Idle" /\ op'.step # op.step
  BY <1>2, EffectOnTabs DEF ObserversInv
<1>4. op'.step = "WebStateActivatedAt" => op'.step # op.step
  BY <1>2 DEF ListEffect, TellsInserted, TellsReplaced, TellsDetached,
              TellsActivated, KeepsTabs
<1>5. CASE pending' = Observers /\ op'.step # "Idle"
  BY <1>1, <1>2, <1>3, <1>5, EverybodyIsTold, ContainsEmpty DEF PendingOK, IsMutating
<1>6. CASE pending' = <<>> /\ (op' = op \/ op'.step = "Idle")
  <2>1. pending' \in Seq(Names)
    BY <1>6
  <2>2. \A o \in Names : ~Contains(pending', o) /\ ~Contains(pending, o)
    BY <1>1, <1>6, ContainsEmpty
  <2>3. PendingOK'
    BY <1>6, <2>1, <2>2 DEF PendingOK
  <2>4. Added' = {} /\ Removed' = {} /\ op'.step # "WebStateActivatedAt"
    BY <1>3, <1>4, <1>6
  <2> QED
    BY <1>2, <1>3, <2>2, <2>3, <2>4
<1> QED
  BY <1>1, <1>5, <1>6

\* "all" and "active" do not react to the WebStates themselves.
LEMMA ForwardersAfterListStep ==
  ASSUME ObserversInv, ListStep
  PROVE  AllOK' /\ ActiveOK'
<1>1. UNCHANGED <<all_observed, active_observed>>
  BY DEF ListStep, WebStateDestroyed, WebStatesRealized
<1>2. /\ IInv' /\ ListEffect
      /\ ~Contains(pending, "all") /\ ~Contains(pending, "active")
      /\ \/ /\ Contains(pending', "all") <=> Attached("all")
            /\ Contains(pending', "active") <=> Attached("active")
         \/ /\ ~Contains(pending', "all") /\ ~Contains(pending', "active")
            /\ Added' = {} /\ Removed' = {} /\ op'.step # "WebStateActivatedAt"
  BY ListStepFacts DEF Names
<1>3. /\ CallOK'
      /\ Tabs' = (Tabs \ Removed') \cup Added'
      /\ Added' \cap Tabs = {} /\ Removed' \subseteq Tabs
  BY <1>2, EffectOnTabs DEF ObserversInv
<1>4. AllOK'
  <2>1. all_observed = IF Attached("all") THEN Tabs ELSE {}
    BY <1>2 DEF ObserversInv, AllOK
  <2>2. ToldAll(all_observed)' = (all_observed \ Removed') \cup Added'
    BY <1>1 DEF ToldAll
  <2> QED
    BY <1>1, <1>2, <1>3, <2>1, <2>2 DEF AllOK, Attached
<1>5. CASE ~Attached("active")
  BY <1>1, <1>4, <1>5 DEF ObserversInv, ActiveOK, Attached
<1>6. CASE Attached("active")
  <2>0. /\ GetActiveWebState \in Tabs \cup {NoWebState}
        /\ Attached("active")'
    BY <1>6, ActiveOrNull DEF ObserversInv, Tabs, Attached
  <2>1. \/ op.step = "WebStateDetachedAt" /\ op.activate
        \/ op.step = "WebStateReplacedAt"
        \/ active_observed = GetActiveWebState
    BY <1>2, <1>6 DEF ObserversInv, ActiveOK, Attached
  <2>2. CASE TellsInserted
    BY <1>4, <1>1, <2>0, <2>1, <2>2 DEF TellsInserted, ActiveOK, Attached
  <2>3. CASE TellsReplaced
    BY <1>4, <1>1, <2>0, <2>1, <2>3, NoWebStateAssumption
       DEF TellsReplaced, ActiveOK, Attached, NotInList, Tabs
  <2>4. CASE TellsDetached
    BY <1>4, <1>1, <2>0, <2>1, <2>4 DEF TellsDetached, ActiveOK, Attached
  <2>5. CASE TellsActivated
    BY <1>4, <1>2, <1>6, <2>0, <2>5 DEF TellsActivated, ActiveOK, Attached
  <2>6. CASE KeepsTabs
    BY <1>4, <1>1, <2>0, <2>1, <2>6 DEF KeepsTabs, ActiveOK, Attached
  <2> QED
    BY <1>2, <2>2, <2>3, <2>4, <2>5, <2>6 DEF ListEffect
<1> QED
  BY <1>5, <1>6

\* "usage" and "deps" follow the realization of what they observe, and forget
\* what is destroyed.
LEMMA AgentsAfterListStep ==
  ASSUME ObserversInv, ListStep
  PROVE  UsageOK' /\ DepsOK'
<1>1. /\ IInv' /\ ListEffect
      /\ ~Contains(pending, "usage") /\ ~Contains(pending, "deps")
      /\ \/ /\ Contains(pending', "usage") <=> Attached("usage")
            /\ Contains(pending', "deps") <=> Attached("deps")
         \/ /\ ~Contains(pending', "usage") /\ ~Contains(pending', "deps")
            /\ Added' = {} /\ Removed' = {}
  BY ListStepFacts DEF Names
<1>2. /\ Tabs' = (Tabs \ Removed') \cup Added'
      /\ Added' \cap Tabs = {} /\ Removed' \subseteq Tabs
      /\ Added' \cup Removed' # {} => realized' = realized
      /\ op.step # "WillCloseWebStateAt" => realized \subseteq realized'
      /\ op.step = "WillCloseWebStateAt" =>
           /\ op.web_state \notin Tabs /\ realized' = realized \ {op.web_state}
           /\ Added' = {} /\ Removed' = {}
  BY <1>1, EffectOnTabs DEF ObserversInv
<1>3. /\ web_usage_enabled' = web_usage_enabled /\ web_usage_enabled \in BOOLEAN
      /\ Attached("usage")' = Attached("usage") /\ Attached("deps")' = Attached("deps")
  BY DEF ListStep, WebStateDestroyed, WebStatesRealized, ObserversInv, UsageOK,
         Attached
<1>4. /\ ~Attached("usage") => usage_observed = {}
      /\ Attached("usage") =>
           /\ usage_observed \subseteq Tabs
           /\ \A w \in Tabs : IF w \in realized THEN w \in usage <=> web_usage_enabled
                                                ELSE w \in usage_observed
      /\ installed = IF Attached("deps") THEN realized \cap Tabs ELSE {}
      /\ deps_observed = IF Attached("deps") THEN Tabs \ realized ELSE {}
  BY <1>1 DEF ObserversInv, UsageOK, DepsOK
<1>5. CASE op.step = "WillCloseWebStateAt"
  <2>1. WebStateDestroyed(op.web_state)
    BY <1>5 DEF ListStep
  <2>2. UsageOK'
    BY <1>1, <1>2, <1>3, <1>4, <1>5, <2>1 DEF WebStateDestroyed, UsageOK
  <2>3. DepsOK'
    BY <1>1, <1>2, <1>3, <1>4, <1>5, <2>1 DEF WebStateDestroyed, DepsOK
  <2> QED
    BY <2>2, <2>3
<1>6. CASE op.step # "WillCloseWebStateAt"
  <2>1. WebStatesRealized(realized' \ realized) /\ realized \subseteq realized'
    BY <1>2, <1>6 DEF ListStep
  <2>2. UsageOK'
    BY <1>1, <1>2, <1>3, <1>4, <2>1 DEF WebStatesRealized, UsageOK
  <2>3. DepsOK'
    <3>1. /\ installed' = IF Attached("deps") THEN realized' \cap Tabs ELSE {}
          /\ deps_observed' = IF Attached("deps") THEN Tabs \ realized' ELSE {}
      BY <1>4, <2>1 DEF WebStatesRealized
    <3> QED
      BY <1>1, <1>2, <1>3, <3>1 DEF DepsOK
  <2> QED
    BY <2>2, <2>3
<1> QED
  BY <1>5, <1>6

----------------------------------------------------------------------------
(* The other steps.                                                        *)

\* Each observer does its part when the loop over observers_ reaches it.
LEMMA TellNextKeeps ==
  ASSUME ObserversInv, TellNext
  PROVE  ObserversInv'
<1>1. /\ pending # <<>> /\ pending' = Tail(pending) /\ pending \in Seq(Names)
      /\ Head(pending) \in Names
      /\ UNCHANGED vars
      /\ UNCHANGED <<web_state_wrappers, active_index, batch, op, realized, nav>>
  BY ContainsTail DEF TellNext, ObserversInv, PendingOK, vars
<1>2. IInv' /\ CallOK'
  BY <1>1, NextPreserves
     DEF ObserversInv, CallOK, Added, Removed, Tabs, GetActiveWebState
<1>3. /\ Added' = Added /\ Removed' = Removed /\ Tabs' = Tabs
      /\ GetActiveWebState' = GetActiveWebState
      /\ \A o : Attached(o)' = Attached(o)
      /\ Added \subseteq Tabs /\ Removed \cap Tabs = {}
  BY <1>1 DEF Added, Removed, Tabs, GetActiveWebState, Attached, ObserversInv, CallOK
<1>4. /\ pending' \in Seq(Names)
      /\ \A o \in Names : Contains(pending, o) <=> Head(pending) = o \/ Contains(pending', o)
  BY <1>1, ContainsTail
<1>5. PendingOK'
  BY <1>1, <1>3, <1>4 DEF PendingOK, ObserversInv, IsMutating, Attached
<1>6. /\ Contains(pending, "all") <=> Head(pending) = "all" \/ Contains(pending', "all")
      /\ Contains(pending, "active") <=> Head(pending) = "active" \/ Contains(pending', "active")
      /\ Contains(pending, "usage") <=> Head(pending) = "usage" \/ Contains(pending', "usage")
      /\ Contains(pending, "deps") <=> Head(pending) = "deps" \/ Contains(pending', "deps")
      /\ Contains(pending, "all") => Attached("all")
      /\ Contains(pending, "active") => Attached("active")
      /\ Contains(pending, "usage") => Attached("usage")
      /\ Contains(pending, "deps") => Attached("deps")
  BY <1>4 DEF Names, ObserversInv, PendingOK
<1>7. AllOK /\ ActiveOK /\ UsageOK /\ DepsOK /\ CallOK
  BY DEF ObserversInv
<1>8. ASSUME UNCHANGED all_observed, Head(pending) # "all"
      PROVE  AllOK'
  BY <1>3, <1>6, <1>7, <1>8 DEF AllOK, ToldAll
<1>9. ASSUME UNCHANGED active_observed, Head(pending) # "active"
      PROVE  ActiveOK'
  BY <1>1, <1>3, <1>6, <1>7, <1>9 DEF ActiveOK
<1>10. ASSUME UNCHANGED <<usage, usage_observed, web_usage_enabled>>, Head(pending) # "usage"
       PROVE  UsageOK'
  BY <1>1, <1>3, <1>6, <1>7, <1>10 DEF UsageOK
<1>11. ASSUME UNCHANGED <<installed, deps_observed>>, Head(pending) # "deps"
       PROVE  DepsOK'
  BY <1>1, <1>3, <1>6, <1>7, <1>11 DEF DepsOK
<1>12. CASE Head(pending) = "all"
  <2>1. AllForwarderTold
    BY <1>12 DEF TellNext
  <2>2. all_observed' = ToldAll(all_observed)
    BY <2>1 DEF AllForwarderTold, ToldAll, Added, Removed
  <2>3. AllOK'
    BY <1>3, <1>6, <1>7, <1>12, <2>2 DEF AllOK, ToldAll
  <2> QED
    BY <1>2, <1>5, <1>9, <1>10, <1>11, <1>12, <2>1, <2>3
       DEF ObserversInv, AllForwarderTold
<1>13. CASE Head(pending) = "active"
  <2>1. ActiveForwarderTold
    BY <1>13 DEF TellNext
  <2>2. ActiveOK'
    BY <1>1, <1>3, <1>6, <1>7, <1>13, <2>1 DEF ActiveOK, ActiveForwarderTold, CallOK
  <2> QED
    BY <1>2, <1>5, <1>8, <1>10, <1>11, <1>13, <2>1, <2>2
       DEF ObserversInv, ActiveForwarderTold
<1>14. CASE Head(pending) = "usage"
  <2>1. WebUsageEnablerTold
    BY <1>14 DEF TellNext
  <2>2. /\ web_usage_enabled' = web_usage_enabled
        /\ usage_observed' = (usage_observed \ Removed) \cup (Added \ realized)
        /\ \A w : w \in usage' <=> IF w \in Added \cap realized THEN web_usage_enabled
                                                               ELSE w \in usage
    BY <1>7, <2>1 DEF WebUsageEnablerTold, UpdateWebUsageForAddedWebStates, Added,
                      Removed, UsageOK
  <2>3. UsageOK'
    BY <1>1, <1>3, <1>6, <1>7, <1>14, <2>2 DEF UsageOK
  <2> QED
    BY <1>2, <1>5, <1>8, <1>9, <1>11, <1>14, <2>1, <2>3
       DEF ObserversInv, WebUsageEnablerTold
<1>15. CASE Head(pending) = "deps"
  <2>1. DependencyInstallerTold
    BY <1>15 DEF TellNext
  <2>2. /\ installed' = (installed \ (Removed \cap realized)) \cup (Added \cap realized)
        /\ deps_observed' = (deps_observed \ (Removed \ realized)) \cup (Added \ realized)
    BY <2>1 DEF DependencyInstallerTold, OnWebStates, Added, Removed
  <2>3. DepsOK'
    BY <1>1, <1>3, <1>6, <1>7, <1>15, <2>2 DEF DepsOK
  <2> QED
    BY <1>2, <1>5, <1>8, <1>9, <1>10, <1>15, <2>1, <2>3
       DEF ObserversInv, DependencyInstallerTold
<1> QED
  BY <1>1, <1>12, <1>13, <1>14, <1>15 DEF Names

\* A WebState is realized while observers may still have to be told.
LEMMA RealizeKeeps ==
  ASSUME ObserversInv, RealizeStep
  PROVE  ObserversInv'
<1>1. PICK w \in WebStates :
        /\ w \notin realized /\ realized' = realized \cup {w}
        /\ UNCHANGED <<web_state_wrappers, active_index, batch, op, nav>>
  BY DEF RealizeStep, ForceRealized
<1>2. WebStatesRealized({w}) /\ UNCHANGED pending
  <2>1. realized' \ realized = {w}
    BY <1>1
  <2> QED
    BY <2>1 DEF RealizeStep
<1>3. IInv'
  BY NextPreserves DEF RealizeStep, Next, Environment, ObserversInv
<1>4. /\ Added' = Added /\ Removed' = Removed /\ Tabs' = Tabs
      /\ GetActiveWebState' = GetActiveWebState
      /\ \A o : Attached(o)' = Attached(o)
      /\ Added \subseteq Tabs /\ Removed \cap Tabs = {}
  BY <1>1 DEF Added, Removed, Tabs, GetActiveWebState, Attached, ObserversInv, CallOK
<1>5. PendingOK' /\ CallOK' /\ AllOK' /\ ActiveOK'
  BY <1>1, <1>2, <1>4
     DEF ObserversInv, PendingOK, CallOK, AllOK, ActiveOK, ToldAll,
         WebStatesRealized, IsMutating
<1>6. UsageOK'
  BY <1>1, <1>2, <1>4 DEF ObserversInv, UsageOK, WebStatesRealized
<1>7. /\ installed' = installed \cup ({w} \cap deps_observed)
      /\ deps_observed' = deps_observed \ {w}
      /\ DepsOK /\ (Contains(pending, "deps") <=> Contains(pending', "deps"))
  BY <1>2 DEF WebStatesRealized, ObserversInv
<1>8. DepsOK'
  BY <1>1, <1>4, <1>7 DEF DepsOK
<1> QED
  BY <1>3, <1>5, <1>6, <1>8 DEF ObserversInv

\* A navigation, or nothing, happens.
LEMMA NavigateKeeps ==
  ASSUME ObserversInv, NavigateStep \/ UNCHANGED allVars
  PROVE  ObserversInv'
<1>1. /\ UNCHANGED <<web_state_wrappers, active_index, batch, op, realized>>
      /\ UNCHANGED <<pending, all_observed, active_observed, web_usage_enabled,
                     usage_observed, usage, deps_observed, installed>>
  BY DEF NavigateStep, Navigate, allVars, vars, observerVars
<1>2. [Next]_vars
  BY DEF NavigateStep, Next, Environment, allVars, vars
<1>3. IInv'
  BY <1>2, NextPreserves DEF ObserversInv
<1>4. /\ Added' = Added /\ Removed' = Removed /\ Tabs' = Tabs
      /\ GetActiveWebState' = GetActiveWebState
      /\ \A o : Attached(o)' = Attached(o)
  BY <1>1 DEF Added, Removed, Tabs, GetActiveWebState, Attached
<1> QED
  BY <1>1, <1>3, <1>4
     DEF ObserversInv, PendingOK, CallOK, AllOK, ActiveOK, UsageOK, DepsOK,
         ToldAll, IsMutating

\* Web usage is switched for all the tabs of an idle list.
LEMMA SetWebUsageKeeps ==
  ASSUME ObserversInv, SetWebUsageEnabled
  PROVE  ObserversInv'
<1>1. /\ UNCHANGED <<web_state_wrappers, active_index, batch, op, realized, nav>>
      /\ UNCHANGED <<pending, all_observed, active_observed, deps_observed,
                     installed>>
      /\ pending = <<>> /\ web_usage_enabled' = ~web_usage_enabled
      /\ UpdateWebUsageForAddedWebStates(Tabs, ~web_usage_enabled, usage_observed)
  BY DEF SetWebUsageEnabled, vars, ObserversInv, PendingOK, Tabs
<1>2. UNCHANGED vars
  BY DEF SetWebUsageEnabled
<1>3. IInv'
  BY <1>2, NextPreserves DEF ObserversInv
<1>4. /\ Added' = Added /\ Removed' = Removed /\ Tabs' = Tabs
      /\ GetActiveWebState' = GetActiveWebState
      /\ \A o : Attached(o)' = Attached(o)
      /\ ~Contains(pending, "usage")
  BY <1>1, ContainsEmpty DEF Added, Removed, Tabs, GetActiveWebState, Attached
<1>5. PendingOK' /\ CallOK' /\ AllOK' /\ ActiveOK' /\ DepsOK'
  BY <1>1, <1>4
     DEF ObserversInv, PendingOK, CallOK, AllOK, ActiveOK, DepsOK, ToldAll,
         IsMutating
<1>6. /\ Attached("usage") /\ UsageOK /\ web_usage_enabled \in BOOLEAN
      /\ usage_observed' = usage_observed \cup (Tabs \ realized)
      /\ \A w \in Tabs \cap realized : w \in usage' <=> ~web_usage_enabled
  BY <1>1 DEF SetWebUsageEnabled, UpdateWebUsageForAddedWebStates, ObserversInv,
              UsageOK
<1>7. UsageOK'
  BY <1>1, <1>4, <1>6 DEF UsageOK
<1> QED
  BY <1>3, <1>5, <1>7 DEF ObserversInv

----------------------------------------------------------------------------
(* The theorems.                                                           *)

\* The list with its observers behaves as the list alone: being told is a
\* stutter of the list and the observers add no step to it.  So whatever is
\* proved of WebStateList holds while any of them is attached.
THEOREM ObserversImplementList == ObserversSpec => Spec
<1>1. ObserversInit => Init
  BY DEF ObserversInit
<1>2. [ObserversNext]_allVars => [Next]_vars
  BY DEF ObserversNext, ListStep, TellNext, RealizeStep, NavigateStep,
         SetWebUsageEnabled, Next, Environment, allVars
<1> QED
  BY <1>1, <1>2, PTL DEF ObserversSpec, Spec

\* The invariant of the composition.
LEMMA ObserversInductive == ObserversSpec => []ObserversInv
<1>1. ASSUME ObserversInit PROVE ObserversInv
  <2>1. IInv
    BY <1>1, InitIInv DEF ObserversInit
  <2>2. /\ pending = <<>> /\ op.step = "Idle" /\ web_state_wrappers = <<>>
        /\ active_index = kInvalidIndex /\ realized = {}
    BY <1>1 DEF ObserversInit, Init, Idle
  <2>3. Tabs = {} /\ Added = {} /\ Removed = {} /\ GetActiveWebState = NoWebState
    BY <2>2 DEF Tabs, InList, Added, Removed, GetActiveWebState, WebStateAtOrNull
  <2>4. \A o : ~Contains(pending, o)
    BY <2>2, ContainsEmpty
  <2>5. PendingOK
    BY <2>2, <2>4 DEF PendingOK
  <2> QED
    BY <1>1, <2>1, <2>2, <2>3, <2>4, <2>5
       DEF ObserversInit, ObserversInv, CallOK, AllOK, ActiveOK, UsageOK, DepsOK
<1>2. ASSUME ObserversInv, [ObserversNext]_allVars PROVE ObserversInv'
  <2>1. CASE ListStep
    BY <1>2, <2>1, ListStepFacts, ForwardersAfterListStep, AgentsAfterListStep
       DEF ObserversInv
  <2> QED
    BY <1>2, <2>1, TellNextKeeps, RealizeKeeps, NavigateKeeps, SetWebUsageKeeps
       DEF ObserversNext
<1> QED
  BY <1>1, <1>2, PTL DEF ObserversSpec

\* Whenever the list is idle, AllWebStateObservationForwarder observes exactly
\* the tabs of the list and ActiveWebStateObservationForwarder its active tab,
\* whatever sequence of calls led there and in whatever order they are told.
THEOREM ForwardersAlwaysFollow == ObserversSpec => []ForwardersFollowList
<1>1. ObserversInv => ForwardersFollowList
  <2> SUFFICES ASSUME ObserversInv, ~IsMutating
               PROVE  /\ Attached("all") => all_observed = InList(web_state_wrappers)
                      /\ Attached("active") => active_observed = GetActiveWebState
    BY DEF ForwardersFollowList
  <2>1. ~Contains(pending, "all") /\ op.step = "Idle"
    BY ContainsEmpty DEF ObserversInv, PendingOK, IsMutating
  <2> QED
    BY <2>1 DEF ObserversInv, AllOK, ActiveOK, Tabs
<1> QED
  BY <1>1, ObserversInductive, PTL

\* Nobody observes a closed WebState any more once WillCloseWebStateAt has been
\* announced: the forwarders, which do not handle WebStateDestroyed, keep no
\* dangling pointer.
THEOREM DestroyedIsUnobserved == ObserversSpec => []NobodyObservesDestroyed
<1>1. ObserversInv => NobodyObservesDestroyed
  <2> SUFFICES ASSUME ObserversInv, op.step = "WillCloseWebStateAt", pending = <<>>
               PROVE  op.web_state \notin all_observed \cup {active_observed}
                        \cup usage_observed \cup deps_observed \cup installed
    BY DEF NobodyObservesDestroyed
  <2>1. \A o : ~Contains(pending, o)
    BY ContainsEmpty
  <2>2. op.web_state \in WebStates \ Tabs
    BY DEF ObserversInv, IInv, OperationOK, NotInList, Tabs
  <2>3. GetActiveWebState \in Tabs \cup {NoWebState}
    BY ActiveOrNull DEF ObserversInv, Tabs
  <2>4. /\ all_observed \subseteq Tabs /\ usage_observed \subseteq Tabs
        /\ deps_observed \subseteq Tabs /\ installed \subseteq Tabs
    BY <2>1 DEF ObserversInv, AllOK, UsageOK, DepsOK
  <2>5. active_observed \in Tabs \cup {NoWebState}
    BY <2>1, <2>3 DEF ObserversInv, ActiveOK
  <2> QED
    BY <2>2, <2>4, <2>5, NoWebStateAssumption
<1> QED
  BY <1>1, ObserversInductive, PTL

\* Every realized tab has the web usage of the window and every unrealized one
\* is waited for, whenever it is realized: before WebStateInsertedAt, between
\* two observers, or later.
THEOREM WebUsageAlwaysFollows == ObserversSpec => []WebUsageFollowsSetting
<1>1. ObserversInv => WebUsageFollowsSetting
  <2> SUFFICES ASSUME ObserversInv, Attached("usage"), ~Contains(pending, "usage"),
                      NEW w \in InList(web_state_wrappers)
               PROVE  IF w \in realized THEN (w \in usage) = web_usage_enabled
                                        ELSE w \in usage_observed
    BY DEF WebUsageFollowsSetting
  <2>1. /\ web_usage_enabled \in BOOLEAN
        /\ IF w \in realized THEN w \in usage <=> web_usage_enabled
                             ELSE w \in usage_observed
    BY DEF ObserversInv, UsageOK, Tabs
  <2> QED
    BY <2>1
<1> QED
  BY <1>1, ObserversInductive, PTL

\* The dependency is installed on exactly the realized tabs and exactly the
\* unrealized ones are waited for, at every moment the observer has been told
\* of the current call.
THEOREM InstalledExactly == ObserversSpec => []InstalledOnRealizedTabs
<1>1. ObserversInv => InstalledOnRealizedTabs
  BY DEF ObserversInv, DepsOK, InstalledOnRealizedTabs, Tabs
<1> QED
  BY <1>1, ObserversInductive, PTL

=============================================================================
