-------------------- MODULE OrderControllerSearch_proof --------------------
(***************************************************************************)
(* Proofs about the loops of the order controller, for lists of any length *)
(* with any openers, any tabs to remove and any starting position.         *)
(*                                                                         *)
(* The scan is a recursive function of the number of its iterations.  What *)
(* it computes is shown by an induction over that number, in the form of a *)
(* set of numbers (InductionUpTo): the locals after i iterations describe  *)
(* what has been met in i steps to the right (Met).  The unbounded loop    *)
(* has an invariant of its own (LoopInv).                                  *)
(***************************************************************************)
EXTENDS OrderControllerSearch, ListLemmas, FiniteSetTheorems

----------------------------------------------------------------------------
(* Induction over the iterations of a loop.                                *)

\* A set that holds 0, and with a number below last the next one, holds them all.
LEMMA InductionUpTo ==
  ASSUME NEW last \in Nat, NEW S, 0 \in S,
         \A i \in 0..last : i < last /\ i \in S => i + 1 \in S
  PROVE  \A i \in 0..last : i \in S
<1> DEFINE T == (0..last) \ S
           rank == [i \in T |-> i]
<1> SUFFICES ASSUME T # {} PROVE FALSE
  OBVIOUS
<1>1. rank \in [T -> Nat]
  OBVIOUS
<1>2. PICK i \in T : \A j \in T : rank[i] <= rank[j]
  <2> HIDE DEF T, rank
  <2> QED
    BY <1>1, LeastRankExists
<1>3. i \in 0..last /\ i \notin S /\ \A j \in T : i <= j
  BY <1>2
<1>4. i # 0 /\ i - 1 \in 0..last /\ i - 1 < last /\ i - 1 \notin T
  BY <1>3
<1>5. i - 1 \in S /\ (i - 1) + 1 = i
  BY <1>3, <1>4
<1> QED
  BY <1>3, <1>4, <1>5

----------------------------------------------------------------------------
(* The scan.                                                               *)

\* The locals after i iterations are those of the iteration before, put through
\* one more.
IsScan(f, opener, first, use_group, n) ==
  f = [i \in 0..(Len(ws) - 1) |->
         IF i = 0
         THEN [n |-> n, found_index |-> kInvalidIndex]
         ELSE ScanIteration(f[i - 1], opener, first, use_group, i)]

\* The scan is such a function, if there is one.
LEMMA ScanUnfolds ==
  ASSUME NEW opener, NEW first, NEW use_group, NEW n,
         opener # NoWebState, ContainsIndex(ws, first),
         \E g : IsScan(g, opener, first, use_group, n)
  PROVE  \E f : /\ IsScan(f, opener, first, use_group, n)
                /\ Scan(opener, first, use_group, n) = f[Len(ws) - 1].found_index
<1> DEFINE f == CHOOSE g : g = [i \in 0..(Len(ws) - 1) |->
         IF i = 0
         THEN [n |-> n, found_index |-> kInvalidIndex]
         ELSE ScanIteration(g[i - 1], opener, first, use_group, i)]
<1>1. Scan(opener, first, use_group, n) = f[Len(ws) - 1].found_index
  BY DEF Scan
<1>2. IsScan(f, opener, first, use_group, n)
  BY DEF IsScan
<1> QED
  BY <1>1, <1>2

\* There is one: the locals of one more iteration can always be added.
LEMMA ScanExists ==
  ASSUME Len(ws) \in Nat, NEW opener, NEW first, ContainsIndex(ws, first),
         NEW use_group, NEW n
  PROVE  \E f : IsScan(f, opener, first, use_group, n)
<1>1. PICK last : last = Len(ws) - 1 /\ last \in Nat
  BY DEF ContainsIndex
<1> DEFINE Begin == [n |-> n, found_index |-> kInvalidIndex]
           Then(x, i) == ScanIteration(x, opener, first, use_group, i)
           IsScanUpTo(f, m) ==
             \A i \in 0..m : f[i] = IF i = 0 THEN Begin ELSE Then(f[i - 1], i)
           S == {m \in 0..last : \E f : IsScanUpTo(f, m)}
<1> HIDE DEF Begin, Then
<1>2. 0 \in S
  <2> DEFINE f == [i \in 0..last |-> Begin]
  <2>1. IsScanUpTo(f, 0)
    BY <1>1
  <2> HIDE DEF f
  <2> QED
    BY <1>1, <2>1
<1>3. ASSUME NEW m \in 0..last, m < last, m \in S PROVE m + 1 \in S
  <2>1. PICK f : IsScanUpTo(f, m)
    BY <1>3
  <2> DEFINE g == [i \in 0..last |-> IF i <= m THEN f[i] ELSE Then(f[m], i)]
  <2>2. ASSUME NEW i \in 0..(m + 1)
        PROVE  g[i] = IF i = 0 THEN Begin ELSE Then(g[i - 1], i)
    <3>1. CASE i <= m
      <4>1. i \in 0..m /\ g[i] = f[i] /\ (i # 0 => g[i - 1] = f[i - 1])
        BY <1>1, <1>3, <3>1
      <4> QED
        BY <2>1, <4>1
    <3>2. CASE i = m + 1
      <4>1. g[i] = Then(f[m], i) /\ g[i - 1] = f[m] /\ i # 0
        BY <1>1, <1>3, <3>2
      <4> QED
        BY <4>1
    <3> QED
      BY <1>1, <1>3, <3>1, <3>2
  <2> HIDE DEF g
  <2> QED
    BY <1>1, <1>3, <2>2
<1>4. last \in S
  <2> HIDE DEF S
  <2>1. \A i \in 0..last : i < last /\ i \in S => i + 1 \in S
    BY <1>3
  <2>2. \A i \in 0..last : i \in S
    BY <1>1, <1>2, <2>1, InductionUpTo
  <2> QED
    BY <1>1, <2>2
<1>5. PICK f : IsScanUpTo(f, last)
  BY <1>4
<1> DEFINE g == [i \in 0..last |-> f[i]]
<1>6. g = [i \in 0..last |-> IF i = 0 THEN Begin ELSE Then(g[i - 1], i)]
  <2>1. \A i \in 0..last : f[i] = IF i = 0 THEN Begin ELSE Then(f[i - 1], i)
    BY <1>5
  <2>2. \A i \in 0..last : i # 0 => g[i - 1] = f[i - 1]
    BY <1>1
  <2> QED
    BY <2>1, <2>2
<1> QED
  BY <1>1, <1>6 DEF IsScan, Begin, Then

\* The positions the scan looks at: one place further right each time, round the
\* end of the list.
LEMMA IterationLooksAt ==
  ASSUME Len(ws) \in Nat, NEW first \in 1..Len(ws), NEW i \in 1..(Len(ws) - 1)
  PROVE  /\ IndexOfIteration(first, i) \in 1..Len(ws)
         /\ CyclicDistance(ws, first, IndexOfIteration(first, i)) = i
<1>1. PICK l \in Nat : l = Len(ws)
  OBVIOUS
<1>2. PICK a \in Nat : a = (first - 1) + i
  OBVIOUS
<1>3. CASE a < l
  <2>1. a % l = a
    BY <1>1, <1>2, <1>3
  <2> QED
    BY <1>1, <1>2, <1>3, <2>1 DEF IndexOfIteration, CyclicDistance
<1>4. CASE a >= l
  <2>1. a % l = a - l
    BY <1>1, <1>2, <1>4
  <2> QED
    BY <1>1, <1>2, <1>4, <2>1 DEF IndexOfIteration, CyclicDistance
<1> QED
  BY <1>3, <1>4

\* The distance walked from a position tells where the walk is.
LEMMA DistanceDetermines ==
  ASSUME Len(ws) \in Nat, NEW first \in 1..Len(ws), NEW p \in 1..Len(ws),
         NEW q \in 1..Len(ws)
  PROVE  /\ CyclicDistance(ws, first, p) \in 0..(Len(ws) - 1)
         /\ CyclicDistance(ws, first, p) = 0 <=> p = first
         /\ CyclicDistance(ws, first, p) = CyclicDistance(ws, first, q) => p = q
  BY DEF CyclicDistance

\* What the scan has met after i iterations.
Met(opener, first, use_group, i) ==
  {p \in OpenedBy(ws, nav, opener, use_group) : CyclicDistance(ws, first, p) \in 1..i}

\* What the i-th iteration adds to it.
MeetsAt(opener, first, use_group, i) ==
  LET index == IndexOfIteration(first, i) IN
  Met(opener, first, use_group, i)
    = IF WasOpenedBy(ws[index], nav, opener, use_group)
      THEN Met(opener, first, use_group, i - 1) \cup {index}
      ELSE Met(opener, first, use_group, i - 1)

LEMMA MetNext ==
  ASSUME Len(ws) \in Nat, NEW first \in 1..Len(ws), NEW opener, NEW use_group,
         NEW i \in 1..(Len(ws) - 1)
  PROVE  MeetsAt(opener, first, use_group, i)
<1> DEFINE index == IndexOfIteration(first, i)
           O == OpenedBy(ws, nav, opener, use_group)
<1>1. index \in 1..Len(ws) /\ CyclicDistance(ws, first, index) = i
  BY IterationLooksAt
<1> HIDE DEF index
<1>2. O \subseteq 1..Len(ws) /\ (index \in O <=> WasOpenedBy(ws[index], nav, opener, use_group))
  BY <1>1 DEF OpenedBy
<1> HIDE DEF O
<1>3. ASSUME NEW p \in O
      PROVE  CyclicDistance(ws, first, p) \in 1..i
               <=> CyclicDistance(ws, first, p) \in 1..(i - 1) \/ p = index
  <2>1. /\ CyclicDistance(ws, first, p) \in 0..(Len(ws) - 1)
        /\ CyclicDistance(ws, first, p) = i <=> p = index
    BY <1>1, <1>2, DistanceDetermines
  <2> QED
    BY <1>1, <2>1
<1>4. Met(opener, first, use_group, i)
        = IF index \in O THEN Met(opener, first, use_group, i - 1) \cup {index}
          ELSE Met(opener, first, use_group, i - 1)
  BY <1>3 DEF Met, O
<1> QED
  BY <1>2, <1>4 DEF MeetsAt, index

\* It starts with nothing and ends with all of them, the first position aside.
LEMMA MetAll ==
  ASSUME Len(ws) \in Nat, NEW first \in 1..Len(ws), NEW opener, NEW use_group
  PROVE  /\ Met(opener, first, use_group, 0) = {}
         /\ Met(opener, first, use_group, Len(ws) - 1)
              = OpenedBy(ws, nav, opener, use_group) \ {first}
<1>1. OpenedBy(ws, nav, opener, use_group) \subseteq 1..Len(ws)
  BY DEF OpenedBy
<1>2. ASSUME NEW p \in OpenedBy(ws, nav, opener, use_group)
      PROVE  CyclicDistance(ws, first, p) \in 1..(Len(ws) - 1) <=> p # first
  BY <1>1, DistanceDetermines
<1>3. Met(opener, first, use_group, 0) = {}
  BY DEF Met
<1> QED
  BY <1>2, <1>3 DEF Met

\* The position of a set that is met first is the one FirstFrom names, and the
\* one met last the one LastFrom names.
LEMMA NearestIsFirst ==
  ASSUME Len(ws) \in Nat, NEW first \in 1..Len(ws), NEW S \in SUBSET (1..Len(ws)),
         NEW p \in S
  PROVE  /\ (\A q \in S : CyclicDistance(ws, first, p) <= CyclicDistance(ws, first, q))
              => FirstFrom(ws, first, S) = p
         /\ (\A q \in S : CyclicDistance(ws, first, p) >= CyclicDistance(ws, first, q))
              => LastFrom(ws, first, S) = p
<1>1. \A q, r \in S : /\ CyclicDistance(ws, first, q) \in Nat
                      /\ CyclicDistance(ws, first, q) = CyclicDistance(ws, first, r) => q = r
  BY DistanceDetermines
<1>2. ASSUME \A q \in S : CyclicDistance(ws, first, p) <= CyclicDistance(ws, first, q)
      PROVE  FirstFrom(ws, first, S) = p
  <2>1. PICK c : c = FirstFrom(ws, first, S)
    OBVIOUS
  <2>2. c \in S /\ \A q \in S : CyclicDistance(ws, first, c) <= CyclicDistance(ws, first, q)
    BY <1>2, <2>1 DEF FirstFrom
  <2>3. /\ CyclicDistance(ws, first, c) <= CyclicDistance(ws, first, p)
        /\ CyclicDistance(ws, first, p) <= CyclicDistance(ws, first, c)
    BY <1>2, <2>2
  <2> QED
    BY <1>1, <2>1, <2>2, <2>3
<1>3. ASSUME \A q \in S : CyclicDistance(ws, first, p) >= CyclicDistance(ws, first, q)
      PROVE  LastFrom(ws, first, S) = p
  <2>1. PICK c : c = LastFrom(ws, first, S)
    OBVIOUS
  <2>2. c \in S /\ \A q \in S : CyclicDistance(ws, first, c) >= CyclicDistance(ws, first, q)
    BY <1>3, <2>1 DEF LastFrom
  <2>3. /\ CyclicDistance(ws, first, c) >= CyclicDistance(ws, first, p)
        /\ CyclicDistance(ws, first, p) >= CyclicDistance(ws, first, c)
    BY <1>3, <2>2
  <2> QED
    BY <1>1, <2>1, <2>2, <2>3
<1> QED
  BY <1>2, <1>3

\* The locals of the scan, one iteration after the other.
StepsOfScan(f, opener, first, use_group, n) ==
  /\ f[0] = [n |-> n, found_index |-> kInvalidIndex]
  /\ \A i \in 1..(Len(ws) - 1) :
       f[i] = ScanIteration(f[i - 1], opener, first, use_group, i)

LEMMA ScanSteps ==
  ASSUME Len(ws) \in Nat, NEW opener, NEW first \in 1..Len(ws), NEW use_group, NEW n,
         NEW f, IsScan(f, opener, first, use_group, n)
  PROVE  StepsOfScan(f, opener, first, use_group, n)
<1>1. PICK last \in Nat : last = Len(ws) - 1
  OBVIOUS
<1> DEFINE body(i) == IF i = 0 THEN [n |-> n, found_index |-> kInvalidIndex]
                      ELSE ScanIteration(f[i - 1], opener, first, use_group, i)
<1>2. f = [i \in 0..last |-> body(i)]
  BY <1>1 DEF IsScan
<1>3. \A i \in 0..last : f[i] = body(i)
  <2> HIDE DEF body
  <2> QED
    BY <1>2
<1>4. f[0] = [n |-> n, found_index |-> kInvalidIndex]
  BY <1>3
<1>5. \A i \in 1..last : f[i] = ScanIteration(f[i - 1], opener, first, use_group, i)
  BY <1>3
<1> QED
  BY <1>1, <1>4, <1>5 DEF StepsOfScan

\* One iteration: what it adds to what has been met, and to the locals.
IteratesAt(f, opener, first, use_group, k) ==
  /\ \A p \in Met(opener, first, use_group, k) : CyclicDistance(ws, first, p) \in 1..k
  /\ \E index \in 1..Len(ws), yes \in BOOLEAN :
       /\ CyclicDistance(ws, first, index) = k + 1
       /\ Met(opener, first, use_group, k + 1)
            = IF yes THEN Met(opener, first, use_group, k) \cup {index}
              ELSE Met(opener, first, use_group, k)
       /\ f[k + 1] = IF f[k].n = 0 \/ ~yes THEN f[k]
                     ELSE [n |-> f[k].n - 1, found_index |-> index]

LEMMA ScanIterates ==
  ASSUME Len(ws) \in Nat, NEW opener, NEW first \in 1..Len(ws), NEW use_group, NEW n,
         NEW f, IsScan(f, opener, first, use_group, n),
         NEW k \in 0..(Len(ws) - 1), k < Len(ws) - 1
  PROVE  IteratesAt(f, opener, first, use_group, k)
<1>1. PICK i \in 1..(Len(ws) - 1) : i = k + 1 /\ i - 1 = k
  OBVIOUS
<1>2. PICK index \in 1..Len(ws) : index = IndexOfIteration(first, i)
  BY IterationLooksAt
<1>3. PICK yes \in BOOLEAN : yes <=> WasOpenedBy(ws[index], nav, opener, use_group)
  OBVIOUS
<1>4. CyclicDistance(ws, first, index) = i
  BY <1>2, IterationLooksAt
<1>5. Met(opener, first, use_group, i)
        = IF yes THEN Met(opener, first, use_group, k) \cup {index}
          ELSE Met(opener, first, use_group, k)
  <2>1. MeetsAt(opener, first, use_group, i)
    BY MetNext
  <2> QED
    BY <1>1, <1>2, <1>3, <2>1 DEF MeetsAt
<1>6. f[i] = IF f[k].n = 0 \/ ~yes THEN f[k]
             ELSE [n |-> f[k].n - 1, found_index |-> index]
  <2>1. StepsOfScan(f, opener, first, use_group, n)
    BY ScanSteps
  <2>2. f[i] = ScanIteration(f[k], opener, first, use_group, i)
    BY <1>1, <2>1 DEF StepsOfScan
  <2> QED
    BY <1>1, <1>2, <1>3, <2>2 DEF ScanIteration
<1>7. \A p \in Met(opener, first, use_group, k) : CyclicDistance(ws, first, p) \in 1..k
  BY DEF Met
<1> QED
  BY <1>1, <1>3, <1>4, <1>5, <1>6, <1>7 DEF IteratesAt

\* With n = 1 the scan stops at the first WebState of the opener that it meets.
LEMMA ScanFindsNext ==
  ASSUME Len(ws) \in Nat, NEW opener, NEW first \in 1..Len(ws), NEW use_group,
         opener # NoWebState
  PROVE  Scan(opener, first, use_group, 1)
           = GetIndexOfNextWebStateOpenedBy(ws, nav, opener, first, use_group)
<1>1. ContainsIndex(ws, first)
  BY DEF ContainsIndex
<1>2. PICK f : /\ IsScan(f, opener, first, use_group, 1)
               /\ Scan(opener, first, use_group, 1) = f[Len(ws) - 1].found_index
  BY <1>1, ScanExists, ScanUnfolds
<1>3. PICK last \in Nat : last = Len(ws) - 1
  OBVIOUS
<1> DEFINE M(i) == Met(opener, first, use_group, i)
           d(p) == CyclicDistance(ws, first, p)
           Good(i) == IF M(i) = {} THEN f[i] = [n |-> 1, found_index |-> kInvalidIndex]
                      ELSE /\ f[i].n = 0 /\ f[i].found_index \in M(i)
                           /\ \A q \in M(i) : d(f[i].found_index) <= d(q)
           S == {i \in 0..last : Good(i)}
<1>4. 0 \in S
  <2>1. f[0] = [n |-> 1, found_index |-> kInvalidIndex]
    <3>1. StepsOfScan(f, opener, first, use_group, 1)
      BY <1>2, ScanSteps
    <3> QED
      BY <3>1 DEF StepsOfScan
  <2>2. M(0) = {}
    BY MetAll
  <2> QED
    BY <1>3, <2>1, <2>2
<1>5. ASSUME NEW k \in 0..last, k < last, Good(k) PROVE Good(k + 1)
  <2>1. PICK i \in Nat : i = k + 1
    BY <1>3, <1>5
  <2>2. k \in 0..(Len(ws) - 1) /\ k < Len(ws) - 1
    BY <1>3, <1>5
  <2>3. IteratesAt(f, opener, first, use_group, k)
    BY <1>2, <2>2, ScanIterates
  <2>4. PICK index \in 1..Len(ws), yes \in BOOLEAN :
          /\ CyclicDistance(ws, first, index) = k + 1
          /\ M(k + 1) = IF yes THEN M(k) \cup {index} ELSE M(k)
          /\ f[k + 1] = IF f[k].n = 0 \/ ~yes THEN f[k]
                        ELSE [n |-> f[k].n - 1, found_index |-> index]
    BY <2>3 DEF IteratesAt
  <2>5. /\ d(index) = i /\ \A p \in M(k) : d(p) \in 1..k
        /\ M(i) = IF yes THEN M(k) \cup {index} ELSE M(k)
    BY <2>1, <2>3, <2>4 DEF IteratesAt
  <2>6. f[i] = IF f[k].n = 0 \/ ~yes THEN f[k]
               ELSE [n |-> f[k].n - 1, found_index |-> index]
    BY <2>1, <2>4
  <2> HIDE DEF M, d
  <2>7. CASE M(k) # {}
    <3>1. f[i] = f[k] /\ f[k].n = 0 /\ f[k].found_index \in M(k)
      BY <1>5, <2>6, <2>7
    <3>2. \A q \in M(i) : d(f[k].found_index) <= d(q)
      BY <1>5, <2>1, <2>5, <2>7, <3>1
    <3> QED
      BY <2>1, <2>5, <3>1, <3>2
  <2>8. CASE M(k) = {} /\ yes
    <3>1. f[i] = [n |-> 0, found_index |-> index]
      BY <1>5, <2>6, <2>8
    <3> QED
      BY <2>1, <2>5, <2>8, <3>1
  <2>9. CASE M(k) = {} /\ ~yes
    BY <1>5, <2>1, <2>5, <2>6, <2>9
  <2> QED
    BY <2>7, <2>8, <2>9
<1>6. Good(last)
  <2>1. \A i \in 0..last : i < last /\ i \in S => i + 1 \in S
    BY <1>3, <1>5
  <2>2. \A i \in 0..last : i \in S
    <3> HIDE DEF S
    <3> QED
      BY <1>3, <1>4, <2>1, InductionUpTo
  <2> QED
    BY <1>3, <2>2
<1>7. PICK found : found = OpenedBy(ws, nav, opener, use_group) \ {first}
  OBVIOUS
<1>8. M(last) = found /\ found \in SUBSET (1..Len(ws))
  BY <1>3, <1>7, MetAll DEF OpenedBy
<1>9. GetIndexOfNextWebStateOpenedBy(ws, nav, opener, first, use_group)
        = IF found = {} THEN kInvalidIndex ELSE FirstFrom(ws, first, found)
  BY <1>1, <1>7 DEF GetIndexOfNextWebStateOpenedBy
<1>10. Scan(opener, first, use_group, 1) = f[last].found_index
  BY <1>2, <1>3
<1> HIDE DEF M
<1>11. CASE found = {}
  BY <1>6, <1>8, <1>9, <1>10, <1>11
<1>12. CASE found # {}
  <2>1. PICK p : p = f[last].found_index
    OBVIOUS
  <2>2. p \in found /\ \A q \in found : d(p) <= d(q)
    BY <1>6, <1>8, <1>12, <2>1
  <2>3. FirstFrom(ws, first, found) = p
    BY <1>8, <2>2, NearestIsFirst
  <2> QED
    BY <1>9, <1>10, <1>12, <2>1, <2>3
<1> QED
  BY <1>11, <1>12

\* With n = INT_MAX it stops at the end, with the last one it has met.
LEMMA ScanFindsLast ==
  ASSUME Len(ws) = Length, NEW opener, NEW first \in 1..Len(ws), NEW use_group,
         opener # NoWebState
  PROVE  Scan(opener, first, use_group, IntMax)
           = GetIndexOfLastWebStateOpenedBy(ws, nav, opener, first, use_group)
<1>0. Len(ws) \in Nat
  BY LengthAssumption
<1>1. ContainsIndex(ws, first)
  BY DEF ContainsIndex
<1>2. PICK f : /\ IsScan(f, opener, first, use_group, IntMax)
               /\ Scan(opener, first, use_group, IntMax) = f[Len(ws) - 1].found_index
  BY <1>0, <1>1, ScanExists, ScanUnfolds
<1>3. PICK last \in Nat : last = Len(ws) - 1
  BY <1>0
<1> DEFINE M(i) == Met(opener, first, use_group, i)
           d(p) == CyclicDistance(ws, first, p)
           Good(i) == /\ f[i].n \in Nat /\ f[i].n + i > last
                      /\ IF M(i) = {} THEN f[i].found_index = kInvalidIndex
                         ELSE /\ f[i].found_index \in M(i)
                              /\ \A q \in M(i) : d(f[i].found_index) >= d(q)
           S == {i \in 0..last : Good(i)}
<1>4. 0 \in S
  <2>1. f[0] = [n |-> IntMax, found_index |-> kInvalidIndex]
    <3>1. StepsOfScan(f, opener, first, use_group, IntMax)
      BY <1>0, <1>2, ScanSteps
    <3> QED
      BY <3>1 DEF StepsOfScan
  <2>2. M(0) = {}
    BY <1>0, MetAll
  <2>3. IntMax \in Nat /\ IntMax > last
    BY <1>0, <1>3 DEF IntMax
  <2> QED
    BY <1>3, <2>1, <2>2, <2>3
<1>5. ASSUME NEW k \in 0..last, k < last, Good(k) PROVE Good(k + 1)
  <2>1. PICK i \in Nat : i = k + 1
    BY <1>3, <1>5
  <2>2. k \in 0..(Len(ws) - 1) /\ k < Len(ws) - 1
    BY <1>3, <1>5
  <2>3. IteratesAt(f, opener, first, use_group, k)
    BY <1>0, <1>2, <2>2, ScanIterates
  <2>4. PICK index \in 1..Len(ws), yes \in BOOLEAN :
          /\ CyclicDistance(ws, first, index) = k + 1
          /\ M(k + 1) = IF yes THEN M(k) \cup {index} ELSE M(k)
          /\ f[k + 1] = IF f[k].n = 0 \/ ~yes THEN f[k]
                        ELSE [n |-> f[k].n - 1, found_index |-> index]
    BY <2>3 DEF IteratesAt
  <2>5. /\ d(index) = i /\ \A p \in M(k) : d(p) \in 1..k
        /\ M(i) = IF yes THEN M(k) \cup {index} ELSE M(k)
    BY <2>1, <2>3, <2>4 DEF IteratesAt
  <2>6. f[i] = IF f[k].n = 0 \/ ~yes THEN f[k]
               ELSE [n |-> f[k].n - 1, found_index |-> index]
    BY <2>1, <2>4
  <2> HIDE DEF M, d
  <2>7. f[k].n \in Nat /\ f[k].n + k > last /\ f[k].n # 0
    BY <1>3, <1>5
  <2>8. CASE yes
    <3>1. f[i].n = f[k].n - 1 /\ f[i].found_index = index
      BY <2>6, <2>7, <2>8
    <3>2. f[i].n \in Nat /\ f[i].n + i > last
      BY <2>1, <2>7, <3>1
    <3>3. index \in M(i) /\ \A q \in M(i) : d(index) >= d(q)
      BY <2>1, <2>5, <2>8
    <3> QED
      BY <2>1, <3>1, <3>2, <3>3
  <2>9. CASE ~yes
    <3>1. f[i] = f[k] /\ M(i) = M(k)
      BY <2>5, <2>6, <2>9
    <3>2. f[i].n \in Nat /\ f[i].n + i > last
      BY <2>1, <2>7, <3>1
    <3> QED
      BY <1>5, <2>1, <3>1, <3>2
  <2> QED
    BY <2>8, <2>9
<1>6. Good(last)
  <2>1. \A i \in 0..last : i < last /\ i \in S => i + 1 \in S
    BY <1>3, <1>5
  <2>2. \A i \in 0..last : i \in S
    <3> HIDE DEF S
    <3> QED
      BY <1>3, <1>4, <2>1, InductionUpTo
  <2> QED
    BY <1>3, <2>2
<1>7. PICK found : found = OpenedBy(ws, nav, opener, use_group) \ {first}
  OBVIOUS
<1>8. M(last) = found /\ found \in SUBSET (1..Len(ws))
  BY <1>0, <1>3, <1>7, MetAll DEF OpenedBy
<1>9. GetIndexOfLastWebStateOpenedBy(ws, nav, opener, first, use_group)
        = IF found = {} THEN kInvalidIndex ELSE LastFrom(ws, first, found)
  BY <1>1, <1>7 DEF GetIndexOfLastWebStateOpenedBy
<1>10. Scan(opener, first, use_group, IntMax) = f[last].found_index
  BY <1>2, <1>3
<1> HIDE DEF M
<1>11. CASE found = {}
  BY <1>6, <1>8, <1>9, <1>10, <1>11
<1>12. CASE found # {}
  <2>1. PICK p : p = f[last].found_index
    OBVIOUS
  <2>2. p \in found /\ \A q \in found : d(p) >= d(q)
    BY <1>6, <1>8, <1>12, <2>1
  <2>3. LastFrom(ws, first, found) = p
    BY <1>0, <1>8, <2>2, NearestIsFirst
  <2> QED
    BY <1>9, <1>10, <1>12, <2>1, <2>3
<1> QED
  BY <1>11, <1>12

----------------------------------------------------------------------------
(* The inputs, and the three properties.                                   *)

\* The list: WebState p at position p, with an opener that is another WebState
\* or null.
ListInv ==
  /\ Len(ws) = Length /\ DOMAIN ws = 1..Length
  /\ \A p \in 1..Length : /\ ws[p].web_state = p
                          /\ ws[p].opener.opener \in 0..Length

InputsInv ==
  /\ ListInv
  /\ removing \subseteq 1..Length
  /\ web_state \in 1..Length
  /\ start \in removing

\* Every list, set of removed tabs and starting position of Init is of this kind.
LEMMA InputsInitially ==
  Init => InputsInv
<1> SUFFICES ASSUME Init PROVE InputsInv
  OBVIOUS
<1> USE LengthAssumption
<1>1. PICK s \in Lists : ws = [p \in WebStates |-> [web_state |-> p, opener |-> s[p]]]
  BY DEF Init
<1>2. \A p \in 1..Length : s[p] \in OpenersOf(p)
  BY DEF Lists
<1>3. \A p \in 1..Length : s[p].opener \in 0..Length
  BY <1>2 DEF OpenersOf, WebStateOpener, NullOpener
<1>4. DOMAIN ws = 1..Length
  BY <1>1
<1>5. Len(ws) = Length
  <2>1. PICK S : ws \in [1..Length -> S]
    <3>1. ws \in [1..Length -> {[web_state |-> p, opener |-> s[p]] : p \in 1..Length}]
      BY <1>1
    <3> QED
      BY <3>1
  <2> QED
    BY <2>1
<1>6. \A p \in 1..Length : ws[p].web_state = p /\ ws[p].opener = s[p]
  BY <1>1
<1> QED
  BY <1>3, <1>4, <1>5, <1>6 DEF InputsInv, ListInv, Init

\* The loops change none of their inputs.
THEOREM InputsStay == Spec => []InputsInv
<1>1. InputsInv /\ [Next]_vars => InputsInv'
  BY DEF InputsInv, ListInv, Next, Iterate, inputs, vars
<1> QED
  BY InputsInitially, <1>1, PTL DEF Spec

\* The two scans from the starting position.
LEMMA ScanIsRight ==
  InputsInv => ScanFindsNextAndLast
<1> SUFFICES ASSUME InputsInv PROVE ScanFindsNextAndLast
  OBVIOUS
<1>1. Len(ws) \in Nat /\ Len(ws) = Length /\ start \in 1..Len(ws)
  BY LengthAssumption DEF InputsInv, ListInv
<1>2. web_state # NoWebState
  BY LengthAssumption DEF InputsInv
<1>3. ASSUME NEW use_group \in BOOLEAN
      PROVE  Scan(web_state, start, use_group, 1)
               = GetIndexOfNextWebStateOpenedBy(ws, nav, web_state, start, use_group)
  BY <1>1, <1>2, ScanFindsNext
<1>4. ASSUME NEW use_group \in BOOLEAN
      PROVE  Scan(web_state, start, use_group, IntMax)
               = GetIndexOfLastWebStateOpenedBy(ws, nav, web_state, start, use_group)
  BY <1>1, <1>2, ScanFindsLast
<1> QED
  BY <1>3, <1>4 DEF ScanFindsNextAndLast

\* Whatever the length of the list, its openers and the starting position, the
\* loop of GetIndexOfNthWebStateOpenedBy computes what the order controller
\* reads it as: with n = 1 the next WebState of the opener to the right, round
\* the end of the list, with n = INT_MAX the last one.
THEOREM ScanAlwaysFindsNextAndLast == Spec => []ScanFindsNextAndLast
  BY InputsStay, ScanIsRight, PTL

----------------------------------------------------------------------------
(* DetermineNewActiveIndex.                                                *)

\* The nearest position of a non-empty set is one of its elements.
LEMMA NearestFound ==
  ASSUME Len(ws) \in Nat, NEW first \in 1..Len(ws),
         NEW S \in SUBSET (1..Len(ws)), S # {}
  PROVE  /\ FirstFrom(ws, first, S) \in S
         /\ \A q \in S : CyclicDistance(ws, first, FirstFrom(ws, first, S))
                           <= CyclicDistance(ws, first, q)
<1> DEFINE rank == [i \in S |-> CyclicDistance(ws, first, i)]
<1>1. rank \in [S -> Nat]
  BY DistanceDetermines
<1>2. \E i \in S : \A j \in S : rank[i] <= rank[j]
  <2> HIDE DEF rank
  <2> QED
    BY <1>1, LeastRankExists
<1>3. \E i \in S : \A j \in S :
        CyclicDistance(ws, first, i) <= CyclicDistance(ws, first, j)
  BY <1>2
<1> QED
  BY <1>3 DEF FirstFrom

\* If a tab stays, the last two loops of DetermineNewActiveIndex find one.
LEMMA ClosestStays ==
  ASSUME Len(ws) \in Nat, NEW active \in 1..Len(ws), NEW R,
         (1..Len(ws)) \ R # {}
  PROVE  ClosestRemaining(ws, R, active) \in (1..Len(ws)) \ R
<1> DEFINE staying == (1..Len(ws)) \ R
           after   == {i \in staying : i > active}
<1>1. CASE after # {}
  <2> DEFINE rank == [i \in after |-> i]
  <2>1. rank \in [after -> Nat]
    OBVIOUS
  <2>2. \E i \in after : \A j \in after : rank[i] <= rank[j]
    <3> HIDE DEF rank, after
    <3> QED
      BY <1>1, <2>1, LeastRankExists
  <2>3. \E i \in after : \A j \in after : i <= j
    BY <2>2
  <2>4. (CHOOSE i \in after : \A j \in after : i <= j) \in after
    BY <2>3
  <2> QED
    BY <1>1, <2>4 DEF ClosestRemaining
<1>2. CASE after = {}
  <2> DEFINE rank == [i \in staying |-> Len(ws) - i]
  <2>1. rank \in [staying -> Nat]
    OBVIOUS
  <2>2. \E i \in staying : \A j \in staying : rank[i] <= rank[j]
    <3> HIDE DEF rank
    <3> QED
      BY <2>1, LeastRankExists
  <2>3. PICK i \in staying : \A j \in staying : Len(ws) - i <= Len(ws) - j
    BY <2>2
  <2>4. \A j \in staying : i >= j
    BY <2>3
  <2>5. (CHOOSE k \in staying : \A j \in staying : k >= j) \in staying
    BY <2>4
  <2> QED
    BY <1>2, <2>5 DEF ClosestRemaining
<1> QED
  BY <1>1, <1>2

\* A position that stays ends up at its place among those that stay.
LEMMA PlaceAmongStaying ==
  ASSUME NEW l \in Nat, NEW R \in SUBSET (1..l), NEW p \in (1..l) \ R
  PROVE  /\ IndexAfterRemoval(R, p) = Cardinality({q \in (1..l) \ R : q <= p})
         /\ IndexAfterRemoval(R, p) \in Nat \ {kInvalidIndex}
<1> DEFINE A == {r \in R : r < p}
           B == {q \in (1..l) \ R : q <= p}
<1>1. IsFiniteSet(1..p) /\ Cardinality(1..p) = p
  BY FS_Interval
<1>2. A \in SUBSET (1..p) /\ B \in SUBSET (1..p) /\ A \cup B = 1..p /\ A \cap B = {}
  <2>1. A \subseteq 1..p /\ B \subseteq 1..p
    <3>1. p \in 1..l
      OBVIOUS
    <3>2. ASSUME NEW r \in A PROVE r \in 1..p
      <4>1. r \in 1..l /\ r < p
        OBVIOUS
      <4> QED
        BY <3>1, <4>1
    <3>3. ASSUME NEW q \in B PROVE q \in 1..p
      <4>1. q \in 1..l /\ q <= p
        OBVIOUS
      <4> QED
        BY <3>1, <4>1
    <3> QED
      BY <3>2, <3>3
  <2>2. ASSUME NEW q \in 1..p PROVE q \in A \/ q \in B
    <3>1. CASE q \in R
      BY <3>1
    <3>2. CASE q \notin R
      BY <3>2
    <3> QED
      BY <3>1, <3>2
  <2>3. A \cap B = {}
    OBVIOUS
  <2> HIDE DEF A, B
  <2> QED
    BY <2>1, <2>2, <2>3
<1>3. IsFiniteSet(A) /\ IsFiniteSet(B)
  <2> HIDE DEF A, B
  <2> QED
    BY <1>1, <1>2, FS_Subset
<1>4. B # {}
  BY DEF B
<1>5. p = Cardinality(A) + Cardinality(B)
  <2> HIDE DEF A, B
  <2>1. Cardinality(A \cup B) = Cardinality(A) + Cardinality(B) - Cardinality(A \cap B)
    BY <1>3, FS_Union
  <2>2. Cardinality(A \cap B) = 0 /\ Cardinality(A) \in Nat /\ Cardinality(B) \in Nat
    BY <1>2, <1>3, FS_EmptySet, FS_CardinalityType
  <2>3. Cardinality(A \cup B) = p
    BY <1>1, <1>2
  <2> QED
    BY <2>1, <2>2, <2>3
<1>6. Cardinality(A) \in Nat /\ Cardinality(B) \in Nat /\ Cardinality(B) # 0
  <2> HIDE DEF A, B
  <2> QED
    BY <1>3, <1>4, FS_EmptySet, FS_CardinalityType
<1>7. IndexAfterRemoval(R, p) = p - Cardinality(A)
  BY DEF IndexAfterRemoval
<1>8. IndexAfterRemoval(R, p) = Cardinality(B)
  <2> HIDE DEF A, B
  <2> QED
    BY <1>5, <1>6, <1>7
<1> QED
  BY <1>6, <1>8 DEF kInvalidIndex

\* The list is emptied exactly if as many positions are removed as it has.
LEMMA AllRemoved ==
  ASSUME NEW l \in Nat, NEW R \in SUBSET (1..l)
  PROVE  Cardinality(R) = l <=> (1..l) \ R = {}
<1>1. IsFiniteSet(1..l) /\ Cardinality(1..l) = l
  BY FS_Interval
<1>2. IsFiniteSet(R) /\ (Cardinality(1..l) = Cardinality(R) => 1..l = R)
  BY <1>1, FS_Subset
<1>3. (1..l) \ R = {} => 1..l = R
  OBVIOUS
<1> QED
  BY <1>1, <1>2, <1>3

\* Where a WebState that stays ends up.
Staying(new) ==
  LET staying == (1..Length) \ removing IN
  \E p \in staying : new = Cardinality({q \in staying : q <= p})

\* Where the search goes by IndexAfterRemoval, it goes to such a place.
LEMMA StayingPlace ==
  ASSUME InputsInv, NEW p \in (1..Length) \ removing
  PROVE  Staying(IndexAfterRemoval(removing, p))
<1>1. removing \in SUBSET (1..Length) /\ Length \in Nat
  BY LengthAssumption DEF InputsInv
<1>2. IndexAfterRemoval(removing, p) = Cardinality({q \in (1..Length) \ removing : q <= p})
  BY <1>1, PlaceAmongStaying
<1> QED
  BY <1>2 DEF Staying

\* The child or the sibling that the search finds stays.
LEMMA FoundStays ==
  ASSUME InputsInv, NEW opener,
         FindIndexOfNextNonRemovedWebStateOpenedBy(ws, nav, removing, opener, start)
           # kInvalidIndex
  PROVE  Staying(FindIndexOfNextNonRemovedWebStateOpenedBy(ws, nav, removing, opener, start))
<1> DEFINE S == OpenedBy(ws, nav, opener, FALSE) \ removing
<1>1. Len(ws) = Length /\ Len(ws) \in Nat /\ start \in 1..Len(ws)
  BY LengthAssumption DEF InputsInv, ListInv
<1>2. S \in SUBSET (1..Len(ws)) /\ S \cap removing = {}
  BY DEF OpenedBy
<1>3. S # {} /\ FindIndexOfNextNonRemovedWebStateOpenedBy(ws, nav, removing, opener, start)
                  = IndexAfterRemoval(removing, FirstFrom(ws, start, S))
  BY DEF FindIndexOfNextNonRemovedWebStateOpenedBy
<1>4. FirstFrom(ws, start, S) \in S
  <2> HIDE DEF S
  <2> QED
    BY <1>1, <1>2, <1>3, NearestFound
<1>5. PICK p \in (1..Length) \ removing : p = FirstFrom(ws, start, S)
  <2> HIDE DEF S
  <2> QED
    BY <1>1, <1>2, <1>4
<1> QED
  <2> HIDE DEF S
  <2> QED
    BY <1>3, <1>5, StayingPlace

\* The opener, if it stays.
LEMMA ParentStays ==
  ASSUME InputsInv, NEW opener \in 0..Length, opener # NoWebState,
         IndexAfterRemoval(removing, GetIndexOfWebState(ws, opener)) # kInvalidIndex
  PROVE  Staying(IndexAfterRemoval(removing, GetIndexOfWebState(ws, opener)))
<1>1. opener \in 1..Length /\ Len(ws) = Length /\ Length \in Nat
  BY LengthAssumption DEF InputsInv, ListInv
<1>2. ws[opener].web_state = opener
  BY <1>1 DEF InputsInv, ListInv
<1>3. PICK i : i = GetIndexOfWebState(ws, opener)
  OBVIOUS
<1>4. i \in 1..Length
  BY <1>1, <1>2, <1>3 DEF GetIndexOfWebState, InList
<1>5. i \notin removing
  BY <1>3 DEF IndexAfterRemoval
<1> QED
  BY <1>3, <1>4, <1>5, StayingPlace

\* Child, sibling, opener or neighbour: each of them stays.
LEMMA NewActiveIsRight ==
  InputsInv => NewActiveStays
<1> SUFFICES ASSUME InputsInv PROVE NewActiveStays
  OBVIOUS
<1> DEFINE opener  == ws[start].opener.opener
           child   == FindIndexOfNextNonRemovedWebStateOpenedBy(
                        ws, nav, removing, ws[start].web_state, start)
           sibling == FindIndexOfNextNonRemovedWebStateOpenedBy(
                        ws, nav, removing, opener, start)
           parent  == IndexAfterRemoval(removing, GetIndexOfWebState(ws, opener))
           closest == IndexAfterRemoval(removing, ClosestRemaining(ws, removing, start))
           new     == DetermineNewActiveIndex(ws, nav, start, removing)
<1>1. /\ WebStates = 1..Length /\ Length \in Nat /\ Len(ws) = Length
      /\ removing \in SUBSET (1..Length) /\ start \in 1..Length /\ start \in removing
  BY LengthAssumption DEF InputsInv, ListInv
<1>2. Cardinality(removing) = Length <=> (1..Length) \ removing = {}
  BY <1>1, AllRemoved
<1>3. new = IF Cardinality(removing) = Length THEN kInvalidIndex
            ELSE IF child # kInvalidIndex THEN child
            ELSE IF opener # NoWebState /\ sibling # kInvalidIndex THEN sibling
            ELSE IF opener # NoWebState /\ parent # kInvalidIndex THEN parent
            ELSE closest
  <2>1. start # kInvalidIndex
    BY <1>1 DEF kInvalidIndex
  <2> QED
    BY <1>1, <2>1 DEF DetermineNewActiveIndex
<1>4. child # kInvalidIndex => Staying(child)
  BY FoundStays
<1>5. sibling # kInvalidIndex => Staying(sibling)
  BY FoundStays
<1>6. opener # NoWebState /\ parent # kInvalidIndex => Staying(parent)
  <2>1. opener \in 0..Length
    BY <1>1 DEF InputsInv, ListInv
  <2> QED
    BY <2>1, ParentStays
<1>7. (1..Length) \ removing # {} => Staying(closest)
  <2> SUFFICES ASSUME (1..Length) \ removing # {} PROVE Staying(closest)
    OBVIOUS
  <2>1. ClosestRemaining(ws, removing, start) \in (1..Length) \ removing
    BY <1>1, ClosestStays
  <2> QED
    BY <2>1, StayingPlace
<1> HIDE DEF new, child, sibling, parent, closest, opener
<1>8. IF (1..Length) \ removing = {} THEN new = kInvalidIndex ELSE Staying(new)
  BY <1>2, <1>3, <1>4, <1>5, <1>6, <1>7
<1> QED
  BY <1>1, <1>8 DEF NewActiveStays, Staying, new

\* Whatever the list, its openers and the tabs removed from it, the index that
\* DetermineNewActiveIndex answers is the place that one of the staying tabs
\* will have, and there is none exactly if none stays.
THEOREM NewActiveAlwaysStays == Spec => []NewActiveStays
  BY InputsStay, NewActiveIsRight, PTL

----------------------------------------------------------------------------
(* The loop of FindIndexOfNextNonRemovedWebStateOpenedBy.                  *)

\* The WebStates it looks for, and how far from the starting position a
\* position is.
Opened == OpenedBy(ws, nav, web_state, FALSE)

Away(p) == CyclicDistance(ws, start, p)

\* What the loop knows on each iteration.  Before the first child it knows
\* nothing.  Then `children' holds everyone it has walked past, each of them
\* removed, up to the child where it will go on.  If it comes round to the
\* starting position itself, opened by the same WebState, nobody is left.
LoopInv ==
  IF result = Running
  THEN \/ children = {} /\ starting_index = start
       \/ /\ starting_index # start /\ starting_index \in Opened
          /\ children = {c \in Opened : c # start /\ Away(c) <= Away(starting_index)}
          /\ children \subseteq removing
       \/ /\ starting_index = start /\ start \in Opened
          /\ children = Opened /\ Opened \subseteq removing
  ELSE result = FindIndexOfNextNonRemovedWebStateOpenedBy(ws, nav, removing,
                                                          web_state, start)

\* Distances from another position of the list.
LEMMA DistanceFromOther ==
  ASSUME Len(ws) \in Nat, start \in 1..Len(ws), NEW s \in 1..Len(ws), NEW p \in 1..Len(ws)
  PROVE  CyclicDistance(ws, s, p)
           = IF Away(p) >= Away(s) THEN Away(p) - Away(s)
             ELSE (Away(p) - Away(s)) + Len(ws)
<1>1. PICK l \in Nat : l = Len(ws)
  OBVIOUS
<1>2. PICK a \in 1..l : a = start
  BY <1>1
<1>3. p \in 1..l /\ s \in 1..l
  BY <1>1
<1>4. PICK x : x = IF p >= a THEN p - a ELSE (p + l) - a
  OBVIOUS
<1>5. PICK y : y = IF s >= a THEN s - a ELSE (s + l) - a
  OBVIOUS
<1>6. PICK z : z = IF p >= s THEN p - s ELSE (p + l) - s
  OBVIOUS
<1>7. z = IF x >= y THEN x - y ELSE (x - y) + l
  <2>1. CASE p >= a /\ s >= a
    BY <1>3, <1>4, <1>5, <1>6, <2>1
  <2>2. CASE p >= a /\ s < a
    BY <1>3, <1>4, <1>5, <1>6, <2>2
  <2>3. CASE p < a /\ s >= a
    BY <1>3, <1>4, <1>5, <1>6, <2>3
  <2>4. CASE p < a /\ s < a
    BY <1>3, <1>4, <1>5, <1>6, <2>4
  <2> QED
    BY <1>3, <2>1, <2>2, <2>3, <2>4
<1>8. Away(p) = x /\ Away(s) = y /\ CyclicDistance(ws, s, p) = z
  BY <1>1, <1>2, <1>4, <1>5, <1>6 DEF CyclicDistance, Away
<1> QED
  BY <1>1, <1>7, <1>8

\* The next child from a position: the nearest one further away from the start,
\* or, if there is none, the one nearest to the start.
NextFrom(s, c) ==
  /\ c \in Opened \ {s}
  /\ IF Away(c) > Away(s)
     THEN \A q \in Opened : Away(q) > Away(s) => Away(q) >= Away(c)
     ELSE \A q \in Opened \ {s} : Away(q) <= Away(s) /\ Away(q) >= Away(c)

LEMMA ScanGoesOn ==
  ASSUME InputsInv, NEW s \in 1..Len(ws)
  PROVE  IF Opened \ {s} = {} THEN Scan(web_state, s, FALSE, 1) = kInvalidIndex
         ELSE NextFrom(s, Scan(web_state, s, FALSE, 1))
<1>1. Len(ws) \in Nat /\ start \in 1..Len(ws) /\ web_state # NoWebState
  BY LengthAssumption DEF InputsInv, ListInv
<1>2. Opened \subseteq 1..Len(ws)
  BY DEF Opened, OpenedBy
<1>3. Scan(web_state, s, FALSE, 1)
        = GetIndexOfNextWebStateOpenedBy(ws, nav, web_state, s, FALSE)
  BY <1>1, ScanFindsNext
<1>4. GetIndexOfNextWebStateOpenedBy(ws, nav, web_state, s, FALSE)
        = IF Opened \ {s} = {} THEN kInvalidIndex ELSE FirstFrom(ws, s, Opened \ {s})
  BY <1>1 DEF GetIndexOfNextWebStateOpenedBy, ContainsIndex, Opened
<1>5. ASSUME Opened \ {s} # {} PROVE NextFrom(s, FirstFrom(ws, s, Opened \ {s}))
  <2>1. PICK S \in SUBSET (1..Len(ws)) : S = Opened \ {s}
    BY <1>2
  <2>2. PICK c \in S : /\ c = FirstFrom(ws, s, S)
                       /\ \A q \in S : CyclicDistance(ws, s, c) <= CyclicDistance(ws, s, q)
    BY <1>1, <1>5, <2>1, NearestFound
  <2>3. \A p \in 1..Len(ws) : Away(p) \in 0..(Len(ws) - 1) /\ (Away(p) = Away(s) => p = s)
    BY <1>1, DistanceDetermines DEF Away
  <2>4. \A p \in 1..Len(ws) : CyclicDistance(ws, s, p)
           = IF Away(p) >= Away(s) THEN Away(p) - Away(s)
             ELSE (Away(p) - Away(s)) + Len(ws)
    BY <1>1, DistanceFromOther
  <2>5. ASSUME NEW q \in S
        PROVE  IF Away(c) > Away(s) THEN Away(q) > Away(s) => Away(q) >= Away(c)
               ELSE Away(q) <= Away(s) /\ Away(q) >= Away(c)
    <3>1. c \in 1..Len(ws) /\ c # s /\ q \in 1..Len(ws) /\ q # s
      BY <2>1
    <3>2. /\ Away(c) \in Int /\ Away(q) \in Int /\ Away(s) \in Int
          /\ Away(c) < Len(ws) /\ Away(c) # Away(s) /\ Away(c) >= 0
          /\ Away(q) < Len(ws) /\ Away(q) # Away(s) /\ Away(q) >= 0
      BY <1>1, <2>3, <3>1
    <3>3. CyclicDistance(ws, s, c) <= CyclicDistance(ws, s, q)
      BY <2>2
    <3> QED
      BY <1>1, <2>4, <3>1, <3>2, <3>3
  <2>6. Away(c) > Away(s) => \A q \in Opened : Away(q) > Away(s) => Away(q) >= Away(c)
    <3> SUFFICES ASSUME Away(c) > Away(s), NEW q \in Opened, Away(q) > Away(s)
                 PROVE  Away(q) >= Away(c)
      OBVIOUS
    <3>1. Away(s) \in Int
      BY <1>1, <2>3
    <3>2. q # s
      BY <3>1
    <3> QED
      BY <2>1, <2>5, <3>2
  <2> QED
    BY <2>1, <2>2, <2>5, <2>6 DEF NextFrom
<1> QED
  BY <1>3, <1>4, <1>5

\* An iteration keeps it, or ends the loop with the right answer.
LEMMA LoopSteps ==
  ASSUME InputsInv, LoopInv, Next
  PROVE  LoopInv'
<1>1. /\ Len(ws) \in Nat /\ Len(ws) = Length /\ start \in 1..Len(ws) /\ start \in removing
      /\ removing \in SUBSET (1..Length)
  BY LengthAssumption DEF InputsInv, ListInv
<1>2. Opened \subseteq 1..Len(ws)
  BY DEF Opened, OpenedBy
<1>3. result = Running /\ UNCHANGED inputs
  BY DEF Next, Iterate
<1>4. Opened' = Opened /\ (\A p : Away(p)' = Away(p))
  BY <1>3 DEF Opened, Away, inputs
<1>5. starting_index \in 1..Len(ws)
  BY <1>1, <1>2, <1>3 DEF LoopInv
<1>6. \A p \in 1..Len(ws) : /\ Away(p) \in Int /\ Away(p) >= 0
                            /\ Away(p) = 0 <=> p = start
  BY <1>1, DistanceDetermines DEF Away
<1>7. \A p, q \in 1..Len(ws) : Away(p) = Away(q) => p = q
  BY <1>1, DistanceDetermines DEF Away
<1>8. PICK child : child = Scan(web_state, starting_index, FALSE, 1)
  OBVIOUS
<1>9. IF Opened \ {starting_index} = {} THEN child = kInvalidIndex
      ELSE NextFrom(starting_index, child)
  BY <1>5, <1>8, ScanGoesOn
<1>10. PICK answer : answer = FindIndexOfNextNonRemovedWebStateOpenedBy(
                                ws, nav, removing, web_state, start)
  OBVIOUS
<1>11. answer = IF Opened \ removing = {} THEN kInvalidIndex
                ELSE IndexAfterRemoval(removing, FirstFrom(ws, start, Opened \ removing))
  BY <1>10 DEF FindIndexOfNextNonRemovedWebStateOpenedBy, Opened
<1>12. FindIndexOfNextNonRemovedWebStateOpenedBy(ws, nav, removing, web_state, start)'
         = answer
  BY <1>3, <1>10 DEF inputs
<1>13. kInvalidIndex \notin Opened
  BY <1>2 DEF kInvalidIndex
<1>14. \A p \in 1..Len(ws) : IndexAfterRemoval(removing, p) = kInvalidIndex <=> p \in removing
  <2>1. ASSUME NEW p \in 1..Len(ws), p \notin removing
        PROVE  IndexAfterRemoval(removing, p) # kInvalidIndex
    BY <1>1, <2>1, PlaceAmongStaying
  <2> QED
    BY <2>1 DEF IndexAfterRemoval
<1>15. PICK after : after = IndexAfterRemoval(removing, child)
  OBVIOUS
\* The two ways to end: with nothing, and with the nearest child that stays.
<1>16. ASSUME result' = kInvalidIndex, Opened \subseteq removing PROVE LoopInv'
  BY <1>11, <1>12, <1>16 DEF LoopInv, Running, kInvalidIndex
<1>17. ASSUME child \in Opened \ removing,
              \A q \in Opened \ removing : Away(child) <= Away(q),
              result' = IndexAfterRemoval(removing, child)
       PROVE  LoopInv'
  <2>1. PICK S \in SUBSET (1..Len(ws)) : S = Opened \ removing
    BY <1>2
  <2>2. FirstFrom(ws, start, S) = child
    BY <1>1, <1>17, <2>1, NearestIsFirst DEF Away
  <2>3. answer = IndexAfterRemoval(removing, child)
    BY <1>11, <1>17, <2>1, <2>2
  <2>4. IndexAfterRemoval(removing, child) \in Nat
    <3>1. child \in (1..Length) \ removing /\ Length \in Nat
      BY <1>1, <1>2, <1>17
    <3> QED
      BY <1>1, <3>1, PlaceAmongStaying
  <2> QED
    BY <1>12, <1>17, <2>3, <2>4 DEF LoopInv, Running
\* The three things the loop may know.
<1>18. CASE children = {} /\ starting_index = start
  <2>1. CASE Opened \ {start} = {}
    <3>1. child = kInvalidIndex /\ Opened \subseteq removing
      BY <1>1, <1>9, <1>18, <2>1
    <3>2. result' = kInvalidIndex
      BY <1>8, <3>1 DEF Next, Iterate
    <3> QED
      BY <1>16, <3>1, <3>2
  <2>2. CASE Opened \ {start} # {}
    <3>1. NextFrom(start, child)
      BY <1>9, <1>18, <2>2
    <3>2. /\ child \in Opened /\ child # start /\ child \in 1..Len(ws)
          /\ Away(child) > Away(start)
          /\ \A q \in Opened : q # start => Away(q) >= Away(child)
      BY <1>1, <1>2, <1>6, <3>1 DEF NextFrom
    <3>3. child # kInvalidIndex /\ child \notin children
      BY <1>13, <1>18, <3>2
    <3>4. CASE child \in removing
      <4>1. children' = {child} /\ starting_index' = child /\ result' = Running
        BY <1>3, <1>8, <1>14, <1>18, <3>2, <3>3, <3>4 DEF Next, Iterate
      <4>2. ASSUME NEW c \in Opened, c # start, Away(c) <= Away(child) PROVE c = child
        <5>1. c \in 1..Len(ws) /\ Away(c) \in Int /\ Away(child) \in Int
          BY <1>2, <1>6, <3>2
        <5>2. Away(c) = Away(child)
          BY <3>2, <4>2, <5>1
        <5> QED
          BY <1>7, <3>2, <5>1, <5>2
      <4>3. {child} = {c \in Opened : c # start /\ Away(c) <= Away(child)}
        <5>1. Away(child) <= Away(child)
          BY <1>6, <3>2
        <5> QED
          BY <3>2, <4>2, <5>1
      <4> QED
        BY <1>3, <1>4, <3>2, <3>4, <4>1, <4>3 DEF LoopInv, inputs
    <3>5. CASE child \notin removing
      <4>1. result' = IndexAfterRemoval(removing, child)
        BY <1>8, <1>14, <3>2, <3>3, <3>5 DEF Next, Iterate
      <4>2. child \in Opened \ removing /\ \A q \in Opened \ removing : Away(child) <= Away(q)
        BY <1>1, <1>2, <1>6, <3>2, <3>5
      <4> QED
        BY <1>17, <4>1, <4>2
    <3> QED
      BY <3>4, <3>5
  <2> QED
    BY <2>1, <2>2
<1>19. CASE /\ starting_index # start /\ starting_index \in Opened
            /\ children = {c \in Opened : c # start /\ Away(c) <= Away(starting_index)}
            /\ children \subseteq removing
  <2>1. Away(starting_index) \in Int /\ Away(start) = 0 /\ Away(starting_index) > 0
    BY <1>1, <1>5, <1>6, <1>19
  <2>2. \A c \in Opened : Away(c) <= Away(starting_index) => c \in removing
    BY <1>1, <1>19
  <2>3. CASE Opened \ {starting_index} = {}
    <3>1. child = kInvalidIndex /\ Opened \subseteq removing
      BY <1>9, <1>19, <2>1, <2>2, <2>3
    <3>2. result' = kInvalidIndex
      BY <1>8, <3>1 DEF Next, Iterate
    <3> QED
      BY <1>16, <3>1, <3>2
  <2>4. CASE Opened \ {starting_index} # {}
    <3>1. NextFrom(starting_index, child)
      BY <1>9, <2>4
    <3>2. child \in Opened /\ child # kInvalidIndex /\ child \in 1..Len(ws) /\ Away(child) \in Int
      BY <1>2, <1>6, <1>13, <3>1 DEF NextFrom
    <3>3. CASE Away(child) > Away(starting_index)
      <4>1. \A q \in Opened : Away(q) > Away(starting_index) => Away(q) >= Away(child)
        BY <3>1, <3>3 DEF NextFrom
      <4>2. child \notin children /\ child # start
        BY <1>19, <2>1, <3>2, <3>3
      <4>3. CASE child \in removing
        <5>1. /\ children' = children \cup {child} /\ starting_index' = child
              /\ result' = Running
          BY <1>3, <1>8, <1>14, <3>2, <4>2, <4>3 DEF Next, Iterate
        <5>2. ASSUME NEW c \in Opened, c # start
              PROVE  Away(c) <= Away(child) <=> c \in children \/ c = child
          <6>1. c \in 1..Len(ws) /\ Away(c) \in Int
            BY <1>2, <1>6
          <6>2. CASE Away(c) <= Away(starting_index)
            BY <1>19, <2>1, <3>2, <3>3, <5>2, <6>1, <6>2
          <6>3. CASE Away(c) > Away(starting_index)
            <7>1. Away(c) >= Away(child) /\ c \notin children
              BY <1>19, <2>1, <4>1, <6>1, <6>3
            <7>2. Away(c) = Away(child) <=> c = child
              BY <1>7, <3>2, <6>1
            <7> QED
              BY <3>2, <6>1, <7>1, <7>2
          <6> QED
            BY <2>1, <6>1, <6>2, <6>3
        <5>3. children \cup {child} = {c \in Opened : c # start /\ Away(c) <= Away(child)}
          <6>1. \A c \in children : c \in Opened /\ c # start
            BY <1>19
          <6> QED
            BY <3>2, <4>2, <5>2, <6>1
        <5> QED
          BY <1>3, <1>4, <1>19, <3>2, <4>2, <4>3, <5>1, <5>3 DEF LoopInv, inputs
      <4>4. CASE child \notin removing
        <5>1. result' = IndexAfterRemoval(removing, child)
          BY <1>8, <1>14, <3>2, <4>2, <4>4 DEF Next, Iterate
        <5>2. \A q \in Opened \ removing : Away(child) <= Away(q)
          <6> SUFFICES ASSUME NEW q \in Opened \ removing PROVE Away(child) <= Away(q)
            OBVIOUS
          <6>1. Away(q) \in Int /\ ~(Away(q) <= Away(starting_index))
            BY <1>2, <1>6, <2>2
          <6> QED
            BY <2>1, <3>2, <4>1, <6>1
        <5> QED
          BY <1>17, <3>2, <4>4, <5>1, <5>2
      <4> QED
        BY <4>3, <4>4
    <3>4. CASE ~(Away(child) > Away(starting_index))
      <4>1. \A q \in Opened \ {starting_index} :
              Away(q) <= Away(starting_index) /\ Away(q) >= Away(child)
        BY <3>1, <3>4 DEF NextFrom
      <4>2. \A q \in Opened : Away(q) <= Away(starting_index)
        BY <2>1, <4>1
      <4>3. Opened \subseteq removing
        BY <2>2, <4>2
      <4>4. CASE child \in children
        <5>1. result' = kInvalidIndex
          BY <1>8, <4>4 DEF Next, Iterate
        <5> QED
          BY <1>16, <4>3, <5>1
      <4>5. CASE child \notin children
        <5>1. child = start
          BY <1>19, <3>2, <4>2, <4>5
        <5>2. Opened = children \cup {child}
          BY <1>19, <3>2, <4>2, <5>1
        <5>3. /\ children' = children \cup {child} /\ starting_index' = child
              /\ result' = Running
          BY <1>3, <1>8, <1>14, <3>2, <4>3, <4>5 DEF Next, Iterate
        <5> QED
          BY <1>3, <1>4, <3>2, <4>3, <5>1, <5>2, <5>3 DEF LoopInv, inputs
      <4> QED
        BY <4>4, <4>5
    <3> QED
      BY <3>3, <3>4
  <2> QED
    BY <2>3, <2>4
<1>20. CASE /\ starting_index = start /\ start \in Opened
            /\ children = Opened /\ Opened \subseteq removing
  <2>1. child = kInvalidIndex \/ child \in children
    BY <1>9, <1>20 DEF NextFrom
  <2>2. result' = kInvalidIndex
    BY <1>8, <2>1 DEF Next, Iterate
  <2> QED
    BY <1>16, <1>20, <2>2
<1> QED
  BY <1>3, <1>18, <1>19, <1>20 DEF LoopInv

\* What the loop of FindIndexOfNextNonRemovedWebStateOpenedBy knows is true on
\* every iteration.
THEOREM LoopInvIsInvariant == Spec => [](InputsInv /\ LoopInv)
<1>1. Init => LoopInv
  BY DEF Init, LoopInv
<1>2. InputsInv /\ LoopInv /\ [Next]_vars => LoopInv'
  <2> SUFFICES ASSUME InputsInv, LoopInv, [Next]_vars PROVE LoopInv'
    OBVIOUS
  <2>1. CASE Next
    BY <2>1, LoopSteps
  <2>2. CASE UNCHANGED vars
    BY <2>2 DEF vars, LoopInv, Opened, Away
  <2> QED
    BY <2>1, <2>2
<1> QED
  BY <1>1, <1>2, InputsStay, PTL DEF Spec

\* Whatever the length of the list, the openers and the removed tabs, the loop
\* that goes from child to child answers where the nearest child that stays
\* will be: moving the starting position along, and giving up at the first
\* child met twice, skips nobody.
THEOREM LoopAlwaysFindsNearestStayingChild == Spec => []LoopFindsNearestStayingChild
<1>1. LoopInv => LoopFindsNearestStayingChild
  BY DEF LoopInv, LoopFindsNearestStayingChild
<1> QED
  BY <1>1, LoopInvIsInvariant, PTL

\* The variant of the unbounded loop: an iteration that does not end it adds a
\* child that it had not met, and children are positions of the list.
EveryIterationMeetsNewChild ==
  [][result' = Running =>
       \E c \in (1..Length) \ children : children' = children \cup {c}]_vars

\* The loop ends whatever the length of the list: the children are positions
\* of the list, and an iteration that does not end the loop adds one, so no
\* list makes it go round more than Length + 1 times.
THEOREM LoopIsBounded == Spec => [](children \subseteq 1..Length) /\ EveryIterationMeetsNewChild
<1>1. InputsInv /\ LoopInv /\ result = Running => starting_index \in 1..Len(ws)
  BY LengthAssumption DEF InputsInv, ListInv, LoopInv, Opened, OpenedBy
<1>2. ASSUME InputsInv, LoopInv, [Next]_vars
      PROVE  [result' = Running
                => \E c \in (1..Length) \ children : children' = children \cup {c}]_vars
  <2>1. CASE UNCHANGED vars
    BY <2>1
  <2>2. CASE Next
    <3> SUFFICES ASSUME result' = Running
                 PROVE  \E c \in (1..Length) \ children : children' = children \cup {c}
      OBVIOUS
    <3>1. PICK child : child = Scan(web_state, starting_index, FALSE, 1)
      OBVIOUS
    <3>2. result = Running /\ starting_index \in 1..Len(ws) /\ Len(ws) = Length
      BY <1>1, <1>2, <2>2 DEF Next, Iterate, InputsInv, ListInv
    <3>3. IF Opened \ {starting_index} = {} THEN child = kInvalidIndex
          ELSE NextFrom(starting_index, child)
      BY <1>2, <3>1, <3>2, ScanGoesOn
    <3>4. child # kInvalidIndex => child \in 1..Length
      BY <3>2, <3>3 DEF NextFrom, Opened, OpenedBy
    <3>5. CASE child = kInvalidIndex \/ child \in children
      <4>1. result' = kInvalidIndex
        BY <2>2, <3>1, <3>5 DEF Next, Iterate
      <4> QED
        BY <4>1 DEF Running, kInvalidIndex
    <3>6. CASE child # kInvalidIndex /\ child \notin children
      <4>1. CASE IndexAfterRemoval(removing, child) = kInvalidIndex
        <5>1. children' = children \cup {child}
          BY <2>2, <3>1, <3>6, <4>1 DEF Next, Iterate
        <5> QED
          BY <3>4, <3>6, <5>1
      <4>2. CASE IndexAfterRemoval(removing, child) # kInvalidIndex
        <5>1. result' = IndexAfterRemoval(removing, child)
          BY <2>2, <3>1, <3>6, <4>2 DEF Next, Iterate
        <5>2. child \in (1..Length) \ removing /\ removing \in SUBSET (1..Length)
          BY <1>2, <3>4, <3>6, <4>2 DEF IndexAfterRemoval, InputsInv
        <5>3. result' \in Nat
          BY <5>1, <5>2, LengthAssumption, PlaceAmongStaying
        <5> QED
          BY <5>3 DEF Running
      <4> QED
        BY <4>1, <4>2
    <3> QED
      BY <3>5, <3>6
  <2> QED
    BY <1>2, <2>1, <2>2
<1>3. Init => children \subseteq 1..Length
  BY DEF Init
<1>4. children \subseteq 1..Length
        /\ [result' = Running
              => \E c \in (1..Length) \ children : children' = children \cup {c}]_vars
        /\ [Next]_vars
      => (children \subseteq 1..Length)'
  BY DEF Next, Iterate, vars
<1> QED
  BY <1>2, <1>3, <1>4, LoopInvIsInvariant, PTL DEF Spec, EveryIterationMeetsNewChild
=============================================================================
