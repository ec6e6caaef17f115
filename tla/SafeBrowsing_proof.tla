------------------------- MODULE SafeBrowsing_proof -------------------------
(* Proofs about SafeBrowsing, for any set of URLs, any number of checks, any   *)
(* length of redirect chains and any number of sub frames: the types, that the *)
(* tab implements ResponsePolicy, that an error has its resource, and that     *)
(* whoever waits has a check to wait for.                                      *)
EXTENDS SafeBrowsing, ListLemmas

-----------------------------------------------------------------------------
(* The invariants that the theorems rest on.                                   *)

(* What a phase of the navigation says about the decider.                      *)
PhaseOK ==
  /\ nav.phase \in {"requested", "redirecting", "responding"} => decider.pending # Null
  /\ nav.phase = "redirecting" => /\ decider.previous # Null
                                  /\ Len(decider.chain) < MaxChain
  /\ nav.phase = "responding" => decider.previous = Null /\ decider.callback
  /\ decider.callback => nav.phase \in {"responding", "idle"}

NotAllowed(query, u) == query.url = u /\ query.decision # "allow"

(* A URL of the navigation that was not found safe has a query that will not   *)
(* let the response through, and that query is not forgotten: the chain is     *)
(* kept by a response unless there is a previous query, which then belongs to  *)
(* an earlier navigation.                                                      *)
NavigationCovered ==
  nav.phase \in {"requested", "redirecting", "responding"} =>
    \A u \in nav.asked \ nav.okay :
      \/ NotAllowed(decider.pending, u)
      \/ nav.phase = "redirecting" /\ NotAllowed(decider.previous, u)
      \/ /\ nav.phase = "redirecting" \/ decider.previous = Null
         /\ \E k \in DOMAIN decider.chain : NotAllowed(decider.chain[k], u)

(* Places of queries: 0 is the pending one and NotFound the previous one.      *)
QueryAt(k) == IF k = 0 THEN decider.pending
              ELSE IF k = NotFound THEN decider.previous ELSE decider.chain[k]

AwaitedPlaces ==
  {k \in DOMAIN decider.chain \cup {0, NotFound} :
     /\ QueryAt(k) # Null
     /\ QueryAt(k).decision = Undecided
     /\ QueryAt(k).url \notin overtaken}

Awaits(f) ==
  /\ \A k, l \in AwaitedPlaces : f[k] = f[l] => k = l
  /\ \A k \in AwaitedPlaces : /\ results[f[k]].stage # "free"
                              /\ results[f[k]].frame = "main"
                              /\ results[f[k]].url = QueryAt(k).url

(* Every undecided query whose answer was not thrown away has a check of its   *)
(* own.  One check per URL is not enough: the answers of a URL that occurs     *)
(* twice are given to the oldest query, not to the one they were asked for.    *)
QueriesAwaited == \E f \in [AwaitedPlaces -> Checks] : Awaits(f)

ResponseUndecided ==
  nav.phase = "responding" => RedirectChainDecision(decider) = Undecided

(* A frame that is not decided has a check under way for every item under      *)
(* which an answer is expected: any of them may be the committed one again.    *)
FramesAwaited ==
  \A u \in frames :
    /\ decider.sub[u].waiting => decider.sub[u].there /\ decider.sub[u].decision = Undecided
    /\ \A i \in Items : <<u, i>> \in expected =>
         /\ decider.sub[u].there
         /\ decider.sub[u].decision = Undecided => Outstanding(u, i)
-----------------------------------------------------------------------------
(* Types.                                                                      *)

LEMMA InitTyped == Init => TypeOK /\ PhaseOK
<1> SUFFICES ASSUME Init PROVE TypeOK /\ PhaseOK
  OBVIOUS
<1>1. decider \in Deciders /\ Len(decider.chain) <= MaxChain
  <2>1. NoFrame \in [there : BOOLEAN, decision : Decisions \cup {Undecided}, waiting : BOOLEAN]
    BY DEF NoFrame
  <2>2. << >> \in Seq(Queries) /\ Len(<< >>) <= MaxChain
    BY SafeBrowsingAssumption
  <2> QED
    BY <2>1, <2>2 DEF Init, Deciders
<1>2. results \in [Checks -> Results]
  BY DEF Init, Results, NoCheck
<1>3. nav \in Navigations
  BY DEF Init, Navigations, Idle
<1>4. PhaseOK
  BY DEF Init, PhaseOK, Idle
<1> QED
  BY <1>1, <1>2, <1>3, <1>4 DEF Init, TypeOK

(* A check that starts is typed.                                               *)
LEMMA StartQueryTyped ==
  ASSUME TypeOK, NEW u \in URLs, NEW frame \in {"main"} \cup Items, StartQuery(u, frame)
  PROVE  results' \in [Checks -> Results]
  BY DEF TypeOK, StartQuery, Results

(* ShouldAllowRequest tracks a pending query and no longer waits.              *)
LEMMA ShouldAllowMainRequestTyped ==
  ASSUME TypeOK, NEW u \in URLs, NEW reload \in BOOLEAN, ShouldAllowMainRequest(u, reload),
         UNCHANGED frames
  PROVE  /\ decider' \in Deciders'
         /\ decider'.chain = decider.chain
         /\ decider'.pending # Null
         /\ decider'.pending.url = u
         /\ decider'.pending.decision \in {Undecided, "error"}
         /\ decider'.previous = IF decider.pending # Null THEN decider.pending ELSE decider.previous
         /\ decider'.sub = decider.sub
         /\ ~decider'.callback
         /\ results' \in [Checks -> Results]
<1> DEFINE tracked == [decider EXCEPT
                         !.previous = IF decider.pending # Null THEN decider.pending ELSE @,
                         !.pending = MainFrameUrlQuery(u), !.callback = FALSE]
           failed == [tracked EXCEPT !.pending.decision = "error"]
<1>1. /\ MainFrameUrlQuery(u) \in Queries
      /\ [MainFrameUrlQuery(u) EXCEPT !.decision = "error"] \in Queries
  BY DEF MainFrameUrlQuery, Queries, Decisions, Blocking
<1>2. /\ tracked \in Deciders
      /\ tracked.chain = decider.chain /\ tracked.sub = decider.sub
      /\ tracked.pending = MainFrameUrlQuery(u)
      /\ tracked.previous = IF decider.pending # Null THEN decider.pending ELSE decider.previous
      /\ ~tracked.callback
  BY <1>1 DEF TypeOK, Deciders
<1> HIDE DEF tracked
<1>3. /\ failed \in Deciders
      /\ failed.chain = decider.chain /\ failed.sub = decider.sub
      /\ failed.pending = [MainFrameUrlQuery(u) EXCEPT !.decision = "error"]
      /\ failed.previous = tracked.previous
      /\ ~failed.callback
  BY <1>1, <1>2 DEF Deciders
<1>4. \/ decider' = failed /\ results' = results
      \/ decider' = tracked /\ StartQuery(u, "main")
  BY DEF ShouldAllowMainRequest, tracked
<1>5. Deciders' = Deciders
  BY DEF Deciders
<1>6. results' \in [Checks -> Results]
  BY <1>4, StartQueryTyped DEF TypeOK
<1>7. /\ MainFrameUrlQuery(u).url = u /\ MainFrameUrlQuery(u).decision = Undecided
      /\ [MainFrameUrlQuery(u) EXCEPT !.decision = "error"].url = u
      /\ [MainFrameUrlQuery(u) EXCEPT !.decision = "error"].decision = "error"
  BY DEF MainFrameUrlQuery
<1>8. \A q \in Queries : q # Null
  BY SafeBrowsingAssumption
<1> HIDE DEF failed
<1>9. CASE decider' = failed
  BY <1>1, <1>2, <1>3, <1>5, <1>6, <1>7, <1>8, <1>9
<1>10. CASE decider' = tracked
  BY <1>1, <1>2, <1>5, <1>6, <1>7, <1>8, <1>10
<1> QED
  BY <1>4, <1>9, <1>10

(* What MainFrameRedirectChainDecision tells about the queries it looked at.   *)
LEMMA VerdictFacts ==
  ASSUME NEW d, d.pending \in Queries, d.chain \in Seq(Queries)
  PROVE  /\ RedirectChainDecision(d) \in Decisions \cup {Undecided}
         /\ RedirectChainDecision(d) = "allow" =>
              /\ d.pending.decision = "allow"
              /\ \A k \in DOMAIN d.chain : d.chain[k].decision = "allow"
         /\ RedirectChainDecision(d) = Undecided =>
              \/ d.pending.decision = Undecided
              \/ \E k \in DOMAIN d.chain : d.chain[k].decision = Undecided
<1> DEFINE blocked == {k \in DOMAIN d.chain : d.chain[k].decision \in Blocking}
           first == CHOOSE k \in blocked : \A l \in blocked : k <= l
<1>1. /\ DOMAIN d.chain \subseteq Nat
      /\ \A k \in DOMAIN d.chain : d.chain[k] \in Queries
  BY ElementOfSeq, LenProperties
<1>2. \A q \in Queries : q.decision \in Decisions \cup {Undecided}
  BY DEF Queries
<1>3. blocked # {} => first \in blocked
  <2> SUFFICES ASSUME blocked # {} PROVE \E k \in blocked : \A l \in blocked : k <= l
    OBVIOUS
  <2> DEFINE rank == [k \in blocked |-> k]
  <2>1. rank \in [blocked -> Nat]
    BY <1>1
  <2>2. PICK i \in blocked : \A j \in blocked : rank[i] <= rank[j]
    BY <2>1, LeastRankExists
  <2> QED
    BY <2>2
<1> HIDE DEF first
<1>4. RedirectChainDecision(d) =
        IF d.pending.decision \in Blocking THEN d.pending.decision
        ELSE IF blocked # {} THEN d.chain[first].decision
        ELSE IF \E k \in DOMAIN d.chain : d.chain[k].decision = Undecided THEN Undecided
        ELSE d.pending.decision
  BY DEF RedirectChainDecision, first
<1> DEFINE verdict == RedirectChainDecision(d)
<1>5. "allow" \notin Blocking /\ Undecided \notin Blocking /\ Blocking \subseteq Decisions
  BY DEF Blocking, Undecided, Decisions
<1>6. d.pending.decision \in Decisions \cup {Undecided}
  BY <1>2
<1>7. CASE d.pending.decision \in Blocking
  BY <1>4, <1>5, <1>7
<1>8. CASE d.pending.decision \notin Blocking /\ blocked # {}
  <2>1. verdict = d.chain[first].decision /\ d.chain[first].decision \in Blocking
    BY <1>3, <1>4, <1>8
  <2> QED
    BY <2>1, <1>5
<1>9. CASE d.pending.decision \notin Blocking /\ blocked = {}
  <2>1. \A k \in DOMAIN d.chain : d.chain[k].decision \in {"allow", Undecided}
    BY <1>1, <1>2, <1>9 DEF Decisions
  <2>2. "allow" # Undecided
    BY DEF Undecided
  <2> QED
    BY <1>4, <1>6, <1>9, <2>1, <2>2
<1> QED
  BY <1>7, <1>8, <1>9

(* GetOldestPendingMainFrameQuery finds an undecided query of the URL if there *)
(* is one.                                                                     *)
LEMMA OldestFacts ==
  ASSUME TypeOK, NEW u
  PROVE  /\ OldestPendingMainFrameQuery(u) \in DOMAIN decider.chain \cup {0, NotFound}
         /\ DOMAIN decider.chain \subseteq 1..MaxChain
         /\ NotFound \notin DOMAIN decider.chain \cup {0} /\ 0 \notin DOMAIN decider.chain
         /\ OldestPendingMainFrameQuery(u) # NotFound =>
              /\ QueryAt(OldestPendingMainFrameQuery(u)) \in Queries
              /\ QueryAt(OldestPendingMainFrameQuery(u)).url = u
              /\ QueryAt(OldestPendingMainFrameQuery(u)).decision = Undecided
         /\ OldestPendingMainFrameQuery(u) = NotFound =>
              \A k \in DOMAIN decider.chain \cup {0} :
                ~(/\ QueryAt(k) # Null /\ QueryAt(k).url = u
                  /\ QueryAt(k).decision = Undecided)
<1> DEFINE waiting == {k \in DOMAIN decider.chain :
                         decider.chain[k].url = u /\ decider.chain[k].decision = Undecided}
           first == CHOOSE k \in waiting : \A l \in waiting : k <= l
           asked == /\ decider.pending # Null /\ decider.pending.url = u
                    /\ decider.pending.decision = Undecided
<1>1. /\ decider.chain \in Seq(Queries) /\ Len(decider.chain) <= MaxChain
      /\ decider.pending \in Queries \cup {Null}
      /\ MaxChain \in Nat
  BY SafeBrowsingAssumption DEF TypeOK, Deciders
<1>2. /\ DOMAIN decider.chain \subseteq 1..MaxChain
      /\ DOMAIN decider.chain \subseteq Nat
      /\ \A k \in DOMAIN decider.chain : decider.chain[k] \in Queries
  BY <1>1, ElementOfSeq, LenProperties
<1>3. waiting # {} => first \in waiting
  <2> SUFFICES ASSUME waiting # {} PROVE \E k \in waiting : \A l \in waiting : k <= l
    OBVIOUS
  <2> DEFINE rank == [k \in waiting |-> k]
  <2>1. rank \in [waiting -> Nat]
    BY <1>2
  <2>2. PICK i \in waiting : \A j \in waiting : rank[i] <= rank[j]
    BY <2>1, LeastRankExists
  <2> QED
    BY <2>2
<1> HIDE DEF first
<1>4. OldestPendingMainFrameQuery(u) =
        IF waiting # {} THEN first ELSE IF asked THEN 0 ELSE NotFound
  BY DEF OldestPendingMainFrameQuery, first
<1>5. NotFound \notin DOMAIN decider.chain \cup {0} /\ 0 \notin DOMAIN decider.chain
  BY <1>1, <1>2 DEF NotFound
<1>6. /\ QueryAt(0) = decider.pending
      /\ \A k \in DOMAIN decider.chain : QueryAt(k) = decider.chain[k]
  BY <1>5 DEF QueryAt
<1>7. CASE waiting # {}
  BY <1>2, <1>3, <1>4, <1>5, <1>6, <1>7
<1>8. CASE waiting = {} /\ asked
  BY <1>1, <1>2, <1>4, <1>5, <1>6, <1>8
<1>9. CASE waiting = {} /\ ~asked
  BY <1>1, <1>2, <1>4, <1>5, <1>6, <1>9
<1> QED
  BY <1>7, <1>8, <1>9

(* The decider once a decision is stored with the oldest query of its URL.     *)
Stored(u, decision) ==
  LET k == OldestPendingMainFrameQuery(u)
  IN IF k = 0 THEN [decider EXCEPT !.pending.decision = decision]
     ELSE [decider EXCEPT !.chain[k].decision = decision]

LEMMA StoredFacts ==
  ASSUME TypeOK, NEW u, NEW decision \in Decisions,
         OldestPendingMainFrameQuery(u) # NotFound
  PROVE  LET k == OldestPendingMainFrameQuery(u)
             d == Stored(u, decision)
         IN /\ d \in Deciders
            /\ d.previous = decider.previous /\ d.callback = decider.callback
            /\ d.sub = decider.sub
            /\ Len(d.chain) = Len(decider.chain) /\ DOMAIN d.chain = DOMAIN decider.chain
            /\ d.pending = IF k = 0 THEN [decider.pending EXCEPT !.decision = decision]
                           ELSE decider.pending
            /\ decider.pending # Null => d.pending \in Queries
            /\ \A j \in DOMAIN d.chain :
                 d.chain[j] = IF j = k THEN [decider.chain[k] EXCEPT !.decision = decision]
                              ELSE decider.chain[j]
<1> DEFINE k == OldestPendingMainFrameQuery(u)
           d == Stored(u, decision)
           chain == [decider.chain EXCEPT ![k].decision = decision]
<1>1. /\ decider \in Deciders
      /\ decider.chain \in Seq(Queries) /\ decider.pending \in Queries \cup {Null}
  BY DEF TypeOK, Deciders
<1>2. /\ k \in DOMAIN decider.chain \cup {0} /\ 0 \notin DOMAIN decider.chain
      /\ QueryAt(k) \in Queries
  BY OldestFacts
<1>3. \A q \in Queries : [q EXCEPT !.decision = decision] \in Queries
  BY DEF Queries
<1> HIDE DEF k
<1>4. CASE k = 0
  <2>1. decider.pending \in Queries /\ QueryAt(k) = decider.pending
    BY <1>2, <1>4 DEF QueryAt
  <2>2. d = [decider EXCEPT !.pending.decision = decision]
    BY <1>4 DEF Stored, k
  <2>3. /\ d.pending = [decider.pending EXCEPT !.decision = decision]
        /\ d.chain = decider.chain /\ d.previous = decider.previous
        /\ d.callback = decider.callback /\ d.sub = decider.sub
        /\ d \in Deciders
    BY <1>1, <1>3, <2>1, <2>2 DEF Deciders
  <2>4. \A j \in DOMAIN decider.chain : j # k
    BY <1>2, <1>4
  <2> HIDE DEF d
  <2> QED
    BY <1>3, <1>4, <2>1, <2>3, <2>4 DEF k, d
<1>5. CASE k # 0
  <2>1. k \in DOMAIN decider.chain
    BY <1>2, <1>5
  <2>2. d = [decider EXCEPT !.chain[k].decision = decision]
    BY <1>5 DEF Stored, k
  <2>3. [decider.chain[k] EXCEPT !.decision = decision] \in Queries
    BY <1>1, <1>3, <2>1, ElementOfSeq
  <2>4. /\ chain \in Seq(Queries)
        /\ Len(chain) = Len(decider.chain) /\ DOMAIN chain = DOMAIN decider.chain
        /\ \A j \in DOMAIN chain :
             chain[j] = IF j = k THEN [decider.chain[k] EXCEPT !.decision = decision]
                        ELSE decider.chain[j]
    <3>1. chain = [decider.chain EXCEPT ![k] = [decider.chain[k] EXCEPT !.decision = decision]]
      OBVIOUS
    <3> QED
      BY <1>1, <2>1, <2>3, <3>1, ExceptSeq
  <2> HIDE DEF chain
  <2>5. d = [decider EXCEPT !.chain = chain]
    BY <1>1, <2>2 DEF chain, Deciders
  <2>6. /\ d.chain = chain
        /\ d.pending = decider.pending /\ d.previous = decider.previous
        /\ d.callback = decider.callback /\ d.sub = decider.sub
        /\ d \in Deciders
    BY <1>1, <2>4, <2>5 DEF Deciders
  <2> HIDE DEF d
  <2> QED
    BY <1>1, <1>5, <2>4, <2>6 DEF k, d
<1> QED
  BY <1>4, <1>5

(* OnMainFrameUrlQueryDecided answers a response that waits, and forgets the   *)
(* chain, or keeps what it has stored.                                         *)
LEMMA DecidedFacts ==
  ASSUME TypeOK, PhaseOK, NEW u, NEW decision \in Decisions, UNCHANGED frames,
         OldestPendingMainFrameQuery(u) # NotFound, OnMainFrameUrlQueryDecided(u, decision)
  PROVE  LET d == Stored(u, decision)
             answers == decider.callback /\ RedirectChainDecision(d) # Undecided
         IN /\ decider' \in Deciders'
            /\ decider'.pending = d.pending /\ decider'.previous = d.previous
            /\ decider'.sub = d.sub
            /\ answers => decider'.chain = << >> /\ ~decider'.callback
            /\ ~answers => decider' = d
            /\ nav' \in Navigations
            /\ nav'.asked = nav.asked /\ nav'.document = nav.document
            /\ nav'.okay = IF decision = "allow" THEN nav.okay \cup ({u} \cap nav.asked)
                           ELSE nav.okay
            /\ nav'.phase = IF answers /\ nav.phase = "responding"
                              THEN RedirectChainDecision(d) ELSE nav.phase
            /\ (answers /\ nav.phase = "responding") => nav'.phase \in Decisions
<1> DEFINE d == Stored(u, decision)
           verdict == RedirectChainDecision(d)
           answers == d.callback /\ verdict # Undecided
           phase == IF answers /\ nav.phase = "responding" THEN verdict ELSE nav.phase
           okay == IF decision = "allow" THEN nav.okay \cup ({u} \cap nav.asked) ELSE nav.okay
<1>1. /\ d \in Deciders /\ d.callback = decider.callback
      /\ decider.pending # Null => d.pending \in Queries
      /\ d.chain \in Seq(Queries)
  BY StoredFacts DEF Deciders
<1>2. /\ decider' = IF answers THEN [d EXCEPT !.chain = << >>, !.callback = FALSE] ELSE d
      /\ nav' = [nav EXCEPT !.phase = phase, !.okay = okay]
  BY DEF OnMainFrameUrlQueryDecided, Stored, TypeOK, Navigations
<1>3. (answers /\ nav.phase = "responding") => verdict \in Decisions
  BY <1>1, VerdictFacts DEF PhaseOK
<1> HIDE DEF d, verdict
<1>4. Deciders' = Deciders
  BY DEF Deciders
<1>5. << >> \in Seq(Queries)
  OBVIOUS
<1>6. /\ decider' \in Deciders
      /\ decider'.pending = d.pending /\ decider'.previous = d.previous
      /\ decider'.sub = d.sub
      /\ answers => decider'.chain = << >> /\ ~decider'.callback
      /\ ~answers => decider' = d
  BY <1>1, <1>2, <1>5 DEF Deciders
<1>7. phase \in Decisions \cup {"idle", "requested", "redirecting", "responding"}
  BY <1>3 DEF TypeOK, Navigations
<1>8. okay \subseteq URLs
  BY DEF TypeOK, Navigations
<1> HIDE DEF okay, phase
<1>9. /\ nav' \in Navigations
      /\ nav'.asked = nav.asked /\ nav'.okay = okay /\ nav'.phase = phase
      /\ nav'.document = nav.document
  BY <1>2, <1>7, <1>8 DEF TypeOK, Navigations
<1> QED
  BY <1>1, <1>3, <1>4, <1>6, <1>9 DEF okay, phase, verdict, d

LEMMA CommitItemTyped ==
  ASSUME TypeOK, CommitItem
  PROVE  /\ item' \in Items \cup {Null}
         /\ results' \in [Checks -> Results]
         /\ unsafe' \in [main : URLs \cup {Null}, sub : SUBSET Items]
  BY DEF TypeOK, CommitItem, Results

LEMMA FinishedTyped ==
  ASSUME TypeOK, NEW c \in Checks, Finished(c)
  PROVE  results' \in [Checks -> Results]
<1>1. NoCheck \in Results
  BY DEF NoCheck, Results
<1> QED
  BY <1>1 DEF TypeOK, Finished

LEMMA StillNeededTyped ==
  ASSUME TypeOK, StillNeeded
  PROVE  overtaken' \subseteq URLs
  BY DEF TypeOK, StillNeeded

FrameStates == [there : BOOLEAN, decision : Decisions \cup {Undecided}, waiting : BOOLEAN]

(* The decider when only its sub frames change.                                *)
LEMMA SubFramesTyped ==
  ASSUME TypeOK, UNCHANGED frames, NEW sub \in [frames -> FrameStates],
         decider' = [decider EXCEPT !.sub = sub]
  PROVE  /\ decider' \in Deciders'
         /\ decider'.pending = decider.pending /\ decider'.previous = decider.previous
         /\ decider'.chain = decider.chain /\ decider'.callback = decider.callback
         /\ decider'.sub = sub
<1>1. /\ decider' \in Deciders
      /\ decider'.pending = decider.pending /\ decider'.previous = decider.previous
      /\ decider'.chain = decider.chain /\ decider'.callback = decider.callback
      /\ decider'.sub = sub
  BY DEF TypeOK, Deciders, FrameStates
<1> QED
  BY <1>1 DEF Deciders

LEMMA DocumentChangeTyped ==
  ASSUME TypeOK, UpdateForMainFrameDocumentChange, UNCHANGED frames
  PROVE  /\ decider' \in Deciders'
         /\ decider'.pending = decider.pending /\ decider'.previous = decider.previous
         /\ decider'.chain = decider.chain /\ decider'.callback = decider.callback
         /\ decider'.sub = [u \in frames |-> NoFrame]
<1>1. NoFrame \in FrameStates
  BY DEF NoFrame, FrameStates
<1> DEFINE none == [u \in frames |-> NoFrame]
<1>2. none \in [frames -> FrameStates] /\ decider' = [decider EXCEPT !.sub = none]
  BY <1>1 DEF UpdateForMainFrameDocumentChange
<1> QED
  BY <1>2, SubFramesTyped

(* What a step of a sub frame changes of the decider.                          *)
LEMMA SubFrameStepTyped ==
  ASSUME TypeOK, UNCHANGED frames, NEW u \in frames, NEW state \in FrameStates,
         decider' = [decider EXCEPT !.sub[u] = state]
  PROVE  /\ decider' \in Deciders'
         /\ decider'.pending = decider.pending /\ decider'.previous = decider.previous
         /\ decider'.chain = decider.chain /\ decider'.callback = decider.callback
         /\ decider'.sub = [decider.sub EXCEPT ![u] = state]
<1>1. decider.sub \in [frames -> FrameStates]
  BY DEF TypeOK, Deciders, FrameStates
<1> DEFINE sub == [decider.sub EXCEPT ![u] = state]
<1>2. sub \in [frames -> FrameStates]
  BY <1>1
<1>3. decider' = [decider EXCEPT !.sub = sub]
  BY DEF TypeOK, Deciders
<1> HIDE DEF sub
<1>4. /\ decider' \in Deciders'
      /\ decider'.pending = decider.pending /\ decider'.previous = decider.previous
      /\ decider'.chain = decider.chain /\ decider'.callback = decider.callback
      /\ decider'.sub = sub
  BY <1>2, <1>3, SubFramesTyped
<1> QED
  BY <1>4 DEF sub

LEMMA SubFrameRequestFacts ==
  ASSUME TypeOK, UNCHANGED frames, NEW u \in frames, SubFrameRequest(u)
  PROVE  /\ decider' \in Deciders'
         /\ decider'.pending = decider.pending /\ decider'.previous = decider.previous
         /\ decider'.chain = decider.chain /\ decider'.callback = decider.callback
         /\ decider'.sub = [decider.sub EXCEPT ![u] = [decider.sub[u] EXCEPT !.there = TRUE]]
<1> DEFINE state == [decider.sub[u] EXCEPT !.there = TRUE]
<1>1. decider.sub[u] \in FrameStates
  BY DEF TypeOK, Deciders, FrameStates
<1>2. state \in FrameStates
  BY <1>1 DEF FrameStates
<1>3. decider' = [decider EXCEPT !.sub[u] = state]
  BY DEF SubFrameRequest, TypeOK, Deciders
<1> QED
  BY <1>2, <1>3, SubFrameStepTyped

LEMMA SubFrameResponseFacts ==
  ASSUME TypeOK, UNCHANGED frames, NEW u \in frames, SubFrameResponse(u)
  PROVE  \E state \in FrameStates :
           /\ state.there
           /\ state.waiting => state.decision = Undecided
           /\ \/ /\ decider.sub[u].there /\ UNCHANGED <<results, expected>>
                 /\ state.decision = decider.sub[u].decision
              \/ /\ ~decider.sub[u].there /\ item # Null /\ StartQuery(u, item)
                 /\ expected' = expected \cup {<<u, item>>}
           /\ decider' \in Deciders'
           /\ decider'.pending = decider.pending /\ decider'.previous = decider.previous
           /\ decider'.chain = decider.chain /\ decider'.callback = decider.callback
           /\ decider'.sub = [decider.sub EXCEPT ![u] = state]
<1> DEFINE new == [NoFrame EXCEPT !.there = TRUE, !.waiting = TRUE]
           kept == [decider.sub[u] EXCEPT !.waiting = (decider.sub[u].decision = Undecided)]
<1>1. decider.sub[u] \in FrameStates
  BY DEF TypeOK, Deciders, FrameStates
<1>2. CASE ~decider.sub[u].there
  <2>1. new \in FrameStates /\ new.there /\ new.decision = Undecided
    BY DEF NoFrame, FrameStates
  <2>2. /\ decider' = [decider EXCEPT !.sub[u] = new]
        /\ item # Null /\ StartQuery(u, item) /\ expected' = expected \cup {<<u, item>>}
    BY <1>2 DEF SubFrameResponse
  <2> QED
    BY <1>2, <2>1, <2>2, SubFrameStepTyped
<1>3. CASE decider.sub[u].there
  <2>1. /\ kept \in FrameStates /\ kept.there
        /\ kept.decision = decider.sub[u].decision
        /\ kept.waiting => kept.decision = Undecided
    BY <1>1, <1>3 DEF FrameStates
  <2>2. decider' = [decider EXCEPT !.sub[u] = kept] /\ UNCHANGED <<results, expected>>
    <3>1. decider' = [decider EXCEPT !.sub[u].waiting = (decider.sub[u].decision = Undecided)]
          /\ UNCHANGED <<results, expected>>
      BY <1>3 DEF SubFrameResponse
    <3> QED
      BY <3>1 DEF TypeOK, Deciders
  <2> HIDE DEF kept
  <2> QED
    BY <1>3, <2>1, <2>2, SubFrameStepTyped
<1> QED
  BY <1>2, <1>3

LEMMA SubFrameCheckFinishedFacts ==
  ASSUME TypeOK, UNCHANGED frames, NEW c \in Checks, SubFrameCheckFinished(c)
  PROVE  LET u == results[c].url
         IN /\ decider' \in Deciders'
            /\ decider'.pending = decider.pending /\ decider'.previous = decider.previous
            /\ decider'.chain = decider.chain /\ decider'.callback = decider.callback
            /\ DOMAIN decider'.sub = frames
            /\ \A v \in frames \ {u} : decider'.sub[v] = decider.sub[v]
            /\ u \in frames => /\ ~decider'.sub[u].waiting
                               /\ decider'.sub[u].decision \in Decisions
                               /\ decider'.sub[u].there = decider.sub[u].there
<1> DEFINE u == results[c].url
           decision == results[c].stage
           state == [decider.sub[u] EXCEPT !.decision = decision, !.waiting = FALSE]
<1>1. /\ decision \in Decisions
      /\ decider' = [decider EXCEPT !.sub[u].decision = decision, !.sub[u].waiting = FALSE]
  BY DEF SubFrameCheckFinished, Finished
<1> HIDE DEF u, decision
<1>2. decider.sub \in [frames -> FrameStates]
  BY DEF TypeOK, Deciders, FrameStates
<1>3. CASE u \in frames
  <2>1. decider.sub[u] \in FrameStates
    BY <1>2, <1>3
  <2>2. /\ state \in FrameStates
        /\ ~state.waiting /\ state.decision = decision /\ state.there = decider.sub[u].there
    BY <1>1, <2>1 DEF FrameStates
  <2>3. decider' = [decider EXCEPT !.sub[u] = state]
    <3>1. decider' = [decider EXCEPT !.sub = [[decider.sub EXCEPT ![u].decision = decision]
                                                 EXCEPT ![u].waiting = FALSE]]
      BY <1>1 DEF TypeOK, Deciders
    <3>2. [[decider.sub EXCEPT ![u].decision = decision] EXCEPT ![u].waiting = FALSE]
            = [decider.sub EXCEPT ![u] = state]
      BY <1>2, <1>3
    <3> QED
      BY <3>1, <3>2 DEF TypeOK, Deciders
  <2> HIDE DEF state
  <2>4. /\ decider' \in Deciders'
        /\ decider'.pending = decider.pending /\ decider'.previous = decider.previous
        /\ decider'.chain = decider.chain /\ decider'.callback = decider.callback
        /\ decider'.sub = [decider.sub EXCEPT ![u] = state]
    BY <1>3, <2>2, <2>3, SubFrameStepTyped
  <2> QED
    BY <1>1, <1>2, <1>3, <2>2, <2>4 DEF u
<1>4. CASE u \notin frames
  <2>1. [[decider.sub EXCEPT ![u].decision = decision] EXCEPT ![u].waiting = FALSE] = decider.sub
    BY <1>2, <1>4
  <2>2. decider' = [decider EXCEPT !.sub = decider.sub]
    BY <1>1, <2>1 DEF TypeOK, Deciders
  <2>3. /\ decider' \in Deciders'
        /\ decider'.pending = decider.pending /\ decider'.previous = decider.previous
        /\ decider'.chain = decider.chain /\ decider'.callback = decider.callback
        /\ decider'.sub = decider.sub
    BY <1>2, <2>2, SubFramesTyped
  <2> QED
    BY <1>2, <1>4, <2>3 DEF u
<1> QED
  BY <1>3, <1>4

(* HandleMainFrameResponsePolicy: what it leaves, and what a response that was *)
(* let through tells about the queries.                                        *)
LEMMA ResponseFacts ==
  ASSUME TypeOK, PhaseOK, NEW url \in Pages, MainFrameResponse(url), UNCHANGED frames
  PROVE  LET kept == IF decider.previous = Null THEN decider.chain ELSE << >>
         IN /\ decider' \in Deciders' /\ nav' \in Navigations
            /\ Len(decider'.chain) <= MaxChain
            /\ PhaseOK'
            /\ decider'.pending = decider.pending /\ decider.pending \in Queries
            /\ decider'.previous = Null /\ decider'.sub = decider.sub
            /\ nav'.asked = nav.asked /\ nav'.okay = nav.okay /\ nav'.document = url
            /\ nav'.phase \in Decisions \cup {"responding"}
            /\ nav'.phase = "responding" =>
                 /\ decider'.chain = kept
                 /\ RedirectChainDecision(decider') = Undecided
            /\ nav'.phase # "responding" => decider'.chain = << >>
            /\ nav'.phase = "allow" =>
                 /\ decider.pending.decision = "allow"
                 /\ \A k \in DOMAIN kept : kept[k].decision = "allow"
<1> DEFINE current == IF decider.previous = Null THEN decider
                      ELSE [decider EXCEPT !.previous = Null, !.chain = << >>]
           kept == IF decider.previous = Null THEN decider.chain ELSE << >>
           verdict == RedirectChainDecision(current)
           waits == [current EXCEPT !.callback = TRUE]
           decided == [current EXCEPT !.chain = << >>]
<1>1. /\ nav.phase = "requested"
      /\ \/ /\ verdict = Undecided /\ decider' = waits
            /\ nav' = [nav EXCEPT !.phase = "responding", !.document = url]
         \/ /\ verdict # Undecided /\ decider' = decided
            /\ nav' = [nav EXCEPT !.phase = verdict, !.document = url]
  BY DEF MainFrameResponse
<1>2. << >> \in Seq(Queries) /\ Len(<< >>) <= MaxChain
  BY SafeBrowsingAssumption
<1>3. decider.pending \in Queries /\ ~decider.callback
  BY <1>1 DEF PhaseOK, TypeOK, Deciders
<1>4. /\ current \in Deciders /\ current.chain = kept /\ current.previous = Null
      /\ current.pending = decider.pending /\ current.sub = decider.sub
      /\ ~current.callback
      /\ kept \in Seq(Queries) /\ Len(kept) <= MaxChain
  BY <1>2, <1>3 DEF TypeOK, Deciders
<1> HIDE DEF current, kept
<1>5. /\ verdict \in Decisions \cup {Undecided}
      /\ verdict = "allow" => /\ decider.pending.decision = "allow"
                              /\ \A k \in DOMAIN kept : kept[k].decision = "allow"
  BY <1>3, <1>4, VerdictFacts
<1>6. Deciders' = Deciders
  BY DEF Deciders
<1>7. "responding" \notin Decisions /\ "allow" # Undecided /\ "allow" # "responding"
  BY DEF Decisions, Blocking, Undecided
<1>8. \A q \in Queries : q # Null
  BY SafeBrowsingAssumption
<1>9. CASE /\ verdict = Undecided /\ decider' = waits
           /\ nav' = [nav EXCEPT !.phase = "responding", !.document = url]
  <2>1. /\ waits \in Deciders /\ waits.chain = kept /\ waits.previous = Null
        /\ waits.pending = decider.pending /\ waits.sub = decider.sub /\ waits.callback
    BY <1>4 DEF Deciders
  <2>2. RedirectChainDecision(waits) = Undecided
    <3>1. waits.pending = current.pending /\ waits.chain = current.chain
      BY <2>1, <1>4
    <3> QED
      BY <1>9, <3>1 DEF RedirectChainDecision
  <2>3. /\ nav' \in Navigations /\ nav'.phase = "responding"
        /\ nav'.asked = nav.asked /\ nav'.okay = nav.okay /\ nav'.document = url
    BY <1>9 DEF TypeOK, Navigations, Pages
  <2> HIDE DEF waits
  <2>4. PhaseOK'
    BY <1>3, <1>8, <1>9, <2>1, <2>3 DEF PhaseOK
  <2> QED
    BY <1>3, <1>4, <1>6, <1>7, <1>9, <2>1, <2>2, <2>3, <2>4 DEF kept
<1>10. CASE /\ verdict # Undecided /\ decider' = decided
            /\ nav' = [nav EXCEPT !.phase = verdict, !.document = url]
  <2>1. /\ decided \in Deciders /\ decided.chain = << >> /\ decided.previous = Null
        /\ decided.pending = decider.pending /\ decided.sub = decider.sub /\ ~decided.callback
    BY <1>2, <1>4 DEF Deciders
  <2>2. verdict \in Decisions
    BY <1>5, <1>10
  <2> HIDE DEF verdict, decided
  <2>3. /\ nav' \in Navigations /\ nav'.phase = verdict
        /\ nav'.asked = nav.asked /\ nav'.okay = nav.okay /\ nav'.document = url
    BY <1>10, <2>2 DEF TypeOK, Navigations, Pages
  <2>4. PhaseOK'
    BY <1>10, <2>1, <2>2, <2>3 DEF PhaseOK, Decisions, Blocking
  <2>5. Len(decider'.chain) <= MaxChain
    BY <1>2, <1>10, <2>1
  <2>6. verdict # "responding"
    BY <2>2, <1>7
  <2> QED
    BY <1>3, <1>5, <1>6, <1>10, <2>1, <2>2, <2>3, <2>4, <2>5, <2>6 DEF kept
<1> QED
  BY <1>1, <1>9, <1>10

LEMMA TypeStep ==
  ASSUME TypeOK, PhaseOK, [Next]_vars
  PROVE  TypeOK' /\ PhaseOK'
<1> USE SafeBrowsingAssumption
<1>1. ASSUME NEW u \in Pages, NEW reload \in BOOLEAN, Request(u, reload), UNCHANGED frames
      PROVE  TypeOK' /\ PhaseOK'
  <2>1. u \in URLs
    BY DEF Pages
  <2>2. ShouldAllowMainRequest(u, reload)
    BY <1>1 DEF Request
  <2>3. /\ decider' \in Deciders' /\ decider'.chain = decider.chain
        /\ decider'.pending # Null /\ ~decider'.callback
        /\ results' \in [Checks -> Results]
    BY <1>1, <2>1, <2>2, ShouldAllowMainRequestTyped
  <2>4. nav' \in Navigations /\ nav'.phase = "requested"
    BY <1>1, <2>1 DEF Request, Navigations
  <2>5. overtaken' \subseteq URLs
    BY <1>1, StillNeededTyped DEF Request
  <2>6. TypeOK'
    BY <1>1, <2>3, <2>4, <2>5 DEF TypeOK, Request
  <2> QED
    BY <2>3, <2>4, <2>6 DEF PhaseOK
<1>2. ASSUME NEW u \in Pages, ServerRedirect(u), UNCHANGED frames
      PROVE  TypeOK' /\ PhaseOK'
  <2>1. u \in URLs /\ nav.reload \in BOOLEAN
    BY DEF Pages, TypeOK, Navigations
  <2>2. ShouldAllowMainRequest(u, nav.reload)
    BY <1>2 DEF ServerRedirect
  <2>3. /\ decider' \in Deciders' /\ decider'.chain = decider.chain
        /\ decider'.pending # Null /\ ~decider'.callback
        /\ decider'.previous = IF decider.pending # Null THEN decider.pending ELSE decider.previous
        /\ results' \in [Checks -> Results]
    BY <1>2, <2>1, <2>2, ShouldAllowMainRequestTyped
  <2>4. nav' \in Navigations /\ nav'.phase = "redirecting"
    BY <1>2, <2>1 DEF ServerRedirect, TypeOK, Navigations
  <2>5. overtaken' \subseteq URLs
    BY <1>2, StillNeededTyped DEF ServerRedirect
  <2>6. TypeOK'
    BY <1>2, <2>3, <2>4, <2>5 DEF TypeOK, ServerRedirect
  <2>7. decider.pending # Null /\ Len(decider.chain) < MaxChain
    BY <1>2 DEF PhaseOK, ServerRedirect
  <2> QED
    BY <2>3, <2>4, <2>6, <2>7 DEF PhaseOK
<1>3. ASSUME NEW u \in frames, SubFrameRequest(u), UNCHANGED frames
      PROVE  TypeOK' /\ PhaseOK'
  <2>1. u \in URLs
    BY DEF TypeOK
  <2>2. results' \in [Checks -> Results]
    BY <1>3, <2>1, StartQueryTyped DEF SubFrameRequest, TypeOK
  <2>3. /\ decider' \in Deciders' /\ decider'.chain = decider.chain
        /\ decider'.pending = decider.pending /\ decider'.previous = decider.previous
        /\ decider'.callback = decider.callback
    BY <1>3, SubFrameRequestFacts
  <2>4. expected' \subseteq frames \X Items
    BY <1>3 DEF SubFrameRequest, TypeOK
  <2> QED
    BY <1>3, <2>2, <2>3, <2>4 DEF SubFrameRequest, TypeOK, PhaseOK
<1>4. ASSUME NEW u \in frames, SubFrameResponse(u), UNCHANGED frames
      PROVE  TypeOK' /\ PhaseOK'
  <2>1. u \in URLs
    BY DEF TypeOK
  <2>2. results' \in [Checks -> Results]
    BY <1>4, <2>1, StartQueryTyped DEF SubFrameResponse, TypeOK
  <2>3. /\ decider' \in Deciders' /\ decider'.chain = decider.chain
        /\ decider'.pending = decider.pending /\ decider'.previous = decider.previous
        /\ decider'.callback = decider.callback
    BY <1>4, SubFrameResponseFacts
  <2>4. expected' \subseteq frames \X Items
    BY <1>4 DEF SubFrameResponse, TypeOK
  <2> QED
    BY <1>4, <2>2, <2>3, <2>4 DEF SubFrameResponse, TypeOK, PhaseOK
<1>5. ASSUME NEW c \in Checks, CheckUrl(c), UNCHANGED frames
      PROVE  TypeOK' /\ PhaseOK'
  <2>1. results' \in [Checks -> Results]
    BY <1>5 DEF CheckUrl, TypeOK, Results, Decisions
  <2> QED
    BY <1>5, <2>1 DEF CheckUrl, TypeOK, PhaseOK, Deciders
<1>6. ASSUME NEW c \in Checks, HandleBlockingPageRequest(c), UNCHANGED frames
      PROVE  TypeOK' /\ PhaseOK'
  <2>1. StoreUnsafeResource(c) \in [Checks -> Results]
    BY DEF StoreUnsafeResource, TypeOK, Results
  <2>2. results' \in [Checks -> Results]
    BY <1>6, <2>1 DEF HandleBlockingPageRequest, TypeOK, Results, Decisions, Blocking
  <2> QED
    BY <1>6, <2>2 DEF HandleBlockingPageRequest, TypeOK, PhaseOK, Deciders
<1>7. ASSUME NEW c \in Checks, StaleMainFrameCheck(c), UNCHANGED frames
      PROVE  TypeOK' /\ PhaseOK'
  <2>1. results' \in [Checks -> Results] /\ results[c].url \in URLs \cup {Null}
    BY <1>7, FinishedTyped DEF StaleMainFrameCheck, TypeOK, Results
  <2>2. overtaken' \subseteq URLs
    <3>1. decider.previous # Null => decider.previous.url \in URLs
      BY DEF TypeOK, Deciders, Queries
    <3> QED
      BY <1>7, <3>1 DEF StaleMainFrameCheck, TypeOK
  <2> QED
    BY <1>7, <2>1, <2>2 DEF StaleMainFrameCheck, TypeOK, PhaseOK, Deciders
<1>8. ASSUME NEW c \in Checks, MainFrameCheckFinished(c), UNCHANGED frames
      PROVE  TypeOK' /\ PhaseOK'
  <2> DEFINE u == results[c].url
             decision == results[c].stage
             d == Stored(u, decision)
  <2>1. /\ results' \in [Checks -> Results] /\ u \in URLs \cup {Null}
        /\ decision \in Decisions
    BY <1>8, FinishedTyped DEF MainFrameCheckFinished, Finished, TypeOK, Results
  <2>2. /\ OldestPendingMainFrameQuery(u) # NotFound
        /\ OnMainFrameUrlQueryDecided(u, decision)
    BY <1>8 DEF MainFrameCheckFinished
  <2> HIDE DEF u, decision
  <2>3. u # Null
    <3>1. /\ QueryAt(OldestPendingMainFrameQuery(u)) \in Queries
          /\ QueryAt(OldestPendingMainFrameQuery(u)).url = u
      BY <2>2, OldestFacts
    <3> QED
      BY <3>1 DEF Queries
  <2>4. overtaken' \subseteq URLs
    BY <1>8, StillNeededTyped DEF MainFrameCheckFinished
  <2>5. unsafe' \in [main : URLs \cup {Null}, sub : SUBSET Items]
    BY <1>8, <2>1 DEF MainFrameCheckFinished, TypeOK, u
  <2>6. /\ decider' \in Deciders'
        /\ decider'.pending = d.pending /\ decider'.previous = d.previous
        /\ (decider.callback /\ RedirectChainDecision(d) # Undecided) =>
              decider'.chain = << >> /\ ~decider'.callback
        /\ ~(decider.callback /\ RedirectChainDecision(d) # Undecided) => decider' = d
        /\ nav' \in Navigations
        /\ (decider.callback /\ RedirectChainDecision(d) # Undecided /\ nav.phase = "responding")
             => nav'.phase \in Decisions
        /\ ~(decider.callback /\ RedirectChainDecision(d) # Undecided /\ nav.phase = "responding")
             => nav'.phase = nav.phase
    <3> DEFINE answers == decider.callback /\ RedirectChainDecision(d) # Undecided
    <3>1. /\ decider' \in Deciders'
          /\ decider'.pending = d.pending /\ decider'.previous = d.previous
          /\ answers => decider'.chain = << >> /\ ~decider'.callback
          /\ ~answers => decider' = d
          /\ nav' \in Navigations
      BY <1>8, <2>1, <2>2, DecidedFacts
    <3>2. nav'.phase = IF answers /\ nav.phase = "responding"
                         THEN RedirectChainDecision(d) ELSE nav.phase
      BY <1>8, <2>1, <2>2, DecidedFacts, ZenonT(30)
    <3>3. (answers /\ nav.phase = "responding") => nav'.phase \in Decisions
      BY <1>8, <2>1, <2>2, DecidedFacts, ZenonT(30)
    <3> HIDE DEF d
    <3> QED
      BY <3>1, <3>2, <3>3
  <2>7. /\ d.previous = decider.previous /\ d.callback = decider.callback
        /\ Len(d.chain) = Len(decider.chain)
        /\ decider.pending # Null => d.pending \in Queries
    BY <2>1, <2>2, StoredFacts
  <2>8. \A q \in Queries : q # Null
    OBVIOUS
  <2> HIDE DEF d
  <2>9. Len(decider'.chain) <= MaxChain
    <3>1. Len(decider.chain) <= MaxChain /\ Len(<< >>) <= MaxChain
      BY DEF TypeOK
    <3> QED
      BY <3>1, <2>6, <2>7
  <2>10. TypeOK'
    BY <1>8, <2>1, <2>4, <2>5, <2>6, <2>9 DEF TypeOK, MainFrameCheckFinished
  <2>11. CASE decider.callback /\ RedirectChainDecision(d) # Undecided
    <3>1. nav'.phase \in Decisions \cup {"idle"}
      BY <2>6, <2>11 DEF PhaseOK
    <3> QED
      BY <2>6, <2>10, <2>11, <3>1 DEF PhaseOK, Decisions, Blocking
  <2>12. CASE ~(decider.callback /\ RedirectChainDecision(d) # Undecided)
    <3>1. decider' = d /\ nav'.phase = nav.phase
      BY <2>6, <2>12
    <3> QED
      BY <2>7, <2>8, <2>10, <3>1 DEF PhaseOK
  <2> QED
    BY <2>11, <2>12
<1>9. ASSUME NEW c \in Checks, StaleSubFrameCheck(c), UNCHANGED frames
      PROVE  TypeOK' /\ PhaseOK'
  <2>1. results' \in [Checks -> Results]
    BY <1>9, FinishedTyped DEF StaleSubFrameCheck
  <2>2. expected' \subseteq frames \X Items
    BY <1>9 DEF StaleSubFrameCheck, TypeOK
  <2> QED
    BY <1>9, <2>1, <2>2 DEF StaleSubFrameCheck, TypeOK, PhaseOK, Deciders
<1>10. ASSUME NEW c \in Checks, SubFrameCheckFinished(c), UNCHANGED frames
       PROVE  TypeOK' /\ PhaseOK'
  <2>1. results' \in [Checks -> Results]
    BY <1>10, FinishedTyped DEF SubFrameCheckFinished
  <2>2. /\ decider' \in Deciders' /\ decider'.chain = decider.chain
        /\ decider'.pending = decider.pending /\ decider'.previous = decider.previous
        /\ decider'.callback = decider.callback
    BY <1>10, SubFrameCheckFinishedFacts
  <2>3. unsafe' \in [main : URLs \cup {Null}, sub : SUBSET Items]
    <3>1. item \in Items
      BY <1>10 DEF SubFrameCheckFinished, TypeOK, Results
    <3> QED
      BY <1>10, <3>1 DEF SubFrameCheckFinished, TypeOK
  <2>4. nav' = nav \/ nav' = Idle
    BY <1>10 DEF SubFrameCheckFinished
  <2>5. Idle \in Navigations /\ Idle.phase = "idle"
    BY DEF Navigations, Idle
  <2>6. nav' \in Navigations /\ nav'.phase \in {nav.phase, "idle"}
    BY <2>4, <2>5 DEF TypeOK
  <2>7. TypeOK'
    BY <1>10, <2>1, <2>2, <2>3, <2>6 DEF SubFrameCheckFinished, TypeOK
  <2> QED
    BY <2>2, <2>6, <2>7 DEF PhaseOK
<1>11. ASSUME Leave, UNCHANGED frames
       PROVE  TypeOK' /\ PhaseOK'
  <2>1. nav' \in Navigations /\ nav'.phase = "idle"
    BY <1>11 DEF Leave, Navigations, Idle
  <2> QED
    BY <1>11, <2>1 DEF Leave, TypeOK, PhaseOK, Deciders
<1>12. ASSUME DidRedirectNavigation, UNCHANGED frames
       PROVE  TypeOK' /\ PhaseOK'
  <2>1. /\ nav' \in Navigations /\ nav'.phase = "requested"
        /\ nav.phase \in {"requested", "redirecting"} /\ Len(decider.chain) < MaxChain
    BY <1>12 DEF DidRedirectNavigation, TypeOK, Navigations, PhaseOK
  <2>2. decider.pending # Null /\ ~decider.callback
    BY <2>1 DEF PhaseOK
  <2>3. CASE decider.previous = Null
    BY <1>12, <2>1, <2>2, <2>3
       DEF DidRedirectNavigation, UpdateForMainFrameServerRedirect, TypeOK, PhaseOK, Deciders
  <2>4. CASE decider.previous # Null
    <3> DEFINE chain == Append(decider.chain, decider.previous)
    <3>1. decider' = [decider EXCEPT !.chain = chain, !.previous = Null]
      BY <1>12, <2>4 DEF DidRedirectNavigation, UpdateForMainFrameServerRedirect
    <3>2. /\ decider.previous \in Queries /\ decider.chain \in Seq(Queries)
          /\ Len(decider.chain) \in Nat
      BY <2>4, LenProperties DEF TypeOK, Deciders
    <3>3. chain \in Seq(Queries) /\ Len(chain) <= MaxChain
      BY <2>1, <3>2, AppendProperties
    <3> HIDE DEF chain
    <3>4. /\ decider' \in Deciders /\ decider'.chain = chain
          /\ decider'.pending = decider.pending
          /\ decider'.callback = decider.callback
      BY <3>1, <3>3 DEF TypeOK, Deciders
    <3>5. Deciders' = Deciders
      BY <1>12 DEF Deciders
    <3>6. TypeOK'
      BY <1>12, <2>1, <3>3, <3>4, <3>5 DEF DidRedirectNavigation, TypeOK
    <3> QED
      BY <2>1, <2>2, <3>4, <3>6 DEF PhaseOK
  <2> QED
    BY <2>3, <2>4
<1>13. ASSUME NEW u \in Pages, MainFrameResponse(u), UNCHANGED frames
       PROVE  TypeOK' /\ PhaseOK'
  <2>1. /\ decider' \in Deciders' /\ nav' \in Navigations
        /\ Len(decider'.chain) <= MaxChain
        /\ PhaseOK'
    BY <1>13, ResponseFacts
  <2>2. overtaken' \subseteq URLs
    BY <1>13, StillNeededTyped DEF MainFrameResponse
  <2> QED
    BY <1>13, <2>1, <2>2 DEF MainFrameResponse, TypeOK
<1>14. ASSUME DidFinishNavigation, UNCHANGED frames
       PROVE  TypeOK' /\ PhaseOK'
  <2>1. UpdateForMainFrameDocumentChange
    BY <1>14 DEF DidFinishNavigation
  <2>2. nav' \in Navigations /\ nav'.phase = "idle"
    BY <1>14 DEF DidFinishNavigation, Navigations, Idle
  <2>3. /\ item' \in Items \cup {Null} /\ results' \in [Checks -> Results]
        /\ unsafe' \in [main : URLs \cup {Null}, sub : SUBSET Items]
    BY <1>14, CommitItemTyped DEF DidFinishNavigation, TypeOK
  <2>4. overtaken' \subseteq URLs
    BY <1>14 DEF DidFinishNavigation, TypeOK
  <2>5. expected' \subseteq frames \X Items
    BY <1>14 DEF DidFinishNavigation
  <2>6. TypeOK'
    BY <1>14, <2>1, <2>2, <2>3, <2>4, <2>5, DocumentChangeTyped DEF TypeOK
  <2> QED
    BY <2>2, <2>6 DEF PhaseOK
<1>15. ASSUME OtherDocument, UNCHANGED frames
       PROVE  TypeOK' /\ PhaseOK'
  <2>1. UpdateForMainFrameDocumentChange /\ CommitItem
    BY <1>15 DEF OtherDocument
  <2>2. nav' \in Navigations /\ nav'.phase = "idle"
    BY <1>15 DEF OtherDocument, TypeOK
  <2>3. overtaken' \subseteq URLs
    BY <1>15 DEF OtherDocument, TypeOK
  <2>4. expected' \subseteq frames \X Items
    BY <1>15 DEF OtherDocument
  <2>5. TypeOK'
    BY <1>15, <2>1, <2>2, <2>3, <2>4, CommitItemTyped, DocumentChangeTyped DEF TypeOK
  <2> QED
    BY <2>2, <2>5 DEF PhaseOK
<1>16. ASSUME SameDocumentNavigation, UNCHANGED frames
       PROVE  TypeOK' /\ PhaseOK'
  <2>1. overtaken' \subseteq URLs
    BY <1>16 DEF SameDocumentNavigation, TypeOK
  <2>2. CommitItem
    BY <1>16 DEF SameDocumentNavigation
  <2> QED
    BY <1>16, <2>1, <2>2, CommitItemTyped DEF SameDocumentNavigation, TypeOK, PhaseOK, Deciders
<1>17. ASSUME UserDecides, UNCHANGED frames
       PROVE  TypeOK' /\ PhaseOK'
  <2>1. unsafe' \in [main : URLs \cup {Null}, sub : SUBSET Items]
    BY <1>17 DEF UserDecides, TypeOK
  <2> QED
    BY <1>17, <2>1 DEF UserDecides, TypeOK, PhaseOK, Deciders
<1>18. ASSUME RestoreSession, UNCHANGED frames
       PROVE  TypeOK' /\ PhaseOK'
  BY <1>18 DEF RestoreSession, TypeOK, PhaseOK, Deciders
<1>19. ASSUME UNCHANGED vars
       PROVE  TypeOK' /\ PhaseOK'
  BY <1>19 DEF vars, TypeOK, PhaseOK, Deciders
<1> QED
  BY <1>1, <1>2, <1>3, <1>4, <1>5, <1>6, <1>7, <1>8, <1>9, <1>10, <1>11, <1>12, <1>13,
     <1>14, <1>15, <1>16, <1>17, <1>18, <1>19
     DEF Next, Steps, Navigate, Reload, UrlCheckFinished

(* Types: the decider's queries, its chain, the checks under way and the       *)
(* navigation keep their shapes; a redirect for which ShouldAllowRequest was   *)
(* not called adds nothing to the chain (UpdateForMainFrameServerRedirect).    *)
THEOREM SafeBrowsingTypes == Spec => []TypeOK
<1>1. Init => TypeOK /\ PhaseOK
  BY InitTyped
<1>2. (TypeOK /\ PhaseOK) /\ [Next]_vars => (TypeOK /\ PhaseOK)'
  BY TypeStep
<1> QED
  BY <1>1, <1>2, PTL DEF Spec
-----------------------------------------------------------------------------
(* An error has its resource.                                                  *)

(* The steps, by what they do to the checks under way.                         *)
LEMMA ResultsStep ==
  ASSUME TypeOK, [Next]_vars
  PROVE  \/ results' = results
         \/ \E u \in URLs, frame \in {"main"} \cup Items : StartQuery(u, frame)
         \/ \E c \in Checks : CheckUrl(c) \/ HandleBlockingPageRequest(c) \/ Finished(c)
<1>1. CASE \E u \in Pages : Navigate(u) \/ Reload(u) \/ ServerRedirect(u)
  BY <1>1 DEF Pages, Navigate, Reload, Request, ServerRedirect, ShouldAllowMainRequest
<1>2. CASE \E u \in frames : SubFrameRequest(u) \/ SubFrameResponse(u)
  BY <1>2 DEF SubFrameRequest, SubFrameResponse, TypeOK
<1>3. CASE \E c \in Checks : CheckUrl(c) \/ HandleBlockingPageRequest(c) \/ UrlCheckFinished(c)
  BY <1>3 DEF UrlCheckFinished, StaleMainFrameCheck, MainFrameCheckFinished,
              StaleSubFrameCheck, SubFrameCheckFinished
<1>4. CASE \/ Leave \/ DidRedirectNavigation \/ \E u \in Pages : MainFrameResponse(u)
           \/ DidFinishNavigation \/ OtherDocument \/ SameDocumentNavigation
           \/ RestoreSession \/ UserDecides
  BY <1>4 DEF Leave, DidRedirectNavigation, MainFrameResponse, DidFinishNavigation,
              OtherDocument, SameDocumentNavigation, RestoreSession, UserDecides, CommitItem
<1>5. CASE UNCHANGED vars
  BY <1>5 DEF vars
<1> QED
  BY <1>1, <1>2, <1>3, <1>4, <1>5 DEF Next, Steps

LEMMA ErrorHasResourceStep ==
  ASSUME TypeOK, ErrorHasResource, [Next]_vars
  PROVE  ErrorHasResource'
<1>0. results \in [Checks -> Results]
  BY DEF TypeOK
<1>1. CASE results' = results
  BY <1>1 DEF ErrorHasResource
<1>2. ASSUME NEW u \in URLs, NEW frame \in {"main"} \cup Items, StartQuery(u, frame)
      PROVE  ErrorHasResource'
  <2> DEFINE new == [url |-> u, frame |-> frame, stage |-> "running", resource |-> FALSE]
  <2>1. PICK c \in Checks : results' = [results EXCEPT ![c] = new]
    BY <1>2 DEF StartQuery
  <2>2. new.stage # "error"
    OBVIOUS
  <2> HIDE DEF new
  <2> QED
    BY <1>0, <2>1, <2>2 DEF ErrorHasResource
<1>3. ASSUME NEW c \in Checks, CheckUrl(c)
      PROVE  ErrorHasResource'
  BY <1>0, <1>3 DEF CheckUrl, ErrorHasResource, Results
<1>4. ASSUME NEW c \in Checks, HandleBlockingPageRequest(c)
      PROVE  ErrorHasResource'
  <2>1. ASSUME NEW s \in {"cancel", "allow"}, results' = [results EXCEPT ![c].stage = s]
        PROVE  ErrorHasResource'
    BY <1>0, <2>1 DEF ErrorHasResource, Results
  <2>2. ASSUME results' = [StoreUnsafeResource(c) EXCEPT ![c].stage = "error"]
        PROVE  ErrorHasResource'
    <3> DEFINE stored == StoreUnsafeResource(c)
    <3>1. SameQuery(c, c)
      BY <1>4 DEF HandleBlockingPageRequest, SameQuery
    <3>2. /\ stored \in [Checks -> Results]
          /\ \A d \in Checks : /\ stored[d].stage = results[d].stage
                               /\ results[d].resource => stored[d].resource
          /\ stored[c].resource
      BY <1>0, <3>1 DEF StoreUnsafeResource, Results
    <3> HIDE DEF stored
    <3>3. results' = [stored EXCEPT ![c].stage = "error"]
      BY <2>2 DEF stored
    <3> QED
      BY <3>2, <3>3 DEF ErrorHasResource, Results
  <2> QED
    BY <1>4, <2>1, <2>2 DEF HandleBlockingPageRequest
<1>5. ASSUME NEW c \in Checks, Finished(c)
      PROVE  ErrorHasResource'
  <2>1. results' = [results EXCEPT ![c] = NoCheck] /\ NoCheck.stage # "error"
    BY <1>5 DEF Finished, NoCheck
  <2> QED
    BY <1>0, <2>1 DEF ErrorHasResource
<1>6. CASE CommitItem
  BY <1>0, <1>6 DEF CommitItem, ErrorHasResource, Results
<1> QED
  BY <1>1, <1>2, <1>3, <1>4, <1>5, <1>6, ResultsStep

(* UrlCheckFinished may assert that an answer that asks for an error page      *)
(* comes with the unsafe resource it is made of: StoreUnsafeResource has given *)
(* it to every query of the URL, so the order of the answers does not matter.  *)
THEOREM ErrorAlwaysHasResource == Spec => []ErrorHasResource
<1>1. Init => ErrorHasResource
  BY DEF Init, ErrorHasResource, NoCheck
<1>2. TypeOK /\ ErrorHasResource /\ [Next]_vars => ErrorHasResource'
  BY ErrorHasResourceStep
<1> QED
  BY <1>1, <1>2, SafeBrowsingTypes, PTL DEF Spec
-----------------------------------------------------------------------------
(* The tab implements ResponsePolicy.                                          *)

(* The steps, by what they do to the main frame's queries and navigation.      *)
LEMMA MainFrameSteps ==
  ASSUME TypeOK, [Next]_vars
  PROVE  /\ UNCHANGED frames
         /\ \/ \E u \in Pages, reload \in BOOLEAN : Request(u, reload)
            \/ \E u \in Pages : ServerRedirect(u)
            \/ DidRedirectNavigation
            \/ \E u \in Pages : MainFrameResponse(u)
            \/ \E c \in Checks : MainFrameCheckFinished(c)
            \/ /\ nav' = nav \/ nav' = Idle
               /\ decider'.pending = decider.pending /\ decider'.previous = decider.previous
               /\ decider'.chain = decider.chain /\ decider'.callback = decider.callback
<1>1. UNCHANGED frames
  BY DEF Next, vars
<1>2. CASE \E u \in Pages : Navigate(u) \/ Reload(u) \/ ServerRedirect(u)
  BY <1>1, <1>2 DEF Navigate, Reload
<1>3. CASE \E u \in frames : SubFrameRequest(u)
  <2>1. nav' = nav
    BY <1>3 DEF SubFrameRequest
  <2> QED
    BY <1>1, <1>3, <2>1, SubFrameRequestFacts
<1>4. CASE \E u \in frames : SubFrameResponse(u)
  <2>1. nav' = nav
    BY <1>4 DEF SubFrameResponse
  <2> QED
    BY <1>1, <1>4, <2>1, SubFrameResponseFacts
<1>5. CASE \E c \in Checks : \/ CheckUrl(c) \/ HandleBlockingPageRequest(c)
                             \/ StaleMainFrameCheck(c) \/ StaleSubFrameCheck(c)
  BY <1>1, <1>5
     DEF CheckUrl, HandleBlockingPageRequest, StaleMainFrameCheck, StaleSubFrameCheck
<1>6. CASE \E c \in Checks : SubFrameCheckFinished(c)
  <2>1. PICK c \in Checks : SubFrameCheckFinished(c)
    BY <1>6
  <2>2. nav' = nav \/ nav' = Idle
    BY <2>1 DEF SubFrameCheckFinished
  <2> QED
    BY <1>1, <2>1, <2>2, SubFrameCheckFinishedFacts
<1>7. CASE Leave \/ SameDocumentNavigation \/ RestoreSession \/ UserDecides \/ UNCHANGED vars
  BY <1>1, <1>7 DEF Leave, SameDocumentNavigation, RestoreSession, UserDecides, vars
<1>8. CASE DidFinishNavigation \/ OtherDocument
  <2>1. /\ UpdateForMainFrameDocumentChange
        /\ nav' = nav \/ nav' = Idle
    BY <1>8 DEF DidFinishNavigation, OtherDocument
  <2> QED
    BY <1>1, <2>1, DocumentChangeTyped
<1> QED
  BY <1>1, <1>2, <1>3, <1>4, <1>5, <1>6, <1>7, <1>8 DEF Next, Steps, UrlCheckFinished

(* DidRedirectNavigation appends the previous query to the chain, if any.      *)
LEMMA RedirectFacts ==
  ASSUME TypeOK, PhaseOK, DidRedirectNavigation
  PROVE  /\ nav.phase \in {"requested", "redirecting"}
         /\ nav'.phase = "requested" /\ nav'.asked = nav.asked /\ nav'.okay = nav.okay
         /\ nav'.document = nav.document
         /\ decider'.pending = decider.pending /\ decider'.callback = decider.callback
         /\ decider'.previous = Null
         /\ decider'.sub = decider.sub
         /\ Len(decider.chain) \in Nat /\ DOMAIN decider.chain = 1..Len(decider.chain)
         /\ Len(decider.chain) < MaxChain
         /\ decider.previous = Null => decider'.chain = decider.chain
         /\ decider.previous # Null =>
              /\ DOMAIN decider'.chain = 1..(Len(decider.chain) + 1)
              /\ \A k \in 1..Len(decider.chain) : decider'.chain[k] = decider.chain[k]
              /\ decider'.chain[Len(decider.chain) + 1] = decider.previous
<1>1. /\ nav.phase \in {"requested", "redirecting"}
      /\ nav'.phase = "requested" /\ nav'.asked = nav.asked /\ nav'.okay = nav.okay
      /\ nav'.document = nav.document
      /\ Len(decider.chain) < MaxChain
  BY DEF DidRedirectNavigation, TypeOK, Navigations, PhaseOK
<1>2. /\ decider.chain \in Seq(Queries) /\ decider.previous \in Queries \cup {Null}
      /\ Len(decider.chain) \in Nat /\ DOMAIN decider.chain = 1..Len(decider.chain)
  BY LenProperties DEF TypeOK, Deciders
<1>3. CASE decider.previous = Null
  BY <1>1, <1>2, <1>3 DEF DidRedirectNavigation, UpdateForMainFrameServerRedirect
<1>4. CASE decider.previous # Null
  <2> DEFINE chain == Append(decider.chain, decider.previous)
  <2>1. decider' = [decider EXCEPT !.chain = chain, !.previous = Null]
    BY <1>4 DEF DidRedirectNavigation, UpdateForMainFrameServerRedirect
  <2>2. /\ chain \in Seq(Queries) /\ DOMAIN chain = 1..(Len(decider.chain) + 1)
        /\ \A k \in 1..Len(decider.chain) : chain[k] = decider.chain[k]
        /\ chain[Len(decider.chain) + 1] = decider.previous
    BY <1>2, <1>4, AppendProperties
  <2> HIDE DEF chain
  <2>3. /\ decider'.pending = decider.pending /\ decider'.callback = decider.callback
        /\ decider'.previous = Null /\ decider'.chain = chain /\ decider'.sub = decider.sub
    BY <2>1 DEF TypeOK, Deciders
  <2> QED
    BY <1>1, <1>2, <1>4, <2>2, <2>3
<1> QED
  BY <1>3, <1>4

LEMMA CoveredStep ==
  ASSUME TypeOK, PhaseOK, NavigationCovered, [Next]_vars
  PROVE  NavigationCovered'
<1>0. UNCHANGED frames
  BY MainFrameSteps
<1>1. ASSUME NEW u \in Pages, NEW reload \in BOOLEAN, Request(u, reload)
      PROVE  NavigationCovered'
  <2>1. u \in URLs /\ ShouldAllowMainRequest(u, reload)
    BY <1>1 DEF Pages, Request
  <2>2. decider'.pending.url = u /\ decider'.pending.decision \in {Undecided, "error"}
    BY <1>0, <2>1, ShouldAllowMainRequestTyped
  <2>3. nav'.asked = {u}
    BY <1>1 DEF Request
  <2> QED
    BY <2>2, <2>3 DEF NavigationCovered, NotAllowed, Undecided
<1>2. ASSUME NEW u \in Pages, ServerRedirect(u)
      PROVE  NavigationCovered'
  <2>1. u \in URLs /\ nav.reload \in BOOLEAN /\ ShouldAllowMainRequest(u, nav.reload)
    BY <1>2 DEF Pages, ServerRedirect, TypeOK, Navigations
  <2>2. /\ decider'.pending.url = u /\ decider'.pending.decision \in {Undecided, "error"}
        /\ decider'.chain = decider.chain
        /\ decider'.previous = IF decider.pending # Null THEN decider.pending ELSE decider.previous
    BY <1>0, <2>1, ShouldAllowMainRequestTyped
  <2>3. /\ nav.phase = "requested" /\ nav'.phase = "redirecting"
        /\ nav'.asked = nav.asked \cup {u} /\ nav'.okay = nav.okay \ {u}
    BY <1>2 DEF ServerRedirect, TypeOK, Navigations
  <2>4. decider'.previous = decider.pending
    BY <2>2, <2>3 DEF PhaseOK
  <2>5. ASSUME NEW v \in nav'.asked \ nav'.okay
        PROVE  \/ NotAllowed(decider'.pending, v)
               \/ NotAllowed(decider'.previous, v)
               \/ \E k \in DOMAIN decider'.chain : NotAllowed(decider'.chain[k], v)
    <3>1. CASE v = u
      BY <2>2, <3>1 DEF NotAllowed, Undecided
    <3>2. CASE v # u
      BY <2>2, <2>3, <2>4, <2>5, <3>2 DEF NavigationCovered
    <3> QED
      BY <3>1, <3>2
  <2> QED
    BY <2>3, <2>5 DEF NavigationCovered
<1>3. ASSUME DidRedirectNavigation
      PROVE  NavigationCovered'
  <2>1. /\ nav.phase \in {"requested", "redirecting"}
        /\ nav'.phase = "requested" /\ nav'.asked = nav.asked /\ nav'.okay = nav.okay
        /\ decider'.pending = decider.pending /\ decider'.previous = Null
        /\ Len(decider.chain) \in Nat /\ DOMAIN decider.chain = 1..Len(decider.chain)
        /\ decider.previous = Null => decider'.chain = decider.chain
        /\ decider.previous # Null =>
             /\ DOMAIN decider'.chain = 1..(Len(decider.chain) + 1)
             /\ \A k \in 1..Len(decider.chain) : decider'.chain[k] = decider.chain[k]
             /\ decider'.chain[Len(decider.chain) + 1] = decider.previous
    BY <1>3, RedirectFacts
  <2>2. ASSUME NEW v \in nav'.asked \ nav'.okay
        PROVE  \/ NotAllowed(decider'.pending, v)
               \/ \E k \in DOMAIN decider'.chain : NotAllowed(decider'.chain[k], v)
    <3>1. v \in nav.asked \ nav.okay
      BY <2>1, <2>2
    <3>2. CASE NotAllowed(decider.pending, v)
      BY <2>1, <3>2
    <3>3. CASE nav.phase = "redirecting" /\ NotAllowed(decider.previous, v)
      <4>1. decider.previous # Null
        BY <3>3 DEF PhaseOK
      <4>2. Len(decider.chain) + 1 \in DOMAIN decider'.chain
        BY <2>1, <4>1
      <4> QED
        BY <2>1, <3>3, <4>1, <4>2
    <3>4. ASSUME NEW k \in DOMAIN decider.chain, NotAllowed(decider.chain[k], v)
          PROVE  \E l \in DOMAIN decider'.chain : NotAllowed(decider'.chain[l], v)
      <4>1. k \in DOMAIN decider'.chain /\ decider'.chain[k] = decider.chain[k]
        BY <2>1
      <4> QED
        BY <3>4, <4>1
    <3> QED
      BY <2>1, <3>1, <3>2, <3>3, <3>4 DEF NavigationCovered
  <2> QED
    BY <2>1, <2>2 DEF NavigationCovered
<1>4. ASSUME NEW url \in Pages, MainFrameResponse(url)
      PROVE  NavigationCovered'
  <2> DEFINE kept == IF decider.previous = Null THEN decider.chain ELSE << >>
  <2>1. /\ decider'.pending = decider.pending /\ decider'.previous = Null
        /\ nav'.asked = nav.asked /\ nav'.okay = nav.okay
        /\ nav'.phase \in Decisions \cup {"responding"}
        /\ nav'.phase = "responding" => decider'.chain = kept
    BY <1>0, <1>4, ResponseFacts
  <2>2. nav.phase = "requested"
    BY <1>4 DEF MainFrameResponse
  <2>3. CASE nav'.phase = "responding"
    BY <2>1, <2>2, <2>3 DEF NavigationCovered
  <2>4. CASE nav'.phase \in Decisions
    BY <2>4 DEF NavigationCovered, Decisions, Blocking
  <2> QED
    BY <2>1, <2>3, <2>4
<1>5. ASSUME NEW c \in Checks, MainFrameCheckFinished(c)
      PROVE  NavigationCovered'
  <2> DEFINE u == results[c].url
             decision == results[c].stage
             d == Stored(u, decision)
             answers == decider.callback /\ RedirectChainDecision(d) # Undecided
             k == OldestPendingMainFrameQuery(u)
  <2>1. decision \in Decisions /\ k # NotFound /\ OnMainFrameUrlQueryDecided(u, decision)
    BY <1>5 DEF MainFrameCheckFinished, Finished
  <2> HIDE DEF u, decision
  <2>2. /\ ~answers => decider' = d
        /\ nav'.asked = nav.asked
        /\ nav'.okay = IF decision = "allow" THEN nav.okay \cup ({u} \cap nav.asked) ELSE nav.okay
        /\ nav'.phase = IF answers /\ nav.phase = "responding"
                          THEN RedirectChainDecision(d) ELSE nav.phase
        /\ (answers /\ nav.phase = "responding") => nav'.phase \in Decisions
    BY <1>0, <2>1, DecidedFacts
  <2>3. /\ d.previous = decider.previous
        /\ DOMAIN d.chain = DOMAIN decider.chain
        /\ d.pending = IF k = 0 THEN [decider.pending EXCEPT !.decision = decision]
                       ELSE decider.pending
        /\ \A j \in DOMAIN d.chain :
             d.chain[j] = IF j = k THEN [decider.chain[k] EXCEPT !.decision = decision]
                          ELSE decider.chain[j]
    BY <2>1, StoredFacts
  <2>4. /\ QueryAt(k).url = u /\ QueryAt(k) \in Queries
        /\ 0 \notin DOMAIN decider.chain /\ NotFound \notin DOMAIN decider.chain
    BY <2>1, OldestFacts
  <2> HIDE DEF d, k
  <2>5. \A query \in Queries : /\ [query EXCEPT !.decision = decision].url = query.url
                               /\ [query EXCEPT !.decision = decision].decision = decision
    BY DEF Queries
  <2>6. CASE answers
    BY <2>2, <2>6 DEF NavigationCovered, PhaseOK, Decisions, Blocking
  <2>7. CASE ~answers
    <3>1. decider' = d /\ nav'.phase = nav.phase
      BY <2>2, <2>7
    <3> SUFFICES ASSUME nav.phase \in {"requested", "redirecting", "responding"},
                        NEW v \in nav'.asked \ nav'.okay
                 PROVE  \/ NotAllowed(d.pending, v)
                        \/ nav.phase = "redirecting" /\ NotAllowed(decider.previous, v)
                        \/ /\ nav.phase = "redirecting" \/ decider.previous = Null
                           /\ \E j \in DOMAIN d.chain : NotAllowed(d.chain[j], v)
      BY <2>3, <3>1 DEF NavigationCovered
    <3>2. v \in nav.asked \ nav.okay /\ (v = u => decision # "allow")
      BY <2>2
    <3>3. CASE NotAllowed(decider.pending, v)
      <4>1. CASE k = 0
        <5>1. decider.pending \in Queries /\ decider.pending.url = u
          BY <2>4, <4>1 DEF QueryAt
        <5> QED
          BY <2>3, <2>5, <3>2, <3>3, <4>1, <5>1 DEF NotAllowed
      <4>2. CASE k # 0
        BY <2>3, <3>3, <4>2
      <4> QED
        BY <4>1, <4>2
    <3>4. ASSUME NEW j \in DOMAIN decider.chain, NotAllowed(decider.chain[j], v)
          PROVE  \E l \in DOMAIN d.chain : NotAllowed(d.chain[l], v)
      <4>1. CASE j = k
        <5>1. decider.chain[k] \in Queries /\ decider.chain[k].url = u
          BY <2>4, <3>4, <4>1 DEF QueryAt
        <5>2. NotAllowed(d.chain[j], v)
          BY <2>3, <2>5, <3>2, <3>4, <4>1, <5>1 DEF NotAllowed
        <5> QED
          BY <2>3, <5>2
      <4>2. CASE j # k
        BY <2>3, <3>4, <4>2
      <4> QED
        BY <4>1, <4>2
    <3> QED
      BY <3>2, <3>3, <3>4 DEF NavigationCovered
  <2> QED
    BY <2>6, <2>7
<1>6. ASSUME nav' = nav \/ nav' = Idle,
             decider'.pending = decider.pending, decider'.previous = decider.previous,
             decider'.chain = decider.chain
      PROVE  NavigationCovered'
  BY <1>6 DEF NavigationCovered, Idle
<1> QED
  BY <1>1, <1>2, <1>3, <1>4, <1>5, <1>6, MainFrameSteps

(* Where the phases of a navigation are in ResponsePolicy.                     *)
LEMMA ResponseOfPhase ==
  /\ nav.phase \in {"idle", "requested", "redirecting"} => NavigationResponse = "none"
  /\ nav.phase = "responding" => NavigationResponse = "asked"
  /\ nav.phase = "allow" => NavigationResponse = "allowed"
  /\ nav.phase \in Blocking => NavigationResponse = "blocked"
  BY DEF NavigationResponse, Blocking

LEMMA ResponseOfNextPhase ==
  /\ nav'.phase \in {"idle", "requested", "redirecting"} => NavigationResponse' = "none"
  /\ nav'.phase = "responding" => NavigationResponse' = "asked"
  /\ nav'.phase = "allow" => NavigationResponse' = "allowed"
  /\ nav'.phase \in Blocking => NavigationResponse' = "blocked"
  /\ nav'.phase = nav.phase => NavigationResponse' = NavigationResponse
  BY DEF NavigationResponse, Blocking

LEMMA PolicyStep ==
  ASSUME TypeOK, PhaseOK, NavigationCovered, [Next]_vars
  PROVE  [Policy!Next]_(Policy!policyVars)
<1>0. UNCHANGED frames
  BY MainFrameSteps
<1>1. ASSUME NEW u \in Pages, NEW reload \in BOOLEAN, Request(u, reload)
      PROVE  Policy!Next
  <2>1. u \in URLs /\ nav'.phase = "requested" /\ nav'.asked = {u} /\ nav'.okay = {}
        /\ nav'.document = Null
    BY <1>1 DEF Request, Pages
  <2>2. Policy!Navigate(u)
    BY <2>1, ResponseOfNextPhase DEF Policy!Navigate
  <2> QED
    BY <2>1, <2>2 DEF Policy!Next
<1>2. ASSUME NEW u \in Pages, ServerRedirect(u)
      PROVE  Policy!Next
  <2>1. /\ u \in URLs /\ nav.phase = "requested" /\ nav'.phase = "redirecting"
        /\ nav'.asked = nav.asked \cup {u} /\ nav'.okay = nav.okay \ {u}
        /\ nav'.document = nav.document
    BY <1>2 DEF ServerRedirect, Pages, TypeOK, Navigations
  <2>2. Policy!Redirect(u)
    BY <2>1, ResponseOfPhase, ResponseOfNextPhase DEF Policy!Redirect
  <2> QED
    BY <2>1, <2>2 DEF Policy!Next
<1>3. ASSUME DidRedirectNavigation
      PROVE  UNCHANGED Policy!policyVars
  <2>1. /\ nav.phase \in {"requested", "redirecting"} /\ nav'.phase = "requested"
        /\ nav'.asked = nav.asked /\ nav'.okay = nav.okay /\ nav'.document = nav.document
    BY <1>3, RedirectFacts
  <2> QED
    BY <2>1, ResponseOfPhase, ResponseOfNextPhase DEF Policy!policyVars
<1>4. ASSUME NEW url \in Pages, MainFrameResponse(url)
      PROVE  Policy!Next
  <2> DEFINE kept == IF decider.previous = Null THEN decider.chain ELSE << >>
  <2>1. /\ nav'.asked = nav.asked /\ nav'.okay = nav.okay /\ nav'.document = url
        /\ nav'.phase \in Decisions \cup {"responding"}
        /\ nav'.phase = "allow" => /\ decider.pending.decision = "allow"
                                   /\ \A k \in DOMAIN kept : kept[k].decision = "allow"
    BY <1>0, <1>4, ResponseFacts
  <2>2. nav.phase = "requested" /\ url \in URLs
    BY <1>4 DEF MainFrameResponse, Pages
  <2>3. NavigationResponse = "none"
    BY <2>2, ResponseOfPhase
  <2>4. nav'.phase = "allow" => nav.asked \subseteq nav.okay
    BY <2>1, <2>2 DEF NavigationCovered, NotAllowed
  <2>5. \/ NavigationResponse' \in {"asked", "blocked"}
        \/ nav.asked \subseteq nav.okay /\ NavigationResponse' = "allowed"
    BY <2>1, <2>4, ResponseOfNextPhase DEF Decisions
  <2>6. Policy!Respond(url)
    BY <2>1, <2>3, <2>5 DEF Policy!Respond, Policy!Safe
  <2> QED
    BY <2>2, <2>6 DEF Policy!Next
<1>5. ASSUME NEW c \in Checks, MainFrameCheckFinished(c)
      PROVE  [Policy!Next]_(Policy!policyVars)
  <2> DEFINE u == results[c].url
             decision == results[c].stage
             d == Stored(u, decision)
             answers == decider.callback /\ RedirectChainDecision(d) # Undecided
             k == OldestPendingMainFrameQuery(u)
  <2>1. decision \in Decisions /\ k # NotFound /\ OnMainFrameUrlQueryDecided(u, decision)
    BY <1>5 DEF MainFrameCheckFinished, Finished
  <2> HIDE DEF u, decision
  <2>2. /\ nav'.asked = nav.asked /\ nav'.document = nav.document
        /\ nav'.okay = IF decision = "allow" THEN nav.okay \cup ({u} \cap nav.asked) ELSE nav.okay
        /\ nav'.phase = IF answers /\ nav.phase = "responding"
                          THEN RedirectChainDecision(d) ELSE nav.phase
        /\ (answers /\ nav.phase = "responding") => nav'.phase \in Decisions
    BY <1>0, <2>1, DecidedFacts
  <2>3. /\ DOMAIN d.chain = DOMAIN decider.chain
        /\ d.pending = IF k = 0 THEN [decider.pending EXCEPT !.decision = decision]
                       ELSE decider.pending
        /\ decider.pending # Null => d.pending \in Queries
        /\ d.chain \in Seq(Queries)
        /\ \A j \in DOMAIN d.chain :
             d.chain[j] = IF j = k THEN [decider.chain[k] EXCEPT !.decision = decision]
                          ELSE decider.chain[j]
    BY <2>1, StoredFacts DEF Deciders
  <2>4. QueryAt(k).url = u /\ QueryAt(k) \in Queries /\ NotFound \notin DOMAIN decider.chain
        /\ 0 \notin DOMAIN decider.chain
    BY <2>1, OldestFacts
  <2> HIDE DEF d, k
  <2>5. \A query \in Queries : [query EXCEPT !.decision = decision].decision = decision
    BY DEF Queries
  <2>6. nav'.phase = "allow" /\ nav.phase = "responding" => nav'.asked \subseteq nav'.okay
    <3> SUFFICES ASSUME nav'.phase = "allow", nav.phase = "responding",
                        NEW v \in nav.asked, v \notin nav'.okay
                 PROVE  FALSE
      BY <2>2
    <3>1. RedirectChainDecision(d) = "allow"
      BY <2>2
    <3>2. d.pending \in Queries
      BY <2>3 DEF PhaseOK
    <3>3. /\ d.pending.decision = "allow"
          /\ \A j \in DOMAIN d.chain : d.chain[j].decision = "allow"
      BY <2>3, <3>1, <3>2, VerdictFacts
    <3>4. v \notin nav.okay /\ (v = u => decision # "allow")
      BY <2>2
    <3>5. CASE NotAllowed(decider.pending, v)
      <4>1. k = 0
        BY <2>3, <3>3, <3>5 DEF NotAllowed
      <4>2. decider.pending \in Queries /\ decider.pending.url = u
        BY <2>4, <4>1 DEF QueryAt
      <4> QED
        BY <2>3, <2>5, <3>3, <3>4, <3>5, <4>1, <4>2 DEF NotAllowed
    <3>6. ASSUME NEW j \in DOMAIN decider.chain, NotAllowed(decider.chain[j], v)
          PROVE  FALSE
      <4>1. j = k
        BY <2>3, <3>3, <3>6 DEF NotAllowed
      <4>2. decider.chain[k] \in Queries /\ decider.chain[k].url = u
        BY <2>4, <3>6, <4>1 DEF QueryAt
      <4> QED
        BY <2>3, <2>5, <3>3, <3>4, <3>6, <4>1, <4>2 DEF NotAllowed
    <3> QED
      BY <3>4, <3>5, <3>6 DEF NavigationCovered
  <2>7. \/ NavigationResponse' = NavigationResponse
        \/ NavigationResponse = "asked" /\ NavigationResponse' = "blocked"
        \/ /\ NavigationResponse = "asked" /\ NavigationResponse' = "allowed"
           /\ nav'.asked \subseteq nav'.okay
    <3>1. CASE nav'.phase = nav.phase
      BY <3>1, ResponseOfNextPhase
    <3>2. CASE nav'.phase # nav.phase
      <4>1. nav.phase = "responding" /\ nav'.phase \in Decisions
        BY <2>2, <3>2
      <4> QED
        BY <2>6, <4>1, ResponseOfPhase, ResponseOfNextPhase DEF Decisions
    <3> QED
      BY <3>1, <3>2
  <2>8. CASE decision = "allow" /\ u \in nav.asked
    <3>1. u \in URLs /\ nav'.okay = nav.okay \cup {u}
      BY <2>2, <2>8 DEF TypeOK, Navigations
    <3>2. Policy!FoundSafe(u)
      BY <2>2, <2>7, <2>8, <3>1 DEF Policy!FoundSafe, Policy!Safe
    <3> QED
      BY <3>1, <3>2 DEF Policy!Next
  <2>9. CASE ~(decision = "allow" /\ u \in nav.asked)
    <3>1. nav'.okay = nav.okay
      BY <2>2, <2>9
    <3>2. Policy!Decide \/ UNCHANGED Policy!policyVars
      BY <2>2, <2>7, <3>1 DEF Policy!Decide, Policy!Safe, Policy!policyVars
    <3> QED
      BY <3>2 DEF Policy!Next
  <2> QED
    BY <2>8, <2>9
<1>6. ASSUME nav' = nav \/ nav' = Idle
      PROVE  [Policy!Next]_(Policy!policyVars)
  <2>1. CASE nav' = nav
    BY <2>1, ResponseOfNextPhase DEF Policy!policyVars
  <2>2. CASE nav' = Idle
    <3>1. nav'.phase = "idle" /\ nav'.asked = {} /\ nav'.okay = {} /\ nav'.document = Null
      BY <2>2 DEF Idle
    <3>2. Policy!Leave
      BY <3>1, ResponseOfNextPhase DEF Policy!Leave
    <3> QED
      BY <3>2 DEF Policy!Next
  <2> QED
    BY <1>6, <2>1, <2>2
<1> QED
  BY <1>1, <1>2, <1>3, <1>4, <1>5, <1>6, MainFrameSteps

(* The tab implements ResponsePolicy: MainFrameRedirectChainDecision lets a    *)
(* response through only after every URL that ShouldAllowRequest was called    *)
(* for in its navigation was found safe since, although queries of abandoned   *)
(* navigations stay in the decider and answers of one URL are given to its     *)
(* oldest query.  Of a document whose URL was not asked about it says nothing. *)
THEOREM SafeBrowsingImplementsPolicy == Spec => ImplementsPolicy
<1> DEFINE IInv == TypeOK /\ PhaseOK /\ NavigationCovered
<1>1. Init => IInv /\ Policy!Init
  <2> SUFFICES ASSUME Init PROVE IInv /\ Policy!Init
    OBVIOUS
  <2>1. nav.phase = "idle" /\ nav.asked = {} /\ nav.okay = {} /\ nav.document = Null
    BY DEF Init, Idle
  <2>2. NavigationCovered
    BY <2>1 DEF NavigationCovered
  <2> QED
    BY <2>1, <2>2, InitTyped, ResponseOfPhase DEF Policy!Init
<1>2. IInv /\ [Next]_vars => IInv'
  BY TypeStep, CoveredStep
<1>3. IInv /\ [Next]_vars => [Policy!Next]_(Policy!policyVars)
  BY PolicyStep
<1> QED
  BY <1>1, <1>2, <1>3, PTL DEF Spec, ImplementsPolicy, Policy!Spec
-----------------------------------------------------------------------------
(* Whoever waits has a check to wait for.                                      *)

(* A check that is still under way, for the same query.                        *)
Kept(c) ==
  results[c].stage # "free" =>
    /\ results'[c].stage # "free"
    /\ results'[c].url = results[c].url /\ results'[c].frame = results[c].frame

LEMMA StartQueryKeeps ==
  ASSUME TypeOK, NEW u, NEW frame, StartQuery(u, frame)
  PROVE  /\ \A c \in Checks : Kept(c)
         /\ \E c \in Checks : /\ results[c].stage = "free" /\ results'[c].stage # "free"
                              /\ results'[c].url = u /\ results'[c].frame = frame
<1> DEFINE new == [url |-> u, frame |-> frame, stage |-> "running", resource |-> FALSE]
<1>1. PICK c \in Checks : results[c].stage = "free" /\ results' = [results EXCEPT ![c] = new]
  BY DEF StartQuery
<1>2. new.stage # "free" /\ new.url = u /\ new.frame = frame
  OBVIOUS
<1> HIDE DEF new
<1> QED
  BY <1>1, <1>2 DEF TypeOK, Kept

LEMMA CheckStepKeeps ==
  ASSUME TypeOK, NEW c \in Checks, CheckUrl(c) \/ HandleBlockingPageRequest(c)
  PROVE  \A d \in Checks : Kept(d)
<1>0. results \in [Checks -> Results]
  BY DEF TypeOK
<1>1. ASSUME NEW s \in {"cancel", "allow"}, results' = [results EXCEPT ![c].stage = s]
      PROVE  \A d \in Checks : Kept(d)
  BY <1>0, <1>1 DEF Kept, Results
<1>2. ASSUME results' = [StoreUnsafeResource(c) EXCEPT ![c].stage = "error"]
      PROVE  \A d \in Checks : Kept(d)
  <2> DEFINE stored == StoreUnsafeResource(c)
  <2>1. /\ stored \in [Checks -> Results]
        /\ \A d \in Checks : /\ stored[d].stage = results[d].stage
                             /\ stored[d].url = results[d].url
                             /\ stored[d].frame = results[d].frame
    BY <1>0 DEF StoreUnsafeResource, Results
  <2>2. results' = [stored EXCEPT ![c].stage = "error"]
    BY <1>2
  <2> HIDE DEF stored
  <2> QED
    BY <2>1, <2>2 DEF Kept, Results
<1> QED
  BY <1>1, <1>2 DEF CheckUrl, HandleBlockingPageRequest

LEMMA FinishedKeeps ==
  ASSUME TypeOK, NEW c \in Checks, Finished(c)
  PROVE  /\ \A d \in Checks \ {c} : Kept(d)
         /\ results[c].stage \in Decisions
<1>1. results' = [results EXCEPT ![c] = NoCheck]
  BY DEF Finished
<1> QED
  BY <1>1 DEF TypeOK, Finished, Kept

(* An answer that was thrown away is forgotten once nobody needs it.           *)
LEMMA StillNeededFacts ==
  ASSUME TypeOK, StillNeeded, decider' \in Deciders', NEW k \in AwaitedPlaces'
  PROVE  QueryAt(k)'.url \notin overtaken
<1>1. /\ k \in DOMAIN decider'.chain \cup {0, NotFound}
      /\ QueryAt(k)' # Null /\ QueryAt(k)'.url \notin overtaken'
  BY DEF AwaitedPlaces
<1>2. /\ decider'.pending \in Queries \cup {Null} /\ decider'.previous \in Queries \cup {Null}
      /\ \A j \in DOMAIN decider'.chain : decider'.chain[j] \in Queries
  BY ElementOfSeq, LenProperties DEF Deciders
<1>3. QueryAt(k)' = IF k = 0 THEN decider'.pending
                    ELSE IF k = NotFound THEN decider'.previous ELSE decider'.chain[k]
  BY DEF QueryAt, NotFound
<1>4. QueryAt(k)' \in Queries
  BY <1>1, <1>2, <1>3
<1>5. QueryAt(k)'.url \in Needed(decider')
  BY <1>1, <1>3, <1>4 DEF Needed, Queries
<1> QED
  BY <1>1, <1>5 DEF StillNeeded, TypeOK

(* Every query that is awaited after a step was awaited before it, at the      *)
(* place p gives, or is a fresh one, the pending query, with the new check c0. *)
Carries(f, p, fresh, c0) ==
  /\ fresh \subseteq {0}
  /\ \A k \in AwaitedPlaces' \ fresh : /\ p[k] \in AwaitedPlaces
                                       /\ QueryAt(k)'.url = QueryAt(p[k]).url
                                       /\ Kept(f[p[k]])
  /\ \A k, l \in AwaitedPlaces' \ fresh : p[k] = p[l] => k = l
  /\ \A k \in AwaitedPlaces' \cap fresh : /\ c0 \in Checks
                                          /\ results[c0].stage = "free"
                                          /\ results'[c0].stage # "free"
                                          /\ results'[c0].frame = "main"
                                          /\ results'[c0].url = QueryAt(k)'.url

LEMMA CarryAwaited ==
  ASSUME NEW f \in [AwaitedPlaces -> Checks], Awaits(f),
         NEW p, NEW fresh, NEW c0, Carries(f, p, fresh, c0)
  PROVE  QueriesAwaited'
<1> USE DEF Carries
<1> DEFINE P == AwaitedPlaces'
           h == [k \in P |-> IF k \in fresh THEN c0 ELSE f[p[k]]]
<1>1. PICK g \in [P -> Checks] : \A k \in P : g[k] = IF k \in fresh THEN c0 ELSE f[p[k]]
  <2>1. h \in [P -> Checks]
    OBVIOUS
  <2>2. \A k \in P : h[k] = IF k \in fresh THEN c0 ELSE f[p[k]]
    OBVIOUS
  <2> QED
    BY <2>1, <2>2
<1>2. \A k \in P \ fresh : /\ g[k] = f[p[k]] /\ results[g[k]].stage # "free"
                           /\ results'[g[k]].stage # "free"
                           /\ results'[g[k]].frame = "main"
                           /\ results'[g[k]].url = QueryAt(k)'.url
  BY <1>1 DEF Awaits, Kept
<1>3. \A k \in P \cap fresh : g[k] = c0
  BY <1>1
<1>4. ASSUME NEW k \in P, NEW l \in P, g[k] = g[l]
      PROVE  k = l
  <2>1. CASE k \in fresh /\ l \in fresh
    BY <2>1
  <2>2. CASE k \in fresh /\ l \notin fresh
    BY <1>2, <1>3, <1>4, <2>2
  <2>3. CASE k \notin fresh /\ l \in fresh
    BY <1>2, <1>3, <1>4, <2>3
  <2>4. CASE k \notin fresh /\ l \notin fresh
    <3>1. f[p[k]] = f[p[l]]
      BY <1>2, <1>4, <2>4
    <3>2. p[k] = p[l]
      BY <2>4, <3>1 DEF Awaits
    <3> QED
      BY <2>4, <3>2
  <2> QED
    BY <2>1, <2>2, <2>3, <2>4
<1>5. \A k \in P : /\ results'[g[k]].stage # "free" /\ results'[g[k]].frame = "main"
                   /\ results'[g[k]].url = QueryAt(k)'.url
  BY <1>2, <1>3
<1>6. Awaits(g)'
  BY <1>4, <1>5 DEF Awaits
<1> QED
  BY <1>1, <1>6 DEF QueriesAwaited

(* The places of queries do not collide.                                       *)
LEMMA ChainPlaces ==
  ASSUME NEW d, d.chain \in Seq(Queries), Len(d.chain) <= MaxChain
  PROVE  /\ DOMAIN d.chain = 1..Len(d.chain) /\ Len(d.chain) \in Nat
         /\ DOMAIN d.chain \subseteq 1..MaxChain
         /\ 0 \notin DOMAIN d.chain /\ NotFound \notin DOMAIN d.chain
         /\ NotFound # 0
<1>1. Len(d.chain) \in Nat /\ DOMAIN d.chain = 1..Len(d.chain)
  BY LenProperties
<1> QED
  BY <1>1, SafeBrowsingAssumption DEF NotFound

(* Queries that stay where they are keep their checks.                         *)
LEMMA CarryInPlace ==
  ASSUME TypeOK,
         NEW f \in [AwaitedPlaces -> Checks], Awaits(f),
         \A k \in AwaitedPlaces' : /\ k \in AwaitedPlaces
                                   /\ QueryAt(k)'.url = QueryAt(k).url
                                   /\ Kept(f[k])
  PROVE  QueriesAwaited'
<1>1. PICK p : \A k \in AwaitedPlaces' : p[k] = k
  <2> DEFINE same == [k \in AwaitedPlaces' |-> k]
  <2>1. \A k \in AwaitedPlaces' : same[k] = k
    OBVIOUS
  <2> QED
    BY <2>1
<1>2. Carries(f, p, {}, {})
  BY <1>1 DEF Carries
<1> QED
  BY <1>2, CarryAwaited

(* The queries after ShouldAllowRequest: the pending one is new and has a new  *)
(* check if it is undecided, the one before it is the previous one.            *)
LEMMA RequestAwaited ==
  ASSUME TypeOK, TypeOK', UNCHANGED frames, QueriesAwaited, StillNeeded,
         NEW u \in URLs, NEW reload \in BOOLEAN, ShouldAllowMainRequest(u, reload)
  PROVE  QueriesAwaited'
<1>1. PICK f \in [AwaitedPlaces -> Checks] : Awaits(f)
  BY DEF QueriesAwaited
<1>2. /\ decider' \in Deciders' /\ decider'.chain = decider.chain
      /\ decider'.pending # Null /\ decider'.pending.url = u
      /\ decider'.previous = IF decider.pending # Null THEN decider.pending ELSE decider.previous
  BY ShouldAllowMainRequestTyped
<1>3. /\ 0 \notin DOMAIN decider.chain /\ NotFound \notin DOMAIN decider.chain /\ NotFound # 0
  BY ChainPlaces DEF TypeOK, Deciders
<1>4. PICK p : \A k \in AwaitedPlaces' :
        p[k] = IF k = NotFound /\ decider.pending # Null THEN 0 ELSE k
  <2> DEFINE moved == [k \in AwaitedPlaces' |->
                         IF k = NotFound /\ decider.pending # Null THEN 0 ELSE k]
  <2>1. \A k \in AwaitedPlaces' :
          moved[k] = IF k = NotFound /\ decider.pending # Null THEN 0 ELSE k
    OBVIOUS
  <2> QED
    BY <2>1
<1>5. ASSUME NEW k \in AwaitedPlaces' \ {0}
      PROVE  p[k] \in AwaitedPlaces /\ QueryAt(k)' = QueryAt(p[k])
  <2>1. /\ k \in DOMAIN decider.chain \cup {NotFound}
        /\ QueryAt(k)' # Null /\ QueryAt(k)'.decision = Undecided
    BY <1>2, <1>5 DEF AwaitedPlaces
  <2>2. QueryAt(k)'.url \notin overtaken
    BY <1>2, StillNeededFacts
  <2>3. QueryAt(k)' = IF k = NotFound THEN decider'.previous ELSE decider'.chain[k]
    BY <1>5 DEF QueryAt, NotFound
  <2>4. QueryAt(k)' = QueryAt(p[k])
    BY <1>2, <1>3, <1>4, <2>1, <2>3 DEF QueryAt
  <2>5. p[k] \in DOMAIN decider.chain \cup {0, NotFound}
    BY <1>4, <2>1
  <2> QED
    BY <2>1, <2>2, <2>4, <2>5 DEF AwaitedPlaces
<1>6. \A k, l \in AwaitedPlaces' \ {0} : p[k] = p[l] => k = l
  BY <1>2, <1>3, <1>4 DEF AwaitedPlaces
<1>7. \A c \in Checks : Kept(c)
  BY StartQueryKeeps DEF ShouldAllowMainRequest, Kept
<1>8. PICK c0 : 0 \in AwaitedPlaces' =>
                  /\ c0 \in Checks
                  /\ results[c0].stage = "free" /\ results'[c0].stage # "free"
                  /\ results'[c0].frame = "main" /\ results'[c0].url = u
  <2>1. CASE KnownUnsafe(u, reload)
    <3>1. decider' = [[decider EXCEPT
                         !.previous = IF decider.pending # Null THEN decider.pending ELSE @,
                         !.pending = MainFrameUrlQuery(u), !.callback = FALSE]
                        EXCEPT !.pending.decision = "error"]
      BY <2>1 DEF ShouldAllowMainRequest
    <3>2. decider'.pending.decision = "error"
      BY <3>1 DEF TypeOK, Deciders, MainFrameUrlQuery
    <3>3. QueryAt(0)' = decider'.pending
      BY DEF QueryAt
    <3>4. 0 \notin AwaitedPlaces'
      BY <3>2, <3>3 DEF AwaitedPlaces, Undecided
    <3> QED
      BY <3>4
  <2>2. CASE ~KnownUnsafe(u, reload)
    BY <2>2, StartQueryKeeps DEF ShouldAllowMainRequest
  <2> QED
    BY <2>1, <2>2
<1>9. QueryAt(0)'.url = u
  BY <1>2 DEF QueryAt
<1>10. Carries(f, p, {0}, c0)
  BY <1>5, <1>6, <1>7, <1>8, <1>9 DEF Carries
<1> QED
  BY <1>1, <1>10, CarryAwaited

(* The previous query keeps its check when it becomes part of the chain.       *)
LEMMA RedirectAwaited ==
  ASSUME TypeOK, PhaseOK, QueriesAwaited, DidRedirectNavigation
  PROVE  QueriesAwaited'
<1>1. PICK f \in [AwaitedPlaces -> Checks] : Awaits(f)
  BY DEF QueriesAwaited
<1>2. /\ decider'.pending = decider.pending /\ decider'.previous = Null
      /\ Len(decider.chain) \in Nat /\ DOMAIN decider.chain = 1..Len(decider.chain)
      /\ Len(decider.chain) < MaxChain
      /\ decider.previous = Null => decider'.chain = decider.chain
      /\ decider.previous # Null =>
           /\ DOMAIN decider'.chain = 1..(Len(decider.chain) + 1)
           /\ \A k \in 1..Len(decider.chain) : decider'.chain[k] = decider.chain[k]
           /\ decider'.chain[Len(decider.chain) + 1] = decider.previous
  BY RedirectFacts
<1>3. UNCHANGED <<results, overtaken>>
  BY DEF DidRedirectNavigation
<1> DEFINE last == Len(decider.chain) + 1
<1>4. last \in Nat /\ last # 0 /\ last # NotFound /\ last \notin DOMAIN decider.chain
  BY <1>2, SafeBrowsingAssumption DEF NotFound
<1>5. /\ 0 \notin DOMAIN decider.chain /\ NotFound \notin DOMAIN decider.chain /\ NotFound # 0
      /\ NotFound \notin DOMAIN decider'.chain
  BY <1>2, <1>4, SafeBrowsingAssumption DEF NotFound
<1> HIDE DEF last
<1>6. PICK p : \A k \in AwaitedPlaces' : p[k] = IF k = last THEN NotFound ELSE k
  <2> DEFINE moved == [k \in AwaitedPlaces' |-> IF k = last THEN NotFound ELSE k]
  <2>1. \A k \in AwaitedPlaces' : moved[k] = IF k = last THEN NotFound ELSE k
    OBVIOUS
  <2> QED
    BY <2>1
<1>7. QueryAt(NotFound)' = Null
  BY <1>2, <1>5 DEF QueryAt, NotFound
<1>8. ASSUME NEW k \in AwaitedPlaces'
      PROVE  p[k] \in AwaitedPlaces /\ QueryAt(k)' = QueryAt(p[k]) /\ k # NotFound
  <2>1. /\ k \in DOMAIN decider'.chain \cup {0}
        /\ QueryAt(k)' # Null /\ QueryAt(k)'.decision = Undecided
        /\ QueryAt(k)'.url \notin overtaken
        /\ k # NotFound
    BY <1>3, <1>7, <1>8 DEF AwaitedPlaces
  <2>2. QueryAt(k)' = IF k = 0 THEN decider'.pending ELSE decider'.chain[k]
    BY <2>1 DEF QueryAt, NotFound
  <2>3. CASE k = last
    <3>1. decider.previous # Null
      BY <1>2, <1>4, <2>1, <2>3 DEF last
    <3>2. QueryAt(k)' = decider.previous
      BY <1>2, <1>4, <2>2, <2>3, <3>1 DEF last
    <3>3. QueryAt(NotFound) = decider.previous
      BY <1>5 DEF QueryAt
    <3> QED
      BY <1>6, <2>1, <2>3, <3>2, <3>3 DEF AwaitedPlaces
  <2>4. CASE k # last
    <3>1. k \in DOMAIN decider.chain \cup {0}
      BY <1>2, <2>1, <2>4 DEF last
    <3>2. QueryAt(k)' = QueryAt(k)
      BY <1>2, <1>5, <2>2, <3>1 DEF QueryAt
    <3> QED
      BY <1>6, <2>1, <2>4, <3>1, <3>2 DEF AwaitedPlaces
  <2> QED
    BY <2>3, <2>4
<1>9. \A k, l \in AwaitedPlaces' : p[k] = p[l] => k = l
  BY <1>6, <1>8
<1>10. Carries(f, p, {}, {})
  BY <1>3, <1>8, <1>9 DEF Kept, Carries
<1> QED
  BY <1>1, <1>10, CarryAwaited

(* A response drops the chain of an earlier navigation, or keeps all queries.  *)
LEMMA ResponseAwaited ==
  ASSUME TypeOK, PhaseOK, UNCHANGED frames, QueriesAwaited,
         NEW url \in Pages, MainFrameResponse(url)
  PROVE  QueriesAwaited'
<1>1. PICK f \in [AwaitedPlaces -> Checks] : Awaits(f)
  BY DEF QueriesAwaited
<1>2. /\ decider' \in Deciders'
      /\ decider'.pending = decider.pending /\ decider'.previous = Null
      /\ decider'.chain = decider.chain \/ decider'.chain = << >>
  <2>1. nav'.phase = "responding" \/ nav'.phase # "responding"
    OBVIOUS
  <2> QED
    BY <2>1, ResponseFacts
<1>3. StillNeeded /\ results' = results
  BY DEF MainFrameResponse
<1>4. NotFound \notin DOMAIN decider.chain /\ NotFound # 0 /\ 0 \notin DOMAIN decider.chain
  BY ChainPlaces DEF TypeOK, Deciders
<1>5. ASSUME NEW k \in AwaitedPlaces'
      PROVE  k \in AwaitedPlaces /\ QueryAt(k)' = QueryAt(k)
  <2>1. /\ k \in DOMAIN decider'.chain \cup {0, NotFound}
        /\ QueryAt(k)' # Null /\ QueryAt(k)'.decision = Undecided
    BY DEF AwaitedPlaces
  <2>2. QueryAt(k)'.url \notin overtaken
    BY <1>2, <1>3, StillNeededFacts
  <2>3. QueryAt(k)' = IF k = 0 THEN decider'.pending
                      ELSE IF k = NotFound THEN Null ELSE decider'.chain[k]
    BY <1>2 DEF QueryAt, NotFound
  <2>4. DOMAIN << >> = {}
    OBVIOUS
  <2>5. k \in DOMAIN decider.chain \cup {0} /\ QueryAt(k)' = QueryAt(k)
    BY <1>2, <1>4, <2>1, <2>3, <2>4 DEF QueryAt
  <2> QED
    BY <2>1, <2>2, <2>5 DEF AwaitedPlaces
<1>6. \A k \in AwaitedPlaces' : Kept(f[k])
  BY <1>3 DEF Kept
<1> QED
  BY <1>1, <1>5, <1>6, CarryInPlace

(* The answer goes to the oldest query of the URL.  If another query had this  *)
(* check for its own, it takes over the check of the oldest one.               *)
LEMMA DecidedAwaited ==
  ASSUME TypeOK, PhaseOK, UNCHANGED frames, QueriesAwaited,
         NEW c \in Checks, MainFrameCheckFinished(c)
  PROVE  QueriesAwaited'
<1> DEFINE u == results[c].url
           decision == results[c].stage
           d == Stored(u, decision)
           oldest == OldestPendingMainFrameQuery(u)
<1>1. PICK f \in [AwaitedPlaces -> Checks] : Awaits(f)
  BY DEF QueriesAwaited
<1>2. /\ decision \in Decisions /\ oldest # NotFound
      /\ OnMainFrameUrlQueryDecided(u, decision)
      /\ Finished(c) /\ StillNeeded
  BY DEF MainFrameCheckFinished, Finished
<1>3. \A e \in Checks \ {c} : Kept(e)
  BY <1>2, FinishedKeeps
<1> HIDE DEF u, decision
<1>4. /\ decider' \in Deciders'
      /\ decider'.pending = d.pending /\ decider'.previous = d.previous
      /\ decider'.chain = d.chain \/ decider'.chain = << >>
  BY <1>2, DecidedFacts
<1>5. /\ d.previous = decider.previous /\ DOMAIN d.chain = DOMAIN decider.chain
      /\ d.pending = IF oldest = 0 THEN [decider.pending EXCEPT !.decision = decision]
                     ELSE decider.pending
      /\ \A j \in DOMAIN d.chain :
           d.chain[j] = IF j = oldest THEN [decider.chain[oldest] EXCEPT !.decision = decision]
                        ELSE decider.chain[j]
  BY <1>2, StoredFacts
<1>6. /\ oldest \in DOMAIN decider.chain \cup {0}
      /\ QueryAt(oldest) \in Queries
      /\ QueryAt(oldest).url = u /\ QueryAt(oldest).decision = Undecided
  BY <1>2, OldestFacts
<1>7. NotFound \notin DOMAIN decider.chain /\ NotFound # 0 /\ 0 \notin DOMAIN decider.chain
  BY ChainPlaces DEF TypeOK, Deciders
<1> HIDE DEF d, oldest
<1>8. /\ \A query \in Queries : [query EXCEPT !.decision = decision].decision = decision
      /\ decision # Undecided /\ \A query \in Queries : query # Null
  BY <1>2, SafeBrowsingAssumption DEF Queries, Decisions, Blocking, Undecided
<1>9. ASSUME NEW k \in AwaitedPlaces'
      PROVE  k \in AwaitedPlaces /\ QueryAt(k)' = QueryAt(k) /\ k # oldest
  <2>1. /\ k \in DOMAIN decider'.chain \cup {0, NotFound}
        /\ QueryAt(k)' # Null /\ QueryAt(k)'.decision = Undecided
    BY DEF AwaitedPlaces
  <2>2. QueryAt(k)'.url \notin overtaken
    BY <1>2, <1>4, StillNeededFacts
  <2>3. QueryAt(k)' = IF k = 0 THEN decider'.pending
                      ELSE IF k = NotFound THEN decider'.previous ELSE decider'.chain[k]
    BY DEF QueryAt, NotFound
  <2>4. DOMAIN << >> = {}
    OBVIOUS
  <2>5. k \in DOMAIN decider.chain \cup {0, NotFound}
    BY <1>4, <1>5, <2>1, <2>4
  <2>6. k # oldest
    <3> SUFFICES ASSUME k = oldest PROVE FALSE
      OBVIOUS
    <3>1. QueryAt(k)' = [QueryAt(oldest) EXCEPT !.decision = decision]
      BY <1>4, <1>5, <1>6, <1>7, <2>1, <2>3, <2>4 DEF QueryAt
    <3> QED
      BY <1>6, <1>8, <2>1, <3>1
  <2>7. QueryAt(k)' = QueryAt(k)
    BY <1>4, <1>5, <1>7, <2>1, <2>3, <2>4, <2>6 DEF QueryAt
  <2> QED
    BY <2>1, <2>2, <2>5, <2>6, <2>7 DEF AwaitedPlaces
<1>10. PICK p : \A k \in AwaitedPlaces' : p[k] = IF f[k] = c THEN oldest ELSE k
  <2> DEFINE moved == [k \in AwaitedPlaces' |-> IF f[k] = c THEN oldest ELSE k]
  <2>1. \A k \in AwaitedPlaces' : moved[k] = IF f[k] = c THEN oldest ELSE k
    OBVIOUS
  <2> QED
    BY <2>1
<1>11. ASSUME NEW k \in AwaitedPlaces'
       PROVE  p[k] \in AwaitedPlaces /\ QueryAt(k)'.url = QueryAt(p[k]).url /\ Kept(f[p[k]])
  <2>0. k \in AwaitedPlaces /\ QueryAt(k)' = QueryAt(k) /\ k # oldest
    BY <1>9
  <2>1. CASE f[k] = c
    <3>1. QueryAt(k).url = u
      BY <1>1, <2>0, <2>1 DEF Awaits, u
    <3>2. u \notin overtaken
      BY <2>0, <3>1 DEF AwaitedPlaces
    <3>3. oldest \in AwaitedPlaces
      BY <1>6, <1>8, <3>2 DEF AwaitedPlaces
    <3>4. f[oldest] \in Checks \ {c}
      BY <1>1, <2>0, <2>1, <3>3 DEF Awaits
    <3> QED
      BY <1>3, <1>6, <1>10, <2>0, <2>1, <3>1, <3>3, <3>4
  <2>2. CASE f[k] # c
    <3>1. f[k] \in Checks \ {c}
      BY <1>1, <2>0, <2>2
    <3> QED
      BY <1>3, <1>10, <2>0, <2>2, <3>1
  <2> QED
    BY <2>1, <2>2
<1>12. \A k, l \in AwaitedPlaces' : p[k] = p[l] => k = l
  BY <1>1, <1>9, <1>10 DEF Awaits
<1>13. Carries(f, p, {}, {})
  BY <1>11, <1>12 DEF Carries
<1> QED
  BY <1>1, <1>13, CarryAwaited

(* An answer that finds no query in the chain or pending was awaited by the    *)
(* previous query only, which it overtakes.                                    *)
LEMMA StaleAwaited ==
  ASSUME TypeOK, QueriesAwaited, NEW c \in Checks, StaleMainFrameCheck(c)
  PROVE  QueriesAwaited'
<1> DEFINE u == results[c].url
<1>1. PICK f \in [AwaitedPlaces -> Checks] : Awaits(f)
  BY DEF QueriesAwaited
<1>2. /\ OldestPendingMainFrameQuery(u) = NotFound /\ Finished(c) /\ decider' = decider
      /\ overtaken' = IF decider.previous # Null /\ decider.previous.url = u
                             THEN overtaken \cup {u} ELSE overtaken
  BY DEF StaleMainFrameCheck, TypeOK
<1> HIDE DEF u
<1>3. \A e \in Checks \ {c} : Kept(e)
  BY <1>2, FinishedKeeps
<1>4. /\ NotFound \notin DOMAIN decider.chain \cup {0}
      /\ \A k \in DOMAIN decider.chain \cup {0} :
           ~(QueryAt(k) # Null /\ QueryAt(k).url = u /\ QueryAt(k).decision = Undecided)
  BY <1>2, OldestFacts
<1>5. \A k : QueryAt(k)' = QueryAt(k)
  BY <1>2 DEF QueryAt, NotFound
<1>6. ASSUME NEW k \in AwaitedPlaces'
      PROVE  k \in AwaitedPlaces /\ QueryAt(k)'.url = QueryAt(k).url /\ Kept(f[k])
  <2>1. /\ k \in DOMAIN decider.chain \cup {0, NotFound}
        /\ QueryAt(k) # Null /\ QueryAt(k).decision = Undecided
        /\ QueryAt(k).url \notin overtaken'
    BY <1>2, <1>5, <1>6 DEF AwaitedPlaces
  <2>2. k \in AwaitedPlaces
    BY <1>2, <2>1 DEF AwaitedPlaces
  <2>3. f[k] # c
    <3> SUFFICES ASSUME f[k] = c PROVE FALSE
      OBVIOUS
    <3>1. QueryAt(k).url = u
      BY <1>1, <2>2 DEF Awaits, u
    <3>2. k = NotFound
      BY <1>4, <2>1, <3>1
    <3>3. QueryAt(k) = decider.previous
      BY <1>4, <3>2 DEF QueryAt
    <3> QED
      BY <1>2, <2>1, <3>1, <3>3
  <2> QED
    BY <1>1, <1>3, <1>5, <2>2, <2>3
<1> QED
  BY <1>1, <1>6, CarryInPlace

(* A step that changes none of the main frame's queries or checks.             *)
LEMMA OtherAwaited ==
  ASSUME TypeOK, QueriesAwaited,
         decider'.pending = decider.pending, decider'.previous = decider.previous,
         decider'.chain = decider.chain, overtaken' = overtaken,
         \A c \in Checks : results[c].frame = "main" => Kept(c)
  PROVE  QueriesAwaited'
<1>1. PICK f \in [AwaitedPlaces -> Checks] : Awaits(f)
  BY DEF QueriesAwaited
<1>2. \A k : QueryAt(k)' = QueryAt(k)
  BY DEF QueryAt, NotFound
<1>3. AwaitedPlaces' = AwaitedPlaces
  BY <1>2 DEF AwaitedPlaces
<1>4. \A k \in AwaitedPlaces' : Kept(f[k])
  BY <1>1, <1>3 DEF Awaits
<1> QED
  BY <1>1, <1>2, <1>3, <1>4, CarryInPlace

LEMMA QueriesAwaitedStep ==
  ASSUME TypeOK, PhaseOK, QueriesAwaited, [Next]_vars
  PROVE  QueriesAwaited'
<1>0. UNCHANGED frames /\ TypeOK'
  BY MainFrameSteps, TypeStep
<1>1. ASSUME NEW u \in Pages, NEW reload \in BOOLEAN, Request(u, reload)
      PROVE  QueriesAwaited'
  BY <1>0, <1>1, RequestAwaited DEF Request, Pages
<1>2. ASSUME NEW u \in Pages, ServerRedirect(u)
      PROVE  QueriesAwaited'
  BY <1>0, <1>2, RequestAwaited DEF ServerRedirect, Pages, TypeOK, Navigations
<1>3. ASSUME NEW u \in frames, SubFrameRequest(u) \/ SubFrameResponse(u)
      PROVE  QueriesAwaited'
  <2>1. /\ decider'.pending = decider.pending /\ decider'.previous = decider.previous
        /\ decider'.chain = decider.chain
    BY <1>0, <1>3, SubFrameRequestFacts, SubFrameResponseFacts
  <2>2. \A c \in Checks : Kept(c)
    <3>1. CASE StartQuery(u, item)
      BY <3>1, StartQueryKeeps
    <3>2. CASE results' = results
      BY <3>2 DEF Kept
    <3> QED
      BY <1>3, <3>1, <3>2 DEF SubFrameRequest, SubFrameResponse
  <2>3. overtaken' = overtaken
    BY <1>3 DEF SubFrameRequest, SubFrameResponse
  <2> QED
    BY <2>1, <2>2, <2>3, OtherAwaited
<1>4. ASSUME NEW c \in Checks, CheckUrl(c) \/ HandleBlockingPageRequest(c)
      PROVE  QueriesAwaited'
  <2>1. UNCHANGED <<decider, overtaken>>
    BY <1>4 DEF CheckUrl, HandleBlockingPageRequest
  <2> QED
    BY <1>4, <2>1, CheckStepKeeps, OtherAwaited
<1>5. ASSUME NEW c \in Checks, StaleSubFrameCheck(c) \/ SubFrameCheckFinished(c)
      PROVE  QueriesAwaited'
  <2>1. Finished(c) /\ results[c].frame # "main" /\ overtaken' = overtaken
    BY <1>5 DEF StaleSubFrameCheck, SubFrameCheckFinished
  <2>2. /\ decider'.pending = decider.pending /\ decider'.previous = decider.previous
        /\ decider'.chain = decider.chain
    BY <1>0, <1>5, SubFrameCheckFinishedFacts DEF StaleSubFrameCheck
  <2>3. \A e \in Checks : results[e].frame = "main" => Kept(e)
    BY <2>1, FinishedKeeps
  <2> QED
    BY <2>1, <2>2, <2>3, OtherAwaited
<1>6. ASSUME DidFinishNavigation \/ OtherDocument \/ SameDocumentNavigation \/ RestoreSession
      PROVE  QueriesAwaited'
  <2>1. /\ results' = results /\ overtaken' = overtaken
        /\ UpdateForMainFrameDocumentChange \/ decider' = decider
    BY <1>6 DEF DidFinishNavigation, OtherDocument, SameDocumentNavigation, RestoreSession,
                CommitItem
  <2>2. /\ decider'.pending = decider.pending /\ decider'.previous = decider.previous
        /\ decider'.chain = decider.chain
    BY <1>0, <2>1, DocumentChangeTyped
  <2>3. \A c \in Checks : results[c].frame = "main" => Kept(c)
    BY <2>1 DEF Kept
  <2> QED
    BY <2>1, <2>2, <2>3, OtherAwaited
<1>7. ASSUME Leave \/ UserDecides \/ UNCHANGED vars
      PROVE  QueriesAwaited'
  <2>1. UNCHANGED <<decider, results, overtaken>>
    BY <1>7 DEF Leave, UserDecides, vars
  <2> QED
    BY <2>1, OtherAwaited DEF Kept
<1> QED
  BY <1>0, <1>1, <1>2, <1>3, <1>4, <1>5, <1>6, <1>7, RedirectAwaited, ResponseAwaited,
     DecidedAwaited, StaleAwaited
     DEF Next, Steps, Navigate, Reload, UrlCheckFinished

LEMMA ResponseUndecidedStep ==
  ASSUME TypeOK, PhaseOK, ResponseUndecided, [Next]_vars
  PROVE  ResponseUndecided'
<1>0. UNCHANGED frames
  BY MainFrameSteps
<1>1. ASSUME \/ \E u \in Pages, reload \in BOOLEAN : Request(u, reload)
             \/ \E u \in Pages : ServerRedirect(u)
             \/ DidRedirectNavigation
      PROVE  ResponseUndecided'
  <2>1. nav'.phase \in {"requested", "redirecting"}
    <3>1. CASE \E u \in Pages, reload \in BOOLEAN : Request(u, reload)
      BY <3>1 DEF Request
    <3>2. CASE \E u \in Pages : ServerRedirect(u)
      BY <3>2 DEF ServerRedirect, TypeOK, Navigations
    <3>3. CASE DidRedirectNavigation
      BY <3>3 DEF DidRedirectNavigation, TypeOK, Navigations
    <3> QED
      BY <1>1, <3>1, <3>2, <3>3
  <2> QED
    BY <2>1 DEF ResponseUndecided
<1>2. ASSUME NEW url \in Pages, MainFrameResponse(url)
      PROVE  ResponseUndecided'
  <2>1. nav'.phase = "responding" => RedirectChainDecision(decider') = Undecided
    BY <1>0, <1>2, ResponseFacts
  <2> QED
    BY <2>1 DEF ResponseUndecided, RedirectChainDecision, Blocking, Undecided
<1>3. ASSUME NEW c \in Checks, MainFrameCheckFinished(c)
      PROVE  ResponseUndecided'
  <2> DEFINE d == Stored(results[c].url, results[c].stage)
             answers == decider.callback /\ RedirectChainDecision(d) # Undecided
  <2>1. /\ ~answers => decider' = d
        /\ nav'.phase = IF answers /\ nav.phase = "responding"
                          THEN RedirectChainDecision(d) ELSE nav.phase
        /\ (answers /\ nav.phase = "responding") => nav'.phase \in Decisions
    BY <1>0, <1>3, DecidedFacts DEF MainFrameCheckFinished, Finished
  <2> SUFFICES ASSUME nav'.phase = "responding" PROVE RedirectChainDecision(decider') = Undecided
    BY DEF ResponseUndecided, RedirectChainDecision, Blocking, Undecided
  <2>2. nav.phase = "responding" /\ ~answers
    BY <2>1 DEF Decisions, Blocking
  <2> QED
    BY <2>1, <2>2 DEF PhaseOK
<1>4. ASSUME nav' = nav \/ nav' = Idle,
             decider'.pending = decider.pending, decider'.chain = decider.chain
      PROVE  ResponseUndecided'
  <2>1. RedirectChainDecision(decider') = RedirectChainDecision(decider)
    BY <1>4 DEF RedirectChainDecision
  <2>2. nav'.phase = "responding" => nav.phase = "responding"
    BY <1>4 DEF Idle
  <2>3. nav'.phase = "responding" => RedirectChainDecision(decider') = Undecided
    BY <2>1, <2>2 DEF ResponseUndecided
  <2> QED
    BY <2>3 DEF ResponseUndecided, RedirectChainDecision, Blocking, Undecided
<1> QED
  BY <1>1, <1>2, <1>3, <1>4, MainFrameSteps

LEMMA OutstandingKept ==
  ASSUME NEW u, NEW frame, Outstanding(u, frame),
         \A c \in Checks : (results[c].url = u /\ results[c].frame = frame) => Kept(c)
  PROVE  Outstanding(u, frame)'
  BY DEF Outstanding, Kept

(* The sub frames' part of a step that leaves their entries alone.             *)
LEMMA FramesUntouched ==
  ASSUME TypeOK, FramesAwaited, UNCHANGED frames, decider'.sub = decider.sub,
         expected' = expected,
         \A c \in Checks : results[c].frame # "main" => Kept(c)
  PROVE  FramesAwaited'
<1>1. \A u \in frames, i \in Items : Outstanding(u, i) => Outstanding(u, i)'
  BY OutstandingKept, SafeBrowsingAssumption
<1> QED
  BY <1>1 DEF FramesAwaited

(* The sub frames' part of a request or a response of one of them.             *)
LEMMA FrameAsked ==
  ASSUME TypeOK, FramesAwaited, UNCHANGED frames, NEW u \in frames, NEW state \in FrameStates,
         decider'.sub = [decider.sub EXCEPT ![u] = state],
         state.there, state.waiting => state.decision = Undecided,
         \/ /\ UNCHANGED <<results, expected>>
            /\ state.decision = Undecided => decider.sub[u].decision = Undecided
         \/ /\ item # Null /\ StartQuery(u, item) /\ expected' = expected \cup {<<u, item>>}
            /\ decider.sub[u].there => state.decision = decider.sub[u].decision
  PROVE  FramesAwaited'
<1>1. decider.sub \in [frames -> FrameStates]
  BY DEF TypeOK, Deciders, FrameStates
<1>2. decider'.sub[u] = state /\ \A v \in frames \ {u} : decider'.sub[v] = decider.sub[v]
  BY <1>1
<1>3. \A c \in Checks : Kept(c)
  BY StartQueryKeeps DEF Kept
<1>4. \A v \in frames, i \in Items : Outstanding(v, i) => Outstanding(v, i)'
  BY <1>3, OutstandingKept
<1>5. ASSUME NEW v \in frames, NEW i \in Items, <<v, i>> \in expected'
      PROVE  /\ decider'.sub[v].there
             /\ decider'.sub[v].decision = Undecided => Outstanding(v, i)'
  <2>1. CASE <<v, i>> \in expected
    BY <1>2, <1>4, <2>1 DEF FramesAwaited
  <2>2. CASE <<v, i>> \notin expected
    <3>1. v = u /\ StartQuery(u, i)
      BY <1>5, <2>2
    <3>2. Outstanding(u, i)'
      BY <3>1, StartQueryKeeps DEF Outstanding
    <3> QED
      BY <1>2, <3>1, <3>2
  <2> QED
    BY <2>1, <2>2
<1>6. ASSUME NEW v \in frames, decider'.sub[v].waiting
      PROVE  decider'.sub[v].there /\ decider'.sub[v].decision = Undecided
  BY <1>2, <1>6 DEF FramesAwaited
<1> QED
  BY <1>5, <1>6 DEF FramesAwaited

LEMMA FramesAwaitedStep ==
  ASSUME TypeOK, PhaseOK, FramesAwaited, [Next]_vars
  PROVE  FramesAwaited'
<1>0. UNCHANGED frames
  BY MainFrameSteps
<1>1. ASSUME NEW u \in URLs, NEW reload \in BOOLEAN, ShouldAllowMainRequest(u, reload),
             expected' = expected
      PROVE  FramesAwaited'
  <2>1. decider'.sub = decider.sub
    BY <1>0, <1>1, ShouldAllowMainRequestTyped
  <2>2. \A c \in Checks : Kept(c)
    BY <1>1, StartQueryKeeps DEF ShouldAllowMainRequest, Kept
  <2> QED
    BY <1>0, <1>1, <2>1, <2>2, FramesUntouched
<1>2. ASSUME NEW u \in frames, SubFrameRequest(u)
      PROVE  FramesAwaited'
  <2> DEFINE state == [decider.sub[u] EXCEPT !.there = TRUE]
  <2>1. decider'.sub = [decider.sub EXCEPT ![u] = state]
    BY <1>0, <1>2, SubFrameRequestFacts
  <2>2. decider.sub[u] \in FrameStates
    BY DEF TypeOK, Deciders, FrameStates
  <2>3. /\ state \in FrameStates /\ state.there
        /\ state.waiting = decider.sub[u].waiting
        /\ state.decision = decider.sub[u].decision
    BY <2>2 DEF FrameStates
  <2>4. state.waiting => state.decision = Undecided
    BY <2>3 DEF FramesAwaited
  <2>5. \/ UNCHANGED <<results, expected>>
        \/ item # Null /\ StartQuery(u, item) /\ expected' = expected \cup {<<u, item>>}
    BY <1>2 DEF SubFrameRequest
  <2> HIDE DEF state
  <2> QED
    BY <1>0, <2>1, <2>3, <2>4, <2>5, FrameAsked
<1>3. ASSUME NEW u \in frames, SubFrameResponse(u)
      PROVE  FramesAwaited'
  BY <1>0, <1>3, SubFrameResponseFacts, FrameAsked
<1>4. ASSUME NEW c \in Checks, CheckUrl(c) \/ HandleBlockingPageRequest(c)
      PROVE  FramesAwaited'
  <2>1. UNCHANGED <<decider, expected>>
    BY <1>4 DEF CheckUrl, HandleBlockingPageRequest
  <2> QED
    BY <1>0, <1>4, <2>1, CheckStepKeeps, FramesUntouched
<1>5. ASSUME NEW c \in Checks, StaleMainFrameCheck(c) \/ MainFrameCheckFinished(c)
      PROVE  FramesAwaited'
  <2>1. Finished(c) /\ results[c].frame = "main" /\ expected' = expected
    BY <1>5 DEF StaleMainFrameCheck, MainFrameCheckFinished
  <2>2. decider'.sub = decider.sub
    <3>1. CASE MainFrameCheckFinished(c)
      <4> DEFINE d == Stored(results[c].url, results[c].stage)
      <4>1. decider'.sub = d.sub /\ d.sub = decider.sub
        <5>1. /\ results[c].stage \in Decisions
              /\ OldestPendingMainFrameQuery(results[c].url) # NotFound
              /\ OnMainFrameUrlQueryDecided(results[c].url, results[c].stage)
          BY <3>1 DEF MainFrameCheckFinished, Finished
        <5>2. d.sub = decider.sub
          BY <5>1, StoredFacts
        <5>3. decider'.sub = d.sub
          BY <1>0, <5>1, DecidedFacts
        <5> QED
          BY <5>2, <5>3
      <4> QED
        BY <4>1
    <3> QED
      BY <1>5, <3>1 DEF StaleMainFrameCheck
  <2>3. \A e \in Checks : results[e].frame # "main" => Kept(e)
    BY <2>1, FinishedKeeps
  <2> QED
    BY <1>0, <2>1, <2>2, <2>3, FramesUntouched
<1>6. ASSUME NEW c \in Checks, StaleSubFrameCheck(c)
      PROVE  FramesAwaited'
  <2>1. /\ Finished(c) /\ decider' = decider
        /\ expected' = expected \ {<<results[c].url, results[c].frame>>}
    BY <1>6 DEF StaleSubFrameCheck
  <2>2. ASSUME NEW u \in frames, NEW i \in Items, <<u, i>> \in expected', Outstanding(u, i)
        PROVE  Outstanding(u, i)'
    <3>1. ~(results[c].url = u /\ results[c].frame = i)
      BY <2>1, <2>2
    <3>2. \A e \in Checks : (results[e].url = u /\ results[e].frame = i) => Kept(e)
      BY <2>1, <3>1, FinishedKeeps
    <3> QED
      BY <2>2, <3>2, OutstandingKept
  <2>3. expected' \subseteq expected
    BY <2>1
  <2> QED
    BY <1>0, <2>1, <2>2, <2>3 DEF FramesAwaited
<1>7. ASSUME NEW c \in Checks, SubFrameCheckFinished(c)
      PROVE  FramesAwaited'
  <2> DEFINE u == results[c].url
  <2>1. Finished(c) /\ expected' = expected /\ decider.sub[u].there
    BY <1>7 DEF SubFrameCheckFinished
  <2>2. /\ \A v \in frames \ {u} : decider'.sub[v] = decider.sub[v]
        /\ u \in frames => /\ ~decider'.sub[u].waiting /\ decider'.sub[u].decision \in Decisions
                           /\ decider'.sub[u].there = decider.sub[u].there
    BY <1>0, <1>7, SubFrameCheckFinishedFacts
  <2>3. ASSUME NEW v \in frames \ {u}, NEW i \in Items, Outstanding(v, i)
        PROVE  Outstanding(v, i)'
    <3>1. \A e \in Checks : (results[e].url = v /\ results[e].frame = i) => Kept(e)
      BY <2>1, FinishedKeeps
    <3> QED
      BY <2>3, <3>1, OutstandingKept
  <2>4. Undecided \notin Decisions
    BY DEF Undecided, Decisions, Blocking
  <2> HIDE DEF u
  <2>5. ASSUME NEW v \in frames
        PROVE  /\ decider'.sub[v].waiting =>
                    decider'.sub[v].there /\ decider'.sub[v].decision = Undecided
               /\ \A i \in Items : <<v, i>> \in expected =>
                    /\ decider'.sub[v].there
                    /\ decider'.sub[v].decision = Undecided => Outstanding(v, i)'
    <3>1. CASE v = u
      BY <2>1, <2>2, <2>4, <3>1
    <3>2. CASE v # u
      BY <2>2, <2>3, <3>2 DEF FramesAwaited
    <3> QED
      BY <3>1, <3>2
  <2> QED
    BY <1>0, <2>1, <2>5 DEF FramesAwaited
<1>8. ASSUME DidFinishNavigation \/ OtherDocument
      PROVE  FramesAwaited'
  <2>1. UpdateForMainFrameDocumentChange /\ expected' = {}
    BY <1>8 DEF DidFinishNavigation, OtherDocument
  <2>2. decider'.sub = [u \in frames |-> NoFrame]
    BY <1>0, <2>1, DocumentChangeTyped
  <2>3. ~NoFrame.waiting
    BY DEF NoFrame
  <2>4. \A u \in frames' : ~decider'.sub[u].waiting
    BY <1>0, <2>2, <2>3
  <2> QED
    BY <2>1, <2>4 DEF FramesAwaited
<1>9. ASSUME \/ SameDocumentNavigation \/ RestoreSession \/ Leave \/ UserDecides
             \/ UNCHANGED vars
      PROVE  FramesAwaited'
  <2>1. UNCHANGED <<decider, results, expected>>
    BY <1>9 DEF SameDocumentNavigation, RestoreSession, CommitItem, Leave, UserDecides, vars
  <2> QED
    BY <1>0, <2>1, FramesUntouched DEF Kept
<1>10. ASSUME (\E u \in Pages : MainFrameResponse(u)) \/ DidRedirectNavigation
       PROVE  FramesAwaited'
  <2>1. decider'.sub = decider.sub
    BY <1>0, <1>10, ResponseFacts, RedirectFacts
  <2>2. results' = results /\ expected' = expected
    BY <1>10 DEF MainFrameResponse, DidRedirectNavigation
  <2> QED
    BY <1>0, <2>1, <2>2, FramesUntouched DEF Kept
<1>11. ASSUME NEW u \in Pages, NEW reload \in BOOLEAN, Request(u, reload)
       PROVE  FramesAwaited'
  BY <1>1, <1>11 DEF Request, Pages
<1>12. ASSUME NEW u \in Pages, ServerRedirect(u)
       PROVE  FramesAwaited'
  BY <1>1, <1>12 DEF ServerRedirect, Pages, TypeOK, Navigations
<1> QED
  BY <1>2, <1>3, <1>4, <1>5, <1>6, <1>7, <1>8, <1>9, <1>10, <1>11, <1>12
     DEF Next, Steps, Navigate, Reload, UrlCheckFinished

(* What waits has a check that will answer it.                                 *)
LEMMA AwaitedIsAnswered ==
  ASSUME TypeOK, PhaseOK, ResponseUndecided, QueriesAwaited
  PROVE  AnsweredUnlessOvertaken
<1>1. ASSUME nav.phase = "responding"
      PROVE  UndecidedURLs # {}
  <2>1. /\ decider.pending \in Queries /\ decider.chain \in Seq(Queries)
        /\ \A q \in Queries : q # Null /\ q.url \in URLs
    BY <1>1, SafeBrowsingAssumption DEF PhaseOK, TypeOK, Deciders, Queries
  <2>2. \/ decider.pending.decision = Undecided
        \/ \E k \in DOMAIN decider.chain : decider.chain[k].decision = Undecided
    BY <1>1, <2>1, VerdictFacts DEF ResponseUndecided
  <2>3. /\ QueryAt(0) = decider.pending
        /\ \A k \in DOMAIN decider.chain : QueryAt(k) = decider.chain[k]
    BY ChainPlaces DEF TypeOK, Deciders, QueryAt
  <2>4. PICK k \in DOMAIN decider.chain \cup {0} :
          QueryAt(k) \in Queries /\ QueryAt(k).decision = Undecided
    BY <2>1, <2>2, <2>3, ElementOfSeq, LenProperties
  <2>5. /\ QueryAt(k).url \in URLs
        /\ OldestPendingMainFrameQuery(QueryAt(k).url) # NotFound
    BY <2>1, <2>4, OldestFacts
  <2> QED
    BY <2>5 DEF UndecidedURLs
<1>2. ASSUME NEW u \in UndecidedURLs \ overtaken
      PROVE  Outstanding(u, "main")
  <2>1. PICK f \in [AwaitedPlaces -> Checks] : Awaits(f)
    BY DEF QueriesAwaited
  <2> DEFINE k == OldestPendingMainFrameQuery(u)
  <2>2. /\ k \in DOMAIN decider.chain \cup {0, NotFound}
        /\ QueryAt(k) \in Queries /\ QueryAt(k).url = u /\ QueryAt(k).decision = Undecided
    BY <1>2, OldestFacts DEF UndecidedURLs
  <2>3. \A q \in Queries : q # Null
    BY SafeBrowsingAssumption
  <2> HIDE DEF k
  <2>4. k \in AwaitedPlaces
    BY <1>2, <2>2, <2>3 DEF AwaitedPlaces
  <2> QED
    BY <2>1, <2>2, <2>4 DEF Awaits, Outstanding
<1> QED
  BY <1>1, <1>2 DEF AnsweredUnlessOvertaken

(* No response of the main frame waits for ever: while                         *)
(* HandleMainFrameResponsePolicy has left it waiting, every undecided URL it   *)
(* waits for has a check under way, unless the answer came between a request   *)
(* and the redirect to it, when GetOldestPendingMainFrameQuery does not look   *)
(* at the previous query.                                                      *)
THEOREM ResponsesAreAnswered == Spec => []AnsweredUnlessOvertaken
<1> DEFINE IInv == /\ TypeOK /\ PhaseOK
                   /\ ResponseUndecided /\ QueriesAwaited
<1>1. Init => IInv
  <2> SUFFICES ASSUME Init PROVE IInv
    OBVIOUS
  <2>1. TypeOK /\ PhaseOK
    BY InitTyped
  <2>2. ResponseUndecided
    BY DEF Init, Idle, ResponseUndecided
  <2>3. QueriesAwaited
    <3>1. AwaitedPlaces = {}
      <4>1. decider.pending = Null /\ decider.previous = Null /\ DOMAIN decider.chain = {}
        BY DEF Init
      <4> QED
        BY <4>1 DEF AwaitedPlaces, QueryAt
    <3>2. [k \in AwaitedPlaces |-> 0] \in [AwaitedPlaces -> Checks]
      BY <3>1
    <3>3. \A f \in [AwaitedPlaces -> Checks] : Awaits(f)
      BY <3>1 DEF Awaits
    <3> QED
      BY <3>2, <3>3 DEF QueriesAwaited
  <2> QED
    BY <2>1, <2>2, <2>3
<1>2. IInv /\ [Next]_vars => IInv'
  BY TypeStep, ResponseUndecidedStep, QueriesAwaitedStep
<1>3. IInv => AnsweredUnlessOvertaken
  BY AwaitedIsAnswered
<1> QED
  BY <1>1, <1>2, <1>3, PTL DEF Spec

(* Nor does a sub frame's: while HandleSubFrameResponsePolicy has left one     *)
(* waiting, a check of its URL is under way for the committed item, if its     *)
(* document asked for one under this item and IsQueryStale did not throw the   *)
(* answer away while another item was the committed one.                       *)
THEOREM FramesAreAnswered == Spec => []FramesAnsweredUnlessOvertaken
<1> DEFINE IInv == TypeOK /\ PhaseOK /\ FramesAwaited
<1>1. Init => IInv
  <2> SUFFICES ASSUME Init PROVE IInv
    OBVIOUS
  <2>1. FramesAwaited
    BY DEF Init, FramesAwaited, NoFrame
  <2> QED
    BY <2>1, InitTyped
<1>2. IInv /\ [Next]_vars => IInv'
  BY TypeStep, FramesAwaitedStep
<1>3. IInv => FramesAnsweredUnlessOvertaken
  BY DEF FramesAwaited, FramesAnsweredUnlessOvertaken, TypeOK
<1> QED
  BY <1>1, <1>2, <1>3, PTL DEF Spec
=============================================================================
