---------------------------- MODULE SafeBrowsing ----------------------------
(* Safe Browsing in one tab.  WebKit asks SafeBrowsingTabHelper's policy       *)
(* decider about requests, which it always allows while it has their URL       *)
(* checked, and about responses, whose answer waits for the checks.  The       *)
(* SafeBrowsingQueryManager has URLs checked on the IO thread; checks end in   *)
(* any order.                                                                  *)
(*                                                                             *)
(* WebKit, the database and the user are external: the main frame's navigation *)
(* follows the life cycle of WKNavigationDelegate, and a new request of the    *)
(* main frame ends the navigation before it (HandleMainFrameResponsePolicy     *)
(* asserts it).  URLs are canonical and can be checked; a navigation to any    *)
(* other one passes the decider by.                                            *)
EXTENDS Sequences, SequencesExt, FiniteSets, Naturals

CONSTANTS
  URLs,      \* canonical URLs the service can check
  Items,     \* navigation items of the tab, by their unique identifiers
  Checks,    \* bound: checks under way at the same time
  Null,      \* no URL, no query, no item
  MaxChain,  \* bound: redirects of a chain
  MaxFrames, \* bound: URLs of sub frames
  Redirecting \* bound: the sets of frames whose pages redirect


VARIABLES
  frames,    \* URLs that sub frames load; the main frame loads the others
  decider,   \* PolicyDecider: pending and previous query, redirect chain, sub frames
  results,   \* results_ of the query manager: check -> its query and result
  unsafe,    \* SafeBrowsingUnsafeResourceContainer: main frame's, items that have one
  item,      \* the last committed item; its URL may be any page
  nav,       \* the main frame's navigation as WebKit sees it
  overtaken, \* history: pages whose answer was thrown away while it was needed
  expected   \* history: frames and the items under which their answer is to come

vars == <<frames, decider, results, unsafe, item, nav, overtaken, expected>>

Blocking  == {"cancel", "error"}
Decisions == {"allow"} \cup Blocking
Undecided == "none"
Queries   == [url : URLs, decision : Decisions \cup {Undecided}]

ASSUME SafeBrowsingAssumption ==
  /\ MaxChain \in Nat /\ MaxFrames \in Nat
  /\ Null \notin URLs \cup Items \cup Queries /\ "main" \notin Items

NoCheck == [url |-> Null, frame |-> "main", stage |-> "free", resource |-> FALSE]
NoFrame == [there |-> FALSE, decision |-> Undecided, waiting |-> FALSE]
Idle    == [phase |-> "idle", reload |-> FALSE, asked |-> {}, okay |-> {}, document |-> Null]

(* The response callback is kept apart, for the pending query only.  It moves  *)
(* with the query, to the previous one and into the chain, where no decision   *)
(* runs it any more.  It is cancelled by the query's destructor, or dropped    *)
(* when another query is assigned over the previous one; then the callback's   *)
(* owner, a PolicyDecisionStateTracker, cancels.  Either way it answers a      *)
(* response that WebKit no longer waits for.                                   *)
MainFrameUrlQuery(u) == [url |-> u, decision |-> Undecided]

Pages == URLs \ frames
-----------------------------------------------------------------------------
(* SafeBrowsingQueryManager.                                                   *)

(* StartQuery: any free slot; the check runs on the IO thread.                 *)
StartQuery(u, frame) ==
  \E c \in Checks :
    /\ results[c].stage = "free"
    /\ results' = [results EXCEPT ![c] = [url |-> u, frame |-> frame,
                                          stage |-> "running", resource |-> FALSE]]

(* The database finds the URL safe.                                            *)
CheckUrl(c) ==
  /\ results[c].stage = "running"
  /\ results' = [results EXCEPT ![c].stage = "allow"]
  /\ UNCHANGED <<decider, unsafe, item, nav, overtaken, expected>>

SameQuery(c, d) ==
  /\ results[c].stage # "free" /\ results[d].stage # "free"
  /\ results[c].url = results[d].url
  /\ (results[c].frame = "main") = (results[d].frame = "main")

\* Mutant: stores the resource with one query of the URL only.
StoreUnsafeResourceOnce(c) ==
  LET d == CHOOSE x \in Checks : SameQuery(c, x)
  IN [results EXCEPT ![d].resource = TRUE]

(* StoreUnsafeResource: with every query of the URL, since the answers may     *)
(* come in any order.                                                          *)
StoreUnsafeResource(c) ==
  [d \in Checks |-> IF SameQuery(c, d) THEN [results[d] EXCEPT !.resource = TRUE]
                                       ELSE results[d]]

(* The database asks for a blocking page, HandleBlockingPageRequestOnUIThread: *)
(* the client blocks, or the user has allowed the URL, or the resource is      *)
(* stored for an error page.                                                   *)
HandleBlockingPageRequest(c) ==
  /\ results[c].stage = "running"
  /\ \/ \E s \in {"cancel", "allow"} : results' = [results EXCEPT ![c].stage = s]
     \/ results' = [StoreUnsafeResource(c) EXCEPT ![c].stage = "error"]
  /\ UNCHANGED <<decider, unsafe, item, nav, overtaken, expected>>
-----------------------------------------------------------------------------
(* Requests.                                                                   *)

(* The main frame's part of ShouldAllowRequest: the pending query becomes the  *)
(* previous one, and the URL is checked unless it is known to be unsafe.       *)
KnownUnsafe(u, reload) == unsafe.main = u \/ (reload /\ item \in unsafe.sub)

\* Mutant: a URL that is known to be unsafe is neither checked nor decided.
KnownUnsafeIsUndecided(u, reload) ==
  /\ decider' = [decider EXCEPT !.previous = IF decider.pending # Null THEN decider.pending ELSE @,
                                !.pending = MainFrameUrlQuery(u), !.callback = FALSE]
  /\ IF KnownUnsafe(u, reload) THEN results' = results ELSE StartQuery(u, "main")

ShouldAllowMainRequest(u, reload) ==
  LET tracked == [decider EXCEPT !.previous = IF decider.pending # Null THEN decider.pending ELSE @,
                                 !.pending = MainFrameUrlQuery(u), !.callback = FALSE]
  IN IF KnownUnsafe(u, reload)
       THEN /\ decider' = [tracked EXCEPT !.pending.decision = "error"]
            /\ results' = results
       ELSE decider' = tracked /\ StartQuery(u, "main")

(* URLs whose answer was lost, as far as the decider still has queries of them.*)
Needed(d) ==
  {u \in URLs : \/ d.pending # Null /\ d.pending.url = u
                \/ d.previous # Null /\ d.previous.url = u
                \/ \E k \in DOMAIN d.chain : d.chain[k].url = u}
StillNeeded == overtaken' = overtaken \cap Needed(decider')

Request(u, reload) ==
  /\ ShouldAllowMainRequest(u, reload)
  /\ nav' = [phase |-> "requested", reload |-> reload, asked |-> {u}, okay |-> {},
             document |-> Null]
  /\ StillNeeded
  /\ UNCHANGED <<unsafe, item, expected>>

Navigate(u) == Request(u, FALSE)

Reload(u) == item # Null /\ Request(u, TRUE)

(* A navigation that is not checked, or no navigation any more.                *)
Leave ==
  /\ nav.phase # "idle"
  /\ nav' = Idle
  /\ UNCHANGED <<decider, results, unsafe, item, overtaken, expected>>

\* Mutant: repeated requests of a URL share its check, whatever item it is for.
SubFrameRequestIsCheckedOnce(u) ==
  /\ decider' = [decider EXCEPT !.sub[u].there = TRUE]
  /\ IF item # Null
       THEN /\ IF decider.sub[u].there THEN results' = results ELSE StartQuery(u, item)
            /\ expected' = expected \cup {<<u, item>>}
       ELSE UNCHANGED <<results, expected>>
  /\ UNCHANGED <<unsafe, item, nav, overtaken>>

(* A sub frame's request: repeated requests of a URL share their entry but are *)
(* all checked; without a committed item nothing is.                           *)
SubFrameRequest(u) ==
  /\ decider' = [decider EXCEPT !.sub[u].there = TRUE]
  /\ IF item # Null
       THEN StartQuery(u, item) /\ expected' = expected \cup {<<u, item>>}
       ELSE UNCHANGED <<results, expected>>
  /\ UNCHANGED <<unsafe, item, nav, overtaken>>
-----------------------------------------------------------------------------
(* Redirects.                                                                  *)

ServerRedirect(u) ==
  /\ nav.phase = "requested"
  /\ Len(decider.chain) < MaxChain /\ frames \in Redirecting
  /\ ShouldAllowMainRequest(u, nav.reload)
  /\ nav' = [nav EXCEPT !.phase = "redirecting", !.asked = @ \cup {u},
                        !.okay = @ \ {u}]
  /\ StillNeeded
  /\ UNCHANGED <<unsafe, item, expected>>

\* Mutant: every redirect is taken to have had a request of its own.
RedirectAlwaysHasQuery ==
  decider' = [decider EXCEPT !.chain = Append(@, decider.previous), !.previous = Null]

UpdateForMainFrameServerRedirect ==
  decider' = IF decider.previous = Null THEN decider
             ELSE [decider EXCEPT !.chain = Append(@, decider.previous), !.previous = Null]

(* ShouldAllowRequest may not be called for a redirect, when a URL redirects   *)
(* to itself, or be called for another URL than the target, whose URL then     *)
(* appears in the response only.                                               *)
DidRedirectNavigation ==
  /\ \/ nav.phase = "redirecting"
     \/ /\ nav.phase = "requested"
        /\ Len(decider.chain) < MaxChain /\ frames \in Redirecting
  /\ nav' = [nav EXCEPT !.phase = "requested"]
  /\ UpdateForMainFrameServerRedirect
  /\ UNCHANGED <<results, unsafe, item, overtaken, expected>>
-----------------------------------------------------------------------------
(* Responses.                                                                  *)

\* Mutant: forgets the redirects that led to the pending query.
PendingQueryDecision(d) == d.pending.decision

(* MainFrameRedirectChainDecision.                                             *)
RedirectChainDecision(d) ==
  LET blocked == {k \in DOMAIN d.chain : d.chain[k].decision \in Blocking}
  IN IF d.pending.decision \in Blocking THEN d.pending.decision
     ELSE IF blocked # {} THEN d.chain[CHOOSE k \in blocked : \A l \in blocked : k <= l].decision
     ELSE IF \E k \in DOMAIN d.chain : d.chain[k].decision = Undecided THEN Undecided
     ELSE d.pending.decision

(* HandleMainFrameResponsePolicy: a previous query that was not followed by a  *)
(* redirect ends the chain.  The response may be of another URL than the       *)
(* pending query: of a redirect's target that was not asked about, or one that *)
(* a service worker chose.  The decision does not look at it.                  *)
MainFrameResponse(url) ==
  LET current == IF decider.previous = Null THEN decider
                 ELSE [decider EXCEPT !.previous = Null, !.chain = << >>]
      verdict == RedirectChainDecision(current)
  IN /\ nav.phase = "requested"
     /\ IF verdict = Undecided
          THEN /\ decider' = [current EXCEPT !.callback = TRUE]
               /\ nav' = [nav EXCEPT !.phase = "responding", !.document = url]
          ELSE /\ decider' = [current EXCEPT !.chain = << >>]
               /\ nav' = [nav EXCEPT !.phase = verdict, !.document = url]
     /\ StillNeeded
     /\ UNCHANGED <<results, unsafe, item, expected>>

(* HandleSubFrameResponsePolicy: a URL that was never requested is checked now.*)
SubFrameResponse(u) ==
  LET frame == decider.sub[u]
  IN /\ \/ /\ ~frame.there /\ item # Null
           /\ StartQuery(u, item) /\ expected' = expected \cup {<<u, item>>}
           /\ decider' = [decider EXCEPT !.sub[u] = [NoFrame EXCEPT !.there = TRUE, !.waiting = TRUE]]
        \/ /\ frame.there /\ UNCHANGED <<results, expected>>
           /\ decider' = [decider EXCEPT !.sub[u].waiting = (frame.decision = Undecided)]
     /\ UNCHANGED <<unsafe, item, nav, overtaken>>
-----------------------------------------------------------------------------
(* UrlCheckFinished: a check of the manager has ended.                         *)

Finished(c) ==
  /\ results[c].stage \in Decisions
  /\ results' = [results EXCEPT ![c] = NoCheck]

(* GetOldestPendingMainFrameQuery: a place of the chain, 0 for the pending     *)
(* query, or NotFound.                                                         *)
NotFound == MaxChain + 1

OldestPendingMainFrameQuery(u) ==
  LET waiting == {k \in DOMAIN decider.chain :
                    decider.chain[k].url = u /\ decider.chain[k].decision = Undecided}
  IN IF waiting # {} THEN CHOOSE k \in waiting : \A l \in waiting : k <= l
     ELSE IF decider.pending # Null /\ decider.pending.url = u
               /\ decider.pending.decision = Undecided THEN 0
     ELSE NotFound

(* The query of the main frame is no longer tracked.                           *)
StaleMainFrameCheck(c) ==
  LET u == results[c].url
  IN /\ Finished(c)
     /\ results[c].frame = "main" /\ OldestPendingMainFrameQuery(u) = NotFound
     /\ overtaken' = overtaken \cup
          (IF decider.previous # Null /\ decider.previous.url = u THEN {u} ELSE {})
     /\ UNCHANGED <<decider, unsafe, item, nav, expected>>

(* OnMainFrameUrlQueryDecided: the decision is stored with the oldest query of *)
(* the URL, and a response that waits is answered when the chain is decided.   *)
OnMainFrameUrlQueryDecided(u, decision) ==
  LET k == OldestPendingMainFrameQuery(u)
      stored == IF k = 0 THEN [decider EXCEPT !.pending.decision = decision]
                ELSE [decider EXCEPT !.chain[k].decision = decision]
      verdict == RedirectChainDecision(stored)
      answers == stored.callback /\ verdict # Undecided
  IN /\ decider' = IF answers THEN [stored EXCEPT !.chain = << >>, !.callback = FALSE]
                   ELSE stored
     /\ nav' = [nav EXCEPT
                  !.phase = IF answers /\ nav.phase = "responding" THEN verdict ELSE @,
                  !.okay = IF decision = "allow" THEN @ \cup ({u} \cap nav.asked) ELSE @]

MainFrameCheckFinished(c) ==
  LET u == results[c].url
      decision == results[c].stage
  IN /\ Finished(c)
     /\ results[c].frame = "main" /\ OldestPendingMainFrameQuery(u) # NotFound
     /\ OnMainFrameUrlQueryDecided(u, decision)
     /\ unsafe' = IF decision = "error" THEN [unsafe EXCEPT !.main = u] ELSE unsafe
     /\ StillNeeded
     /\ UNCHANGED <<item, expected>>

(* Another item than that of the sub frame's check is the committed one, or    *)
(* none, or the frame's entry is gone.                                         *)
StaleSubFrameCheck(c) ==
  LET u == results[c].url
  IN /\ Finished(c)
     /\ results[c].frame # "main" /\ (results[c].frame # item \/ ~decider.sub[u].there)
     /\ expected' = expected \ {<<u, results[c].frame>>}
     /\ UNCHANGED <<decider, unsafe, item, nav, overtaken>>

(* OnSubFrameUrlQueryDecided: all responses of the URL are answered; for an    *)
(* error the client may have the item reloaded, which discards a navigation.   *)
SubFrameCheckFinished(c) ==
  LET u == results[c].url
      decision == results[c].stage
  IN /\ Finished(c)
     /\ results[c].frame # "main" /\ results[c].frame = item /\ decider.sub[u].there
     /\ decider' = [decider EXCEPT !.sub[u].decision = decision, !.sub[u].waiting = FALSE]
     /\ unsafe' = IF decision = "error" THEN [unsafe EXCEPT !.sub = @ \cup {item}] ELSE unsafe
     /\ nav' = nav \/ (decision = "error" /\ nav' = Idle)
     /\ UNCHANGED <<item, overtaken, expected>>

UrlCheckFinished(c) ==
  \/ StaleMainFrameCheck(c) \/ MainFrameCheckFinished(c)
  \/ StaleSubFrameCheck(c) \/ SubFrameCheckFinished(c)
-----------------------------------------------------------------------------
(* The document of the main frame changes.                                     *)

(* Another item becomes the committed one, a new one or one that was left: the *)
(* checks and the unsafe resources of sub frames stay with their item.         *)
CommitItem ==
  /\ item' \in Items \ {item}
  /\ UNCHANGED <<results, unsafe>>

(* UpdateForMainFrameDocumentChange: the destructors of the sub frames'        *)
(* queries cancel the responses that wait.                                     *)
UpdateForMainFrameDocumentChange ==
  decider' = [decider EXCEPT !.sub = [u \in frames |-> NoFrame]]

(* DidFinishNavigation after a response was let through, or replaced by the    *)
(* error page: a reload stays on its item.                                     *)
DidFinishNavigation ==
  /\ nav.phase \in {"allow", "error"}
  /\ nav' = Idle
  /\ UpdateForMainFrameDocumentChange
  /\ expected' = {}
  /\ UNCHANGED overtaken
  /\ IF nav.reload THEN UNCHANGED <<item, results, unsafe>>
     ELSE CommitItem

(* The same of a document that is not checked.                                 *)
OtherDocument ==
  /\ nav.phase = "idle"
  /\ UpdateForMainFrameDocumentChange
  /\ expected' = {}
  /\ CommitItem
  /\ UNCHANGED <<nav, overtaken>>

(* A navigation within the document: another item, the same sub frames.        *)
SameDocumentNavigation ==
  /\ item # Null
  /\ CommitItem
  /\ UNCHANGED <<decider, nav, overtaken, expected>>

(* While a session is restored there is no committed item, although the        *)
(* document is still the old one.                                              *)
RestoreSession ==
  /\ nav.phase = "idle" /\ item # Null
  /\ item' = Null
  /\ UNCHANGED <<decider, results, unsafe, nav, overtaken, expected>>

(* The user proceeds, or leaves the error page: the resources of a page that   *)
(* were pending in the allow list are no longer.                               *)
UserDecides ==
  /\ \E main \in {unsafe.main, Null}, sub \in SUBSET unsafe.sub :
       unsafe' = [main |-> main, sub |-> sub]
  /\ UNCHANGED <<decider, results, item, nav, overtaken, expected>>
-----------------------------------------------------------------------------
Init ==
  /\ frames \in {S \in SUBSET URLs : Cardinality(S) <= MaxFrames}
  /\ decider = [pending |-> Null, previous |-> Null, chain |-> << >>,
                callback |-> FALSE, sub |-> [u \in frames |-> NoFrame]]
  /\ results = [c \in Checks |-> NoCheck]
  /\ unsafe = [main |-> Null, sub |-> {}]
  /\ item = Null
  /\ nav = Idle
  /\ overtaken = {} /\ expected = {}

Steps ==
  \/ \E u \in Pages : Navigate(u) \/ Reload(u) \/ ServerRedirect(u) \/ MainFrameResponse(u)
  \/ \E u \in frames : SubFrameRequest(u) \/ SubFrameResponse(u)
  \/ \E c \in Checks : CheckUrl(c) \/ HandleBlockingPageRequest(c) \/ UrlCheckFinished(c)
  \/ Leave \/ DidRedirectNavigation \/ DidFinishNavigation
  \/ OtherDocument \/ SameDocumentNavigation \/ RestoreSession \/ UserDecides

Next == Steps /\ UNCHANGED frames

Spec == Init /\ [][Next]_vars
-----------------------------------------------------------------------------
Deciders ==
  [pending : Queries \cup {Null}, previous : Queries \cup {Null}, chain : Seq(Queries),
   callback : BOOLEAN,
   sub : [frames -> [there : BOOLEAN, decision : Decisions \cup {Undecided},
                     waiting : BOOLEAN]]]
Results ==
  [url : URLs \cup {Null}, frame : {"main"} \cup Items,
   stage : Decisions \cup {"free", "running"}, resource : BOOLEAN]
Navigations ==
  [phase : Decisions \cup {"idle", "requested", "redirecting", "responding"},
   reload : BOOLEAN, asked : SUBSET URLs, okay : SUBSET URLs,
   document : URLs \cup {Null}]

TypeOK ==
  /\ frames \subseteq URLs
  /\ decider \in Deciders /\ Len(decider.chain) <= MaxChain
  /\ results \in [Checks -> Results]
  /\ unsafe \in [main : URLs \cup {Null}, sub : SUBSET Items]
  /\ item \in Items \cup {Null}
  /\ nav \in Navigations
  /\ overtaken \subseteq URLs /\ expected \subseteq frames \X Items

(* What became of the navigation's response, as ResponsePolicy sees it.        *)
NavigationResponse ==
  CASE nav.phase = "allow" -> "allowed"
    [] nav.phase \in Blocking -> "blocked"
    [] nav.phase = "responding" -> "asked"
    [] OTHER -> "none"

(* The tab implements ResponsePolicy: whatever the order of requests,          *)
(* redirects, abandoned navigations and answers, a document is shown only      *)
(* after every URL that ShouldAllowRequest was called for in its navigation    *)
(* was found safe.  The document's URL is one of them unless WebKit did not    *)
(* call ShouldAllowRequest for it.                                             *)
Policy ==
  INSTANCE ResponsePolicy WITH
    asked    <- nav.asked,
    okay     <- nav.okay,
    document <- nav.document,
    response <- NavigationResponse

ImplementsPolicy == Policy!Spec

(* The resource an error page is made of is stored before the answer that asks *)
(* for the error page is handled, although answers for one URL arrive in any   *)
(* order (UrlCheckFinished asserts it).                                        *)
ErrorHasResource ==
  \A c \in Checks : results[c].stage = "error" => results[c].resource

Outstanding(u, frame) ==
  \E c \in Checks : /\ results[c].stage # "free"
                    /\ results[c].url = u /\ results[c].frame = frame

UndecidedURLs ==
  {u \in URLs : OldestPendingMainFrameQuery(u) # NotFound}

(* The main frame's response never waits for an answer that was thrown away:   *)
(* while it waits, a check of every undecided URL is under way.  Excepted are  *)
(* answers that came between the request of another URL and the redirect to    *)
(* it, when the query they belong to is the previous one and is not looked for.*)
AnsweredUnlessOvertaken ==
  nav.phase = "responding" =>
    /\ UndecidedURLs # {}
    /\ \A u \in UndecidedURLs \ overtaken : Outstanding(u, "main")

(* Nor does a sub frame's: a check of its URL is under way for the committed   *)
(* item if its document asked for one under that item and the answer was not   *)
(* thrown away while another item was the committed one.  So three cases are   *)
(* excepted, where the response waits until the document is left: a frame that *)
(* was requested when there was no committed item, which is not checked; one   *)
(* requested under another item of the document; and an answer that came while *)
(* another item, or none, was the committed one.                               *)
FramesAnsweredUnlessOvertaken ==
  \A u \in frames :
    decider.sub[u].waiting /\ <<u, item>> \in expected => Outstanding(u, item)
=============================================================================
