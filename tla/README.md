# Verification of Chrome for iOS: tabs, overlays, sessions, checks, threads

The repository is Chromium's `ios/` directory: the browser application
(`chrome/`), the web layer it is built on (`web/`), networking adapters
(`net/`), shared components (`components/`) and an embedder API (`web_view/`).
This project models five parts of it:

* the list of tabs of a window and the agents that follow it;
* the overlay system, which decides which dialog is on top of a tab;
* the saving of sessions, their restoration, and their recovery after a crash;
* Safe Browsing in one tab, which holds a response back until its URLs were
  checked;
* the named threads of the web layer, and the WebUI data sources that are
  shared between them.

The first two are single-threaded, and hard because methods call observers in
the middle of their work, observers call back, and UIKit reports the end of an
animation long after the state it belongs to has changed. The others are hard
because timers, task queues, answers of another thread, kills and the shutdown
come in any order.

## 1. Inventory

Paths are relative to `src/`.

| Component | State | Operations | Interacts with | What is hard | Correct when |
|---|---|---|---|---|---|
| `chrome/browser/web_state_list/web_state_list.mm` | the wrappers (tab, opener, reset mark), active index, lock, batch flag | insert, move, replace, detach, close, close all, activate, set opener | tells its observers, realizes tabs | observers look in the middle of a method; index arithmetic; raw opener pointers | openers and index are valid wherever an observer can look; the selection follows the family of a closed tab |
| `web_state_list_order_controller.mm`, `web_state_list_removing_indexes.mm`, `web_state_opener.mm` | none | insertion index, new active index, index after removal | queries of the list | cyclic search that may not end; several removals at once | the answer is a tab that stays, the nearest by the documented order |
| observation forwarders, `web_usage_enabler`, `web_state_dependency_installation_observer.mm` | sets of observed tabs | one reaction per list notification, realization, destruction | list, tabs | a tab realized between two observers of the same notification | they observe exactly the tabs of the list; every realized tab is served |
| `chrome/browser/overlays/overlay_request_queue_impl.mm` | requests of one tab, delegate, observers | insert, cancel, pop, destroy, set delegate | presenters of two windows, one after the other | destruction in any order, delegate changed in a callback, requests removed in another window | a removed request has one owner |
| `chrome/browser/overlays/overlay_presenter_impl.mm` | presented request, removed request awaiting dismissal, shown requests, active tab, detachment flags | present, dismissed, tab inserted, activated, detached, replaced, request added or removed, capabilities changed | queues, context, tab list | everything may happen between the start and the end of a dismissal | see section 4 |
| `chrome/browser/ui/overlays/overlay_presentation_context_impl.mm`, `overlay_request_ui_state.mm`, the two container coordinators | current request, UI states with their callback and dismissal reason, view controllers, capabilities | show, hide, cancel, prepare, capabilities, disable, window, start and stop | presenter, UIKit | re-entrancy of the capability change; the reason of a running dismissal is overwritten | one UI at a time; every callback comes |
| `chrome/browser/sessions`, `chrome/browser/crash_report/crash_restore_helper.mm` | delayed saves and their timers, the queue of file operations, session files, files moved aside | save later or now, delete, load, restore; open, close, close all, activate and move tabs; leave and enter the foreground, connect, disconnect; kill, launch, move aside, bring back | tab list, task runner, scene life cycle | one service for all windows; a kill between a save and its write; the teardown empties the list while a save is pending; a tab moved between windows is in two files or in none | what a window left the foreground with reaches its file; a tab moved aside is nowhere else |
| `components/security_interstitials/safe_browsing` | pending and previous query, redirect chain, queries of frames, results, stored unsafe resources | ask for a request, redirect, ask for a response, start and end a check, store a resource, change the document | WebKit, a checker on the IO thread, the user | answers in any order, twice for a repeated URL, late for an abandoned navigation or another item; a response of a URL nobody asked about | a document is shown only after all URLs that were asked about were found safe; a response that waits has a check that will answer |
| `web/web_thread_impl.cc`, `web/web_sub_thread.cc`, `web/init/web_main_loop.mm` | state and task runner of each identifier, one lock, the message loops | register, unregister, post, start and stop the threads | every poster | a state read without the lock; posts during shutdown | unlocked reads race nobody |
| `web/webui/url_data_manager_ios*`, `url_data_source_ios_impl.cc` | sources by name, their backend pointer and references, requests, the list of sources to delete | add, replace, start and kill a request, answer, delete, destroy the browser state | web threads | the last reference goes away on any thread, also while the loops stop | raw pointers are valid, no source is leaked, requests are answered |
| `chrome/browser/https_upgrades` | upgrade state, timer | navigation callbacks, timeout | navigation | timer against navigation | not modelled, see section 8 |
| `chrome/browser/reading_list`, `snapshots`, `prerender`, the rest of `crash_report`, `app_launcher`, `infobars`; `chrome/app`; `web/navigation`, `web/web_state`, `web/download`; `net` | | | | | not modelled, see section 8 |

The rest of the tree is view code (`chrome/browser/ui`), strings, build files
and tests.

## 2. Modules

| Module | Role |
|---|---|
| `WebStateListOrderController` | the queries of the list and the two decisions of the order controller, as operators |
| `WebStateList` | the list: every method, split where it calls its observers |
| `WebStateListObservers` | composes the list with the two forwarders, the web usage enabler and the dependency installer |
| `OrderControllerSearch` | the two loops of the search as the code runs them, against the operators above |
| `WebStateListInheritedOpener` | one claim of a comment that the code does not keep |
| `MCWebStateListObservers` | the order of the observers and symmetry for TLC |
| `OverlayCalls` | the state of the overlay system, the call stack, queries |
| `OverlayRequestQueue`, `OverlayPresentationContext` | the queue and the context with its coordinators |
| `OverlayPresenter` | the presenter, composed with the two, and the properties |
| `MCOverlayPresenter`, `OverlayPresenterClaims` | symmetry for TLC; claims of comments and assertions that fail |
| `SessionService` | the session service, its clients, the scene life cycle, kills, launches and crash recovery |
| `ResponsePolicy` | abstract: what Safe Browsing promises about the response of a navigation |
| `SafeBrowsing` | the policy decider, the query manager and the stored resources of one tab; implements `ResponsePolicy` |
| `MCSessionService`, `MCSafeBrowsing` | symmetry for TLC |
| `WebThreads` | the named threads: posting, registration, the main loop's start and stop. It has no specification of its own: what tasks do is left to the module that extends it |
| `URLDataSources` | extends `WebThreads` with the sources, the backend and the requests |
| `ListLemmas`, `WebStateList_proof`, `OrderControllerSearch_proof`, `OverlayPresenter_proof`, `OverlayRequests_proof`, `SessionService_proof`, `SafeBrowsing_proof`, `URLDataSources_proof` | the proofs, see section 6 |

Definitions whose comment begins with `Mutant:` are faulty variants of the
definition that follows them. Nothing refers to them in the models; they show
that the properties would notice the fault.

### The list

`web_state_wrappers` and `active_index` are the fields of the class, 1-based:
position 0 stands for `kInvalidIndex`. `op` is the method that is running and
its locals; `op.step` names the observer call it is making. An action such as
`InsertWebState` runs the method up to its observer call, and
`AfterWebStateInsertedAt` runs it from there. Between the two the lock is held
(`op.step # "Idle"`), so no other method may start: `LockForMutation` is a
`CHECK`. Observers may look at the list, realize tabs and navigate
(`Environment`). `batch` is `batch_operation_in_progress_`; a batch of a caller
allows mutations, that of `CloseAllWebStates` holds the lock itself.

`nav` is the last committed index of each tab, which `WebStateOpener` copies.
Tabs have an identity that may come back after a detach (a tab moved between
windows); a closed tab may come back too, which only adds behaviours.

### The agents

`WebStateListObservers` adds the list's `observers_`: at each observer call the
agents of the sequence `Observers` are told one after the other (`TellNext`),
and tabs may be realized in between. The list goes on when all have been told.
An observer reads the list and the tabs, never another observer's state, so one
order of registration stands for all. A step of the composition is a step of
`WebStateList` or leaves its variables alone; the properties of the list are
therefore checked in the composition too, where observer calls take time.

### The overlays

One window, one modality. `calls` is the call stack. Each method is an action
that pops its call, changes the fields of its own class and pushes the calls it
makes; what it does after a call is a second action whose name ends in `Then`.
This keeps the code's order exactly: the new capabilities are assigned after
the observers have reacted to them, `SetRequest(nullptr)` runs after the
dismissal callback. An external event comes only when the stack is empty,
because everything runs on the main thread.

`UIKind`, which `Init` chooses from the constant `UIKinds`, says how the
coordinators of the modality show their UI. Alerts are
child view controllers (`contained`): stopped without animation they report
their dismissal within the call. Infobar banners and modals are `presented`:
UIKit reports the dismissal later, animated or not. Dismissals by the user or
by a banner's timeout are animated in both. Infobars and alerts use different
modalities, so that one kind per instance is what the program has.

DCHECKs are not part of the models' guards: release builds do not compile them.
They are the properties instead.

Tabs reach the presenter through the observer calls that `WebStateList`
describes: insertion (then activation), activation, detachment followed by the
activation of another tab, and replacement of the active tab. `DetachTab` then
closes the tab or gives it to another window, whose presenter becomes the
delegate of its queue. There requests are still added, cancelled and answered,
and the tab may be closed (`CloseMovedTab`): this presenter hears nothing of it,
although it may still hold a request of that queue. `Successors` abstracts the
order controller to "some other tab, none only if there is none", which is what
`SelectionSurvivesUntilEmpty` establishes of the list.

### Sessions

A session is the set of its tabs. `pending` is `_pendingSessions`, a table of
weak references: an entry is `live`, or `disconnected` once the agent behind
the factory is gone and until somebody releases the factory. `timers` are the
delayed performs, and `tasks` is the one sequence on which all writes and
deletions run; a save is serialised when it is performed, not when its task
runs. `Kill` drops everything but the disk and what `PreviousSessionInfo`
recorded; `Launch`, one `MoveAside` per window and `FinishLaunch` are the start
after it, and a kill may come between any two. `Disconnect` is the teardown of
a window: it is saved if it has to be, its list is emptied, and the agent is
destroyed. `selected` are the windows that have an active tab: a list with tabs
and without an active one is not saved (`CanSaveSession`), which matters when
all tabs are closed at once, since the active one is deselected first, and for
tabs opened in the background. `MoveTab` is `MoveTabToBrowser`: the tab is in
the file of the window it left until that window is saved.

Three history variables state the properties. `left`: the tabs a window left
the foreground with, without those the user has closed, moved, deleted or
declined since, or got back as open tabs after a crash. `lost`: those of them
that the code loses in one of four ways, all between a window's own file
operations: the process ended, or the window read its file again, while a file
operation of it was queued; a second crash replaced the session moved aside; a
newer file was in the way of a session that was moved back. `moved`: the tabs
that were moved between windows.

### Safe Browsing

WebKit is external: it asks about a request, perhaps redirects, asks about the
response, and reports the document; a new request of the main frame ends the
navigation before it. A request is always allowed, unless an unsafe resource
for it is already stored (a reload of an error page), and starts a check.
`results` are the checks under way; the database's answer and its arrival on
the main thread are two steps, so answers overtake one another and the
navigation. `unsafe` is the stored resource of the main frame and the navigation
items for whose frames one is stored: it stays with its item, and going back finds it
again. `item` is the last committed item, null at first and while a session is
restored. `nav` is the navigation as WebKit sees it: the URLs it asked about,
those found safe since, and the URL of its response, which may be one it never
asked about (a redirect target for which WebKit did not call
`ShouldAllowRequest`, or a URL a service worker chose); the code does not look
at it. The refinement mapping shows these to the abstract policy. `overtaken`
and `expected` are history variables: pages whose answer was thrown away while
it was needed, and frames with the item under which an answer is still to come.

### Threads and data sources

`PostTaskHelper` is `BeginPost` (it decides whether to take the lock, and takes
it) and `PostTask`/`EndPost` (it reads the state and posts), because without
the lock other threads may act in between. `calls` are the posts a handler
still has to make. `main` follows `WebMainLoop` from `InitializeMainThread` to
the destruction of the loops, `io` the life of the IO thread. References are
not counted: a source is released when it was registered, queued, held by a
request or by a pending post before a step and is not any more after it
(`Released`), and then `DeleteDataSource` runs on the thread of that step.
`BrowserState` is destroyed while tasks with an unretained pointer to it may be
queued; the model lets them read the freed object as it was.

## 3. Runs

| Run | Instance | Shows |
|---|---|---|
| `list_and_observers` | 3 tabs, navigation index -1..0, 4 observers; 4.7 million states | the list and the agents that follow it |
| `inherited_opener` | violation | the mark set by `INSERT_INHERIT_OPENER` is lost |
| `order_controller` | every list of 4 tabs; 720,000 states | the loops compute the operators and end |
| `overlays_safety` | 2 tabs, 2 requests, both kinds of UI; 595,000 states | the invariants of section 4 |
| `overlays_liveness` | 2 tabs, 2 requests, contained; 963,000 states | every front request is presented |
| `overlay_leak`, `overlay_lost`, `overlay_dangling` | violations, 2 tabs | section 5 |
| `sessions` | 2 windows, 1 tab, 2 saves or deletions under way; 859,000 states | tabs are neither lost nor doubled |
| `sessions_delay` | violation, 2 windows | a delayed save that never happens |
| `data_sources` | 2 sources of one name, 1 request, 1 worker; 34,000 states | threads and sources from start to end of the process |
| `safe_browsing` | 2 URLs (pages with one redirect, or a page and a frame), 2 items, 2 checks; 1.5 million states | the tab implements the response policy; what waits is answered |

Bounds. Three tabs are the fewest with a child, a sibling and an unrelated tab,
and two navigation indexes the fewest with two groups of one opener; the search
over four tabs adds two removed children before one that stays. Two tabs are
the fewest that can be switched back and forth during a dismissal, and two
requests the fewest that can be inserted before one another. Identities
of tabs and requests are not reused in the overlay model, which bounds its
behaviours; a container is started and stopped once, as the window's root
coordinator does.

Two windows are the fewest whose saves can cancel one another and between which
a tab can move. One tab suffices: what a window does with it depends on the
other tabs only through whether the list is empty and has an active tab. Two
saves under way, delayed or queued (`MaxSaves`), are those of both windows, or a
write and a deletion in either order. A deletion names the
windows whose files it removes; since the fate of each file is its own, the
bound `Deletions` keeps the deletion of all of them only. Two URLs and one
redirect are a chain, or a chain that returns to its start, with a check each;
two items are one that is left and gone back to. Two checks of one URL can
overtake one another. The bound `Redirecting` leaves redirects to pages without
frames: a redirect ends before the new document has any, and the theorems do not
need the bound. Two sources are one that replaces the other
or is refused by it; one request and one worker task compete with them for the
lock and the queues.

Tabs are symmetric, and so are requests, windows, URLs and checks; the runs with
a temporal property under fairness (`overlays_liveness`, `overlay_lost`,
`sessions_delay`, `data_sources`) do not use symmetry. In `sessions` the
fairness of the specification plays no part.

`order_controller` turns the deadlock check off: the search ends.

Fairness. `overlays_liveness` and `overlay_lost` assume that calls return and
that UIKit runs the completion blocks it was given for presentations and
dismissals. Nothing is assumed of users, tabs and clients. `sessions_delay`
assumes that the run loop fires timers and that the thread pool runs posted
tasks. `data_sources` assumes that a post that was begun is finished, that
loops run their tasks, that the start and the shutdown go on, and that a thread
that waits for the lock gets it (strong fairness: `base::Lock` is a mutex of
the system, held for a few instructions). Nobody is obliged to start a request
or to shut down. Safe Browsing states no liveness: whether a check ends is the
database's business; the invariants say that there is one to wait for.

## 4. What is checked

The list:

* `NoDanglingOpener`, `ActiveIndexIsValid`, `NoDuplicate` hold at every point
  at which an observer can look, not only between methods.
* `ActiveWebStateIsRealized` between methods.
* `ActiveChangesOnlyWhenTold`: inserts, moves and detaches of other tabs never
  change the active tab; only activation, detachment and replacement do.
* `SelectionSurvivesUntilEmpty` and `SelectionStaysInFamily`: closing the
  active tab selects a child, a sibling, the opener, or another tab.
* `CloseAllEmptiesList`: the batch of `CloseAllWebStates` ends only with an
  empty list and the lock released. That every method ends is the absence of
  deadlock: nothing else may happen while one is under way.

The observers: `ForwardersFollowList`, `NobodyObservesDestroyed`,
`WebUsageFollowsSetting`, `InstalledOnRealizedTabs`.

The order controller: `LoopFindsNearestStayingChild`, `ScanFindsNextAndLast`,
`LoopTerminates`; and, proved only, `NewActiveStays`.

The overlays:

* `PresentingAgreesWithContext`, `PresentedWhilePresenting`: the presenter's
  bookkeeping and the context agree between calls.
* `NoDanglingRequest`: the raw request pointers of the presenter are alive,
  also while the request is cancelled or its tab closed during a dismissal.
  Excepted is `presented_request_` once the queue of its request has another
  presenter as its delegate: there it does dangle, see `overlay_dangling`.
* `TabsKeepTheirDelegate`: no queue of the window is disconnected.
* `HidesUIThatIsShown`, `DismissalIsOfPresentedRequest`,
  `PopsWhatWasDismissed`: assertions on the paths that end a presentation. The
  first is one of the two of `HideOverlayUI`; the other one fails (section 5).
* `OnlyCurrentRequestAwaitsDismissal`: a dismissal callback is waited for only
  where it can still come.
* `ActiveRequestIsPresented` (liveness): holds for contained UI.

Sessions:

* `LeftTabsAreKept`: what a window left the foreground with, saving its
  session, is in its file, in a queued write or moved aside, and in the window
  while that is open, until the user removes it, moves it, or gets it back after
  a crash, and except for the four ways of `lost` (section 2). So no late
  delayed save, no teardown and no order of the file operations loses a tab. The
  teardown is the interesting case: the list is emptied before the agent goes,
  and only `disconnect` keeps the pending save from writing that.
* `MovedAsideOnce`: a tab that was moved aside after a crash is in no window,
  file or queued write, so that accepting the restoration never doubles it.
  Excepted are tabs that were moved between windows: a crash after the window
  that got the tab was saved and before the one that lost it was finds the tab
  in both files.

Safe Browsing:

* `ImplementsPolicy`: every step of the detailed specification is a step of
  `ResponsePolicy` or a stutter. A response is allowed only if every URL that
  `ShouldAllowRequest` was called for in its navigation was found safe after it
  was last called. Any answer that arrives after the call counts, also that of an
  earlier check of the same URL. Nothing is said of a document whose own URL was
  never asked about: the code lets it through, as `RedirectWithMissingShouldAllowRequest`
  of `safe_browsing_tab_helper_unittest.mm` expects.
* `ErrorHasResource`: the assertion of `UrlCheckFinished`, for repeated URLs.
* `AnsweredUnlessOvertaken`: while a response of the main frame waits, every
  undecided URL has a check under way; excepted is a URL whose answer came
  between the request of another URL and the redirect to it (section 5).
* `FramesAnsweredUnlessOvertaken`: the same for a frame. Three cases are
  excepted, in which the response waits until the document is left: a frame
  requested when there was no committed item, which is not checked; one
  requested under another item of the same document; and an answer that came
  while another item, or none, was the committed one.

Threads and data sources:

* `UnlockedPostsDontRace`: nobody changes the state of an identifier while
  `PostTaskHelper` reads it without the lock. This rests on the order of the
  enum and on the order in which `WebMainLoop` destroys its members.
* `BackendPointerIsValid`, `NoSourceIsLeaked`, `ScheduledSourcesAreDeleted`
  (liveness), `RequestIsServedUnlessDetached` (liveness).

## 5. Where the code and its comments disagree

* `inherited_opener`: `InsertWebStateImpl` sets the mark that should reset an
  inherited opener when the active tab changes, then sets the opener, which
  unsets the mark.
* `overlay_leak`: `DismissPresentedUI` overwrites the reason of a dismissal that
  is running; a cancellation that becomes a hiding keeps the UI state of a
  request that is destroyed.
* `overlay_lost`: a tab left and activated again during the dismissal of its
  infobar: the presentation context coordinator is started inside its own
  `-stop` and stays started without a view controller. UIKit may refuse the
  nested presentation, in which case its completion does not run; the outcome
  is the same.
* `overlay_dangling`: a request is inserted in front of the presented one, and
  before the old UI is gone the tab goes to another window.
  `OverlayRequestQueueWillReplaceDelegate` compares the presented request with
  the front one only and keeps it; the other window may destroy it before the
  dismissal ends.
* `sessions_delay`: an immediate save cancels the delayed performs of *all*
  windows but removes only its own entry. The entries of the others stay, and
  with an entry in the table a later delayed save schedules nothing. The window
  is saved again only by an immediate save, which leaving the foreground makes.
Remarks that no run states.

The list and the overlays: `ReplaceWebStateAtImpl` notifies
`WebStateActivatedAt` also when the replaced tab is not the active one, since
the old tab differs from the active one; every caller replaces the active tab.
When another tab is activated while a request is being inserted in front of the
presented one, `HideOverlayUI` is called with the new front request, which is
not displayed, as it asserts it to be, and hides the one that is.
`detaching_presenting_web_state_` is set for a tab that is not active and is
still set when another tab is activated, whose predecessor's UI is then
cancelled, where `overlay_presenter_impl.mm:173` speaks of hiding it. The
container's `-stop` clears `started` before `SetDelegate(nil)`, which calls the
container back if an alert is shown (another DCHECK).

Sessions: the save of a window that leaves the foreground "since the app is
about to be backgrounded or terminated" (`session_saving_scene_agent.mm:58`) is
posted to a sequence, and lost if the process ends before the sequence runs it.
A window that connects reads its file at once, although a write may still be
queued for it, and its next save overwrites what that write brings. A crash
during the recovery from a crash overwrites the files moved aside before.
`restoreSessionsAfterCrash` moves a file back only if there is none, and removes
what was moved aside in either case; what it gives back to an open window is in
memory only until the next save. These are the ways of `lost`. The agent wants
to save when "the last tab was closed"
(`session_restoration_browser_agent.mm:243`), but `CloseAllWebStates` deselects
first, and a list that has tabs and no active one is not saved: the file keeps
the closed tabs until the next save. A tab that is moved between windows is in
both files, or in none, until both are saved. A window that has been saved when
it went to the background is not saved again when it is disconnected, so that
what changed in the background depends on the delayed save. The deletion of a
discarded window is a task; a kill loses it.

Safe Browsing: a navigation within the document changes the committed item,
whose identifier the query of a frame carries
(`safe_browsing_tab_helper.mm:121-122`), while the frame's query is kept
(`:569-571`): its answer is stale and the frame's response is not decided by
it. A frame requested without a committed item gets an entry but no check
(`:229-235`). A response of an unknown frame URL uses the committed item without
a test for null (`:317-320`). Callbacks of queries that are destroyed are run by
their destructor; that of a previous query which another one is assigned over is
dropped, and the tracker that owns it cancels. The header calls the
chain "A list of queries corresponding to the redirect chain leading to the
current |pending_main_frame_query_|"; the query of an abandoned navigation may
get into it, which only makes the decision stricter. It says that the chain's
decision is open while results "have not yet been received"
(`safe_browsing_tab_helper.h:154`); a result that arrives when its query is the
previous one, between the request of a redirect's target and
`DidRedirectNavigation`, is stale and dropped, the query then joins the chain
undecided, and the response waits until the navigation is given up.

Threads and data sources: `task_runners` is never cleared, although
`web_thread_impl.cc:44-45` says that it is. A source that is added while the
`BrowserState` is destroyed may create a backend that nobody deletes (the
exception in `NoSourceIsLeaked`). `url_data_manager_ios_backend.mm:201-203` says
that a request "can continue to be served even if the source is detached from
the backend"; the answer of a replaced source is thrown away (the exception in
`RequestIsServedUnlessDetached`).

## 6. What is proved

Every theorem is of the form `Spec => []P` or `Spec => [][A]_vars` and holds
for every value of the constants that satisfies the assumptions of the modules:

| Module | Assumptions |
|---|---|
| `WebStateListOrderController`, `WebStateList` | `NoWebState` is not a tab, `MaxNavigationIndex` is a natural number |
| `OrderControllerSearch` | `Length` is a natural number; WebStates are named by their positions and null by 0 |
| `WebStateListObservers` | `Observers` is a sequence of the four observers, in any order and number |
| `OverlayCalls` | `Null` is neither a tab nor a request; a window has finitely many tabs (`CancelAllOverlayUI` goes through them); the two kinds of UI |
| `SessionService` | a session is not the mark of an absent file; the bound on the saves under way is a positive natural number, and deletions are of sets of windows |
| `SafeBrowsing` | the two bounds are natural numbers; `Null` is neither a URL, an item nor a query, and the mark of the main frame is no item |
| `URLDataSources` | finitely many sources (the list of scheduled sources is finite) |

The theorems, and the property of section 4 each one states:

| Proof module | Theorem | Property |
|---|---|---|
| `WebStateList_proof` | `TypeCorrect` | `TypeOK` |
| | `OpenersNeverDangle` | `NoDanglingOpener` |
| | `OwnedOnce` | `NoDuplicate` |
| | `ActiveIndexAlwaysValid` | `ActiveIndexIsValid` |
| | `ActiveAlwaysRealized` | `ActiveWebStateIsRealized` |
| | `ActiveNeverChangesSilently` | `ActiveChangesOnlyWhenTold` |
| | `SelectionIsNeverLost` | `SelectionSurvivesUntilEmpty` |
| | `SelectionAlwaysInFamily` | `SelectionStaysInFamily` |
| | `CloseAllClosesEverything` | `CloseAllEmptiesList` |
| | `Inductive` | the invariant `IInv` |
| | `ObserversImplementList` | the composition implements `WebStateList` |
| | `ForwardersAlwaysFollow` | `ForwardersFollowList` |
| | `DestroyedIsUnobserved` | `NobodyObservesDestroyed` |
| | `WebUsageAlwaysFollows` | `WebUsageFollowsSetting` |
| | `InstalledExactly` | `InstalledOnRealizedTabs` |
| `OrderControllerSearch_proof` | `ScanAlwaysFindsNextAndLast` | `ScanFindsNextAndLast` |
| | `LoopAlwaysFindsNearestStayingChild` | `LoopFindsNearestStayingChild` |
| | `LoopIsBounded` | the variant of the loop, `EveryIterationMeetsNewChild` |
| | `NewActiveAlwaysStays` | `NewActiveStays` |
| `OverlayPresenter_proof` | `OverlayTypes` | `TypeOK` |
| | `PresentingAlwaysAgrees` | `PresentingAgreesWithContext` |
| | `PresentedExactlyWhilePresenting` | `PresentedWhilePresenting` |
| | `HidesOnlyShownUI` | `HidesUIThatIsShown` |
| | `DismissesWhatIsPresented` | `DismissalIsOfPresentedRequest` |
| | `OnlyCurrentRequestWaits` | `OnlyCurrentRequestAwaitsDismissal` |
| `OverlayRequests_proof` | `TabsAlwaysKeepTheirDelegate` | `TabsKeepTheirDelegate` |
| | `RequestsNeverDangle` | `NoDanglingRequest` |
| | `AlwaysPopsWhatWasDismissed` | `PopsWhatWasDismissed` |
| `SessionService_proof` | `SessionTypes` | `TypeOK` |
| | `MovedAsideTabsAreNowhereElse` | `MovedAsideOnce` |
| | `LeftTabsAreNeverLost` | `LeftTabsAreKept` |
| `SafeBrowsing_proof` | `SafeBrowsingTypes` | `TypeOK` |
| | `ErrorAlwaysHasResource` | `ErrorHasResource` |
| | `SafeBrowsingImplementsPolicy` | `ImplementsPolicy` |
| | `ResponsesAreAnswered` | `AnsweredUnlessOvertaken` |
| | `FramesAreAnswered` | `FramesAnsweredUnlessOvertaken` |
| `URLDataSources_proof` | `DataSourcesTypes` | `TypeOK` |
| | `UnlockedPostsNeverRace` | `UnlockedPostsDontRace` |
| | `BackendPointerAlwaysValid` | `BackendPointerIsValid` |
| | `SourcesAreNotLeaked` | `NoSourceIsLeaked` |

`ListLemmas` holds the lemmas on sequences that several of them need. None of
the properties is inductive alone. What each one needed:

**The list.** A method that is suspended in an observer call comes back with
its locals: `AfterWillDetachWebStateAt` removes position `op.index`, and this
keeps the list well formed only if that position still holds `op.web_state`;
`AfterWebStateInsertedAt` sets an opener that must still be in the list. `IInv`
therefore adds `OperationOK`, which says for each step what the locals know of
the list, and `SelectionIsRealized`, which follows the realization of the
active tab through the steps at which it is pending. The proof has three
layers: where elements go on insertion and removal (`ListLemmas`), the updates
of a well-formed list and the positions that the order controller returns, and
one lemma per action. The search needs one more fact, that a non-empty finite
set of positions has one of least cyclic distance (`LeastRankExists`). The
action properties follow from `IInv` and what each method leaves alone.

**The search.** The list's proofs use operators that say what the order
controller finds (`FirstFrom`, `LastFrom`); these theorems say that the loops of
the code find it, in lists of any length. The scan is a recursive function of
the number of its iterations. The prover has no induction principle that it can
instantiate, but a set of numbers that holds 0 and, with i, i + 1, misses none
of them, because the least one it missed would follow one it holds
(`InductionUpTo`, from `LeastRankExists`). With it `ScanExists` shows that the
recursion defines a function, and `ScanFindsNext` and `ScanFindsLast` that
after i iterations the locals are those of what was met within distance i
(`Met`): the nearest of it and n = 0, or the last of it and an n that has not
run out. The outer loop starts its scans from ever other positions, and its
invariant `LoopInv` says what the set `children` is for: it holds everyone
passed on the way from the start, all removed, up to the position reached; or,
once the walk has come round to the start itself, everyone. So a child that
stays is never behind, a child met twice means that the walk is round, and each
iteration adds a child, which bounds the loop. `NewActiveStays` needs that the
new index of a position is its place among those that stay
(`PlaceAmongStaying`), by counting.

**The agents.** The composition implements the list, so that `IInv` holds in
it. `ObserversInv` then says of each agent what it has before and after it is
told of the call that is being made: an agent that is still in `pending` agrees
with the list once the tab of the call is added and the one that leaves is
removed (`AllOK`, `ActiveOK`, `UsageOK`, `DepsOK`). The interesting step is a
realization between two observers of the same notification.

**The overlays.** The methods re-enter one another, so that the invariant is
about a stack of calls, not about a few program counters. `CallOK` says what
each call on the stack knows of the state when it will run, for instance that
`ShowOverlayUI` finds no UI shown and the context capable, and that the two
halves of a dismissal belong to `request_`, whose callback is gone.
`MayRunBefore` says which calls may run while another one waits: nothing but a
removal runs inside the first half of a dismissal; during the second only calls
that present another request. This is what keeps `request_` from changing below
a dismissal. `ContextOK` and `PresenterOK` tie the callbacks, the coordinators,
`presenting_` and `presented_request_` together at every moment, and say which
call on the stack will repair what does not agree yet. One argument is not
local: the front request of a queue that goes to another presenter is not the
active one, because the activation of the next tab comes first
(`QueuesKnownTo`, `TabsKnownTo`). With `UnstartedOK`, a context that is not
started shows nothing, these are inductive. There is one lemma per method and
per event; that the stack after a method has the calls it made above those that
waited is proved once (`Pushed`, `ConcatCalls`).

`Inv` speaks of the UI and says little of the requests behind it. Who may still
hold a request, and what an answer of the user will do, needs a second
invariant on top of it, `RequestsInv` in `OverlayRequests_proof`. `RequestsOK`: a request that the
presenter knows is owned by a queue or by the presenter, or a call that will
make the presenter forget it is on the stack, or its queue has become another
presenter's (the exception of `NoDanglingRequest`); the removed request is in no
queue, and is the presented one. `TabsOK`: a tab whose queue has no delegate
yet is being added, and the queue for which the presenter postpones giving up
the delegate (`detached_presenting_request_queue_`) is that of a tab that has
left and of the presented request. `AnswersOK`: while the UI of the presented
request can still report an answer of the user, the request is the front one of
the active tab or has been removed, or a call that takes its UI back is on the
stack; this is what makes `PopFrontRequest` remove the right request.
`DelegatesKnownTo` and `RequestsKnownTo` say the same from the side of each
waiting call, and `InOrder` which calls may run before the active tab changes:
an activation between the dismissal and its callback would otherwise pop a
request of another tab. Again there is one lemma per method and per event.

**Sessions.** `OneOwner` says that a tab that was never moved between windows
belongs to one window, wherever it is kept, and is not in use while it is moved
aside; without the first part the session of one window could be moved aside
while another one still has its tabs. `LeftTabsAreKept` is inductive together
with the types and `Quiet`: a process that is down has nothing queued, and a
window without UI has no tabs. Its second half, that an open window still has
the tabs, is what lets a late delayed save only repeat them. `KeptTab` is it for
one tab; the lemmas on `EventualTabs` say what posting and running a file
operation does to what a file will hold in the end.

**Safe Browsing.** The refinement needs `PhaseOK`, what the phase of the
navigation says of the pending and the previous query, and `NavigationCovered`:
a URL that was not found safe since it was asked for has a query which is not
allowed and which the response's decision will look at. `ResponsesAreAnswered`
needs a matching of undecided queries and checks (`QueriesAwaited`), since one
check per URL is not enough: answers for a URL that occurs twice go to the
oldest query. `FramesAreAnswered` needs `FramesAwaited`: an undecided frame has
a check for *every* item under which an answer is expected, since the user may
go back to any of them.

**Threads and data sources.** `StagesOK` says what the stage of the main loop
says of the threads, and `PostingOK` that a thread inside an unlocked post
posts to a thread that outlives it. `ListedOK` and `ReferencedOK` say where a
source is at each stage of its life, and `NetworkOK` that, once the browser
states are gone, the requests are gone or the task that deletes them will run.

### Only model-checked

* Liveness: `LoopTerminates`, `ActiveRequestIsPresented`,
  `ScheduledSourcesAreDeleted`, `RequestIsServedUnlessDetached`. The prover has
  no rule for fairness and `ENABLED`. Of `LoopTerminates` it proves the part
  that is not about fairness, the variant (`LoopIsBounded`).
* The claims of section 5, which are counterexamples.

## 7. Plan

1. (done) the list, its observers, its order controller; the overlay system.
2. (done) sessions with crash recovery; Safe Browsing and the policy it
   implements; the web threads and the data sources.
3. (done) the proofs of section 6.
4. (done) every invariant and every action property that a run checks to hold
   is a theorem; the liveness properties stay with TLC.
5. Candidates for more modules: the reading list's downloads and the disabling
   counter of the fullscreen model; serialization composed with the list.

## 8. Not modelled

* Of the presenter: `BrowserDestroyed` and the observers it notifies; of the
  context: the shutdown helper, accessibility notifications, the fullscreen
  disabler. The other window, to which a tab may move, is represented by what
  it may do to the queue: add, cancel and answer requests, each removed request
  being destroyed at once. A tab that moved does not come back, and a tab that
  comes from another window has an empty queue.
* Serialization, metrics and favicon observers of the list: they keep no state
  that the list depends on. In the sessions, serialization is the set of tabs.
* Of the sessions: the incognito browser, which uses the same service under
  another path; the directory of tab files; the foreground-inactive level,
  which behaves as the foreground; the undoing of "close all" in the tab grid.
  A session is a set, so that two copies of a tab in one list are one.
* Of Safe Browsing: threat types and the allow list (the user's decision is an
  input), the error page, the database, the response of a frame nobody asked
  about while there is no committed item. Of the threads: delayed and
  non-nestable tasks. Of the data sources: what a source answers and how it is
  read.
* `chrome/browser/https_upgrades`: a flag and a timer per tab. Its assertions
  are about the order in which the navigation layer calls it.
* The reading list's downloads, snapshots, prerendering, the app launcher: each
  is one queue or one flag driven by views or by navigation.
* `web/navigation` and `web/web_state`: 5,000 lines of reactions to WKWebView,
  whose behaviour is not in the repository. The list uses one fact of them,
  that a tab is realized at most once.
* UI code, `web_view`, build scripts, strings.
