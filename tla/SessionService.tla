--------------------------- MODULE SessionService ---------------------------
(* Saving, restoring and recovering the tabs of the windows ("scenes").        *)
(* SessionServiceIOS keeps the delayed saves and one sequence for file         *)
(* operations, SessionRestorationBrowserAgent asks it to save,                 *)
(* SessionSavingSceneAgent does so when a scene leaves the foreground, the     *)
(* scene's teardown destroys the agent, and CrashRestoreHelper moves sessions  *)
(* aside after a crash and brings them back if the user accepts.               *)
(*                                                                             *)
(* A session is the set of (the identifiers of) its tabs.  Only the regular    *)
(* browser of a scene is modelled: the incognito one uses the same service     *)
(* under a path of its own.                                                    *)
EXTENDS Sequences, SequencesExt, FiniteSets, Naturals

CONSTANTS
  Scenes,     \* session identifiers of the windows
  Tabs,       \* identifiers of tabs
  NoFile,     \* "there is no such file"
  MaxSaves,   \* bound: delayed saves and queued file operations together
  Deletions   \* bound: the sets of scenes whose files are deleted at once

ASSUME SessionsAssumption ==
  /\ MaxSaves \in Nat \ {0} /\ Deletions \subseteq SUBSET Scenes
  /\ \A session \in SUBSET Tabs : session # NoFile

VARIABLES
  app,        \* "down", "launching" (sessions still to be moved aside) or "up"
  scene,      \* scene -> "none" (no UI), "background" or "foreground"
  needSaving, \* scene -> _sessionsNeedSaving of its saving agent
  tabs,       \* scene -> tabs of its WebStateList
  selected,   \* scenes whose WebStateList has an active tab
  pending,    \* scene -> its entry of _pendingSessions
  timers,     \* scenes with a delayed perform of performSaveToPathInBackground:
  tasks,      \* tasks posted to _taskRunner
  file,       \* scene -> session file, or NoFile
  backup,     \* scene -> session file moved aside, or NoFile
  prompts,    \* scenes that show the "restore" infobar
  connected,  \* PreviousSessionInfo: scenes to recover after a crash
  exited,     \* the process ended while no scene was in the foreground
  required,   \* sessionRestorationRequired of this launch
  left,       \* history: scene -> tabs it left the foreground with
  lost,       \* history: scene -> those of them that went in a way named below
  moved       \* history: tabs moved from one scene to another

disk     == <<file, backup>>
launch   == <<app, connected, exited, required>>
service  == <<pending, timers, tasks>>
lists    == <<tabs, selected>>
history  == <<left, lost, moved>>
vars     == <<app, scene, needSaving, tabs, selected, pending, timers, tasks,
              file, backup, prompts, connected, exited, required, left, lost,
              moved>>

Sessions == SUBSET Tabs
Writes   == [op : {"write"}, path : Scenes, data : Sessions]
Deletes  == [op : {"delete"}, paths : SUBSET Scenes]

(* The types, and: an entry of _pendingSessions is a weak reference, where     *)
(* "live" names the factory of a browser that still exists and "disconnected"  *)
(* one whose agent is gone but that nobody has released yet.                   *)
TypeOK ==
  /\ app \in {"down", "launching", "up"}
  /\ scene \in [Scenes -> {"none", "background", "foreground"}]
  /\ needSaving \in [Scenes -> BOOLEAN]
  /\ tabs \in [Scenes -> Sessions]
  /\ pending \in [Scenes -> {"none", "live", "disconnected"}]
  /\ timers \subseteq Scenes
  /\ tasks \in Seq(Writes \cup Deletes)
  /\ file \in [Scenes -> {NoFile} \cup Sessions]
  /\ backup \in [Scenes -> {NoFile} \cup Sessions]
  /\ prompts \subseteq Scenes /\ connected \subseteq Scenes
  /\ exited \in BOOLEAN /\ required \in BOOLEAN
  /\ left \in [Scenes -> Sessions] /\ lost \in [Scenes -> Sessions]
  /\ moved \subseteq Tabs
  /\ selected \subseteq {s \in Scenes : tabs[s] # {}}
  /\ \A s \in Scenes : pending[s] = "live" => scene[s] # "none"
-----------------------------------------------------------------------------
(* SessionServiceIOS.                                                          *)

(* What a task does to the files: it leaves `result' in those it concerns.     *)
Concerns(task, s) == IF task.op = "write" THEN s = task.path ELSE s \in task.paths
Result(task)      == IF task.op = "write" THEN task.data ELSE NoFile

AfterTask(f, task) == [s \in Scenes |-> IF Concerns(task, s) THEN Result(task) ELSE f[s]]

TabsIn(f) == IF f = NoFile THEN {} ELSE f

(* What is on disk of a scene.                                                 *)
OnDisk(s) == TabsIn(file[s]) \cup TabsIn(backup[s])

(* The tabs in a file once all tasks have run: those the last task that        *)
(* concerns it leaves, or those it holds now if there is no such task.         *)
LastTask(k, s) ==
  Concerns(tasks[k], s) /\ \A l \in DOMAIN tasks : l > k => ~Concerns(tasks[l], s)

EventualTabs(s) ==
  {t \in Tabs : \/ /\ \A k \in DOMAIN tasks : ~Concerns(tasks[k], s)
                   /\ t \in TabsIn(file[s])
                \/ \E k \in DOMAIN tasks : LastTask(k, s) /\ t \in TabsIn(Result(tasks[k]))}

(* A file operation of the scene waits in the queue.                           *)
Queued(s) == \E k \in DOMAIN tasks : Concerns(tasks[k], s)

(* CanSaveSession(), -canSaveCurrentSession: a list that has tabs but no       *)
(* active one is not saved.                                                    *)
CanSaveSession(s) == tabs[s] = {} \/ s \in selected

(* The bound, after an action that schedules or posts.                         *)
WithinBound == Len(tasks') + Cardinality(timers') <= MaxSaves

(* -performSaveToPathInBackground: of a path whose entry is `entry': the entry *)
(* is removed, and the session is serialised and its write posted unless the   *)
(* factory was released or disconnected, or has no session to save.            *)
PerformSave(s, entry) ==
  /\ pending' = [pending EXCEPT ![s] = "none"]
  /\ tasks' = IF entry = "live" /\ CanSaveSession(s)
                THEN Append(tasks, [op |-> "write", path |-> s, data |-> tabs[s]])
                ELSE tasks
  /\ WithinBound

(* -saveSession:...immediately:NO for the paths S.  A delayed perform is       *)
(* scheduled only for a path that had no entry.  (A path that still has an     *)
(* older one gets a second, which finds no entry and does nothing: one         *)
(* stands for both.)                                                           *)
SaveDelayed(S) ==
  /\ pending' = [s \in Scenes |-> IF s \in S THEN "live" ELSE pending[s]]
  /\ timers' = timers \cup {s \in S : pending[s] = "none"}
  /\ tasks' = tasks
  /\ WithinBound

(* -saveSession:...immediately:YES.  cancelPreviousPerformRequestsWithTarget:  *)
(* cancels the delayed performs of every path.                                 *)
SaveImmediately(s) ==
  /\ timers' = {}
  /\ PerformSave(s, "live")

(* The delay of a save is over.                                                *)
TimerFires(s) ==
  /\ app = "up" /\ s \in timers
  /\ timers' = timers \ {s}
  /\ PerformSave(s, pending[s])
  /\ UNCHANGED <<launch, scene, needSaving, lists, disk, prompts, history>>

(* The last reference to a disconnected factory is released.                   *)
FactoryReleased(s) ==
  /\ pending[s] = "disconnected"
  /\ pending' = [pending EXCEPT ![s] = "none"]
  /\ UNCHANGED <<launch, scene, needSaving, lists, timers, tasks, disk, prompts,
                 history>>

(* The sequenced task runner runs its oldest task: -performSaveSessionData: or *)
(* the block of -deletePaths:.                                                 *)
RunTask ==
  /\ app = "up" /\ tasks # << >>
  /\ file' = AfterTask(file, Head(tasks))
  /\ tasks' = Tail(tasks)
  /\ UNCHANGED <<launch, scene, needSaving, lists, pending, timers, backup,
                 prompts, history>>

-----------------------------------------------------------------------------
(* The tabs of a scene change.                                                 *)

Places(t) ==
  \/ \E s \in Scenes : t \in tabs[s] \cup TabsIn(file[s]) \cup TabsIn(backup[s])
  \/ \E k \in DOMAIN tasks : tasks[k].op = "write" /\ t \in tasks[k].data

Without(f, s, t) == [f EXCEPT ![s] = @ \ {t}]

(* The lists of S change.  The browser agent asks for a delayed save unless    *)
(* the tab concerned is loading, and always when the last tab, being active,   *)
(* is closed; a list without active tab before and after is not saved.         *)
ObserveEdit(S) ==
  \E asking \in SUBSET {s \in S : s \in selected \/ s \in selected'} :
    /\ \A s \in S : s \in selected /\ tabs'[s] = {} => s \in asking
    /\ SaveDelayed(asking)

(* A tab is inserted; opened in the background it is not activated, even as    *)
(* the only one.                                                               *)
OpenTab(s, t) ==
  /\ app = "up" /\ scene[s] = "foreground" /\ ~Places(t)
  /\ tabs' = [tabs EXCEPT ![s] = @ \cup {t}]
  /\ \E active \in {{}, {s}} : selected' = selected \cup active
  /\ ObserveEdit({s})
  /\ left' = [p \in Scenes |-> left[p] \ {t}]
  /\ lost' = [p \in Scenes |-> lost[p] \ {t}]
  /\ moved' = moved \ {t}
  /\ UNCHANGED <<launch, scene, needSaving, disk, prompts>>

CloseTab(s, t) ==
  /\ app = "up" /\ scene[s] # "none" /\ t \in tabs[s]
  /\ tabs' = Without(tabs, s, t)
  /\ selected' = selected \ {p \in {s} : tabs'[p] = {}}
  /\ ObserveEdit({s})
  /\ left' = Without(left, s, t)
  /\ UNCHANGED <<launch, scene, needSaving, disk, prompts, lost, moved>>

(* MoveTabToBrowser: the tab is detached from the list of one scene and        *)
(* inserted in that of another, where it is activated if the list was empty.   *)
MoveTab(s, d, t) ==
  /\ app = "up" /\ scene[s] # "none" /\ scene[d] # "none" /\ s # d /\ t \in tabs[s]
  /\ tabs' = [tabs EXCEPT ![s] = @ \ {t}, ![d] = @ \cup {t}]
  /\ selected' = (selected \ {p \in {s} : tabs'[p] = {}}) \cup {p \in {d} : tabs[p] = {}}
  /\ ObserveEdit({s, d})
  /\ left' = [left EXCEPT ![s] = @ \ {t}, ![d] = @ \ {t}]
  /\ lost' = Without(lost, d, t)
  /\ moved' = moved \cup {t}
  /\ UNCHANGED <<launch, scene, needSaving, disk, prompts>>

(* CloseAllWebStates() deselects the active tab first: none of the saves the   *)
(* agent asks for while the tabs are closed finds an active tab.               *)
CloseAllTabs(s) ==
  /\ app = "up" /\ scene[s] # "none" /\ tabs[s] # {}
  /\ tabs' = [tabs EXCEPT ![s] = {}]
  /\ selected' = selected \ {s}
  /\ left' = [left EXCEPT ![s] = @ \ tabs[s]]
  /\ UNCHANGED <<launch, scene, needSaving, service, disk, prompts, lost, moved>>

ActivateTab(s) ==
  /\ app = "up" /\ tabs[s] # {}
  /\ selected' = selected \cup {s}
  /\ UNCHANGED tabs
  /\ ObserveEdit({s})
  /\ UNCHANGED <<launch, scene, needSaving, disk, prompts, history>>

DidFinishNavigation(s) ==
  /\ app = "up" /\ s \in selected
  /\ SaveDelayed({s})
  /\ UNCHANGED <<launch, scene, needSaving, lists, disk, prompts, history>>
-----------------------------------------------------------------------------
(* Life cycle of a scene.                                                      *)

(* The UI of a scene is created: its browser restores the session on disk,     *)
(* which activates a tab and asks for a delayed save if there was one, and the *)
(* prompt is shown if this launch moved the scene's session aside.  The file   *)
(* is read at once, whatever waits in the queue: tabs of a write that still    *)
(* waits are not in the window, whose next save overwrites them.               *)
Connect(s) ==
  /\ app = "up" /\ scene[s] = "none"
  /\ scene' = [scene EXCEPT ![s] = "foreground"]
  /\ needSaving' = [needSaving EXCEPT ![s] = TRUE]
  /\ tabs' = [tabs EXCEPT ![s] = TabsIn(file[s])]
  /\ selected' = selected \cup {p \in {s} : tabs'[p] # {}}
  /\ lost' = [lost EXCEPT ![s] = IF Queued(s) THEN @ \cup (left[s] \ OnDisk(s))
                                             ELSE @ \ OnDisk(s)]
  /\ IF tabs'[s] = {} THEN UNCHANGED service ELSE SaveDelayed({s})
  /\ connected' = connected \cup {s}
  /\ prompts' = IF required /\ backup[s] # NoFile THEN prompts \cup {s} ELSE prompts
  /\ UNCHANGED <<app, exited, required, disk, left, moved>>

(* -saveSessionsIfNeeded.                                                      *)
SaveSessionsIfNeeded(s) ==
  /\ needSaving' = [needSaving EXCEPT ![s] = FALSE]
  /\ IF needSaving[s] /\ CanSaveSession(s) THEN SaveImmediately(s) ELSE UNCHANGED service

(* The tabs a scene has left the foreground with, once it leaves it and saves  *)
(* its session.                                                                *)
LeftAfterSaving(s) ==
  IF needSaving[s] /\ CanSaveSession(s) THEN [left EXCEPT ![s] = @ \cup tabs[s]] ELSE left

LostAfterSaving(s) ==
  IF needSaving[s] /\ CanSaveSession(s) THEN [lost EXCEPT ![s] = @ \ tabs[s]] ELSE lost

EnterBackground(s) ==
  /\ app = "up" /\ scene[s] = "foreground"
  /\ scene' = [scene EXCEPT ![s] = "background"]
  /\ SaveSessionsIfNeeded(s)
  /\ left' = LeftAfterSaving(s) /\ lost' = LostAfterSaving(s)
  /\ UNCHANGED <<launch, lists, disk, prompts, moved>>

EnterForeground(s) ==
  /\ app = "up" /\ scene[s] = "background"
  /\ scene' = [scene EXCEPT ![s] = "foreground"]
  /\ needSaving' = [needSaving EXCEPT ![s] = TRUE]
  /\ UNCHANGED <<launch, lists, service, disk, prompts, history>>

\* Mutant: the destructor does not disconnect the factory.
FactoryNotDisconnected == {"none", "live"}

(* What becomes of an entry when ~SessionRestorationBrowserAgent disconnects   *)
(* and releases its factory: the weak reference is cleared at once, or later.  *)
FactoryDestroyed == {"none", "disconnected"}

(* The infobar of scene s is removed: the sessions moved aside that have tabs  *)
(* go to the recently closed tabs.                                             *)
BackupWithoutPrompt(s) ==
  [p \in Scenes |-> IF s \in prompts /\ TabsIn(backup[p]) # {} THEN NoFile ELSE backup[p]]

(* The tabs of them are closed tabs then.                                      *)
Declined(s, f) ==
  [p \in Scenes |-> IF s \in prompts THEN f[p] \ TabsIn(backup[p]) ELSE f[p]]

(* The scene is disconnected.  -teardownUI saves the session if it is needed,  *)
(* then closes all tabs, which asks for no save (see CloseAllTabs), and        *)
(* destroys the browser and its agent.                                         *)
Disconnect(s) ==
  LET saved == needSaving[s] /\ CanSaveSession(s)
      entry == IF saved THEN "none" ELSE pending[s]
  IN /\ app = "up" /\ scene[s] # "none"
     /\ tasks' = IF saved
                   THEN Append(tasks, [op |-> "write", path |-> s, data |-> tabs[s]])
                   ELSE tasks
     /\ timers' = IF saved THEN {} ELSE timers
     /\ WithinBound
     /\ IF entry # "none"
          THEN \E e \in FactoryDestroyed : pending' = [pending EXCEPT ![s] = e]
          ELSE pending' = [pending EXCEPT ![s] = "none"]
     /\ tabs' = [tabs EXCEPT ![s] = {}]
     /\ selected' = selected \ {s}
     /\ left' = Declined(s, LeftAfterSaving(s)) /\ lost' = LostAfterSaving(s)
     /\ scene' = [scene EXCEPT ![s] = "none"]
     /\ needSaving' = [needSaving EXCEPT ![s] = FALSE]
     /\ connected' = connected \ {s}
     /\ backup' = BackupWithoutPrompt(s)
     /\ prompts' = prompts \ {s}
     /\ UNCHANGED <<app, exited, required, file, moved>>

(* -deletePaths: posts the deletion of session files: of every directory that  *)
(* exists when the user clears the history, or of the windows the system has   *)
(* discarded.                                                                  *)
DeleteSessions(paths) ==
  /\ app = "up"
  /\ tasks' = Append(tasks, [op |-> "delete", paths |-> paths])
  /\ timers' = timers
  /\ WithinBound
  /\ left' = [s \in Scenes |-> IF s \in paths THEN {} ELSE left[s]]
  /\ lost' = [s \in Scenes |-> IF s \in paths THEN {} ELSE lost[s]]
  /\ UNCHANGED <<launch, scene, needSaving, lists, pending, disk, prompts, moved>>
-----------------------------------------------------------------------------
(* The process ends at any moment, and is launched again.  What waits in the   *)
(* queue is not written.                                                       *)

Kill ==
  /\ app # "down"
  /\ app' = "down"
  /\ exited' = IF app = "up" THEN \A s \in Scenes : scene[s] # "foreground" ELSE exited
  /\ required' = FALSE
  /\ scene' = [s \in Scenes |-> "none"]
  /\ needSaving' = [s \in Scenes |-> FALSE]
  /\ tabs' = [s \in Scenes |-> {}] /\ selected' = {}
  /\ pending' = [s \in Scenes |-> "none"]
  /\ timers' = {}
  /\ tasks' = << >>
  /\ prompts' = {}
  /\ lost' = [s \in Scenes |-> IF Queued(s) THEN lost[s] \cup (left[s] \ OnDisk(s))
                                           ELSE lost[s]]
  /\ UNCHANGED <<connected, disk, left, moved>>

(* After an exit with a scene in the foreground, +moveAsideSessions: moves the *)
(* session files of the scenes that were connected, one by one.                *)
Launch ==
  /\ app = "down"
  /\ app' = "launching"
  /\ UNCHANGED <<connected, exited, required, scene, needSaving, lists, service,
                 disk, prompts, history>>

(* A session moved aside earlier, which the user neither took back nor         *)
(* declined, is replaced.                                                      *)
LostToSecondCrash(s) ==
  [lost EXCEPT ![s] = @ \cup (left[s] \cap (TabsIn(backup[s]) \ TabsIn(file[s])))]

\* Mutant: the session file is copied, not moved.
CopyAside(s) ==
  /\ app = "launching" /\ ~exited /\ s \in connected /\ file[s] # NoFile
  /\ backup' = [backup EXCEPT ![s] = file[s]]
  /\ required' = TRUE
  /\ lost' = LostToSecondCrash(s)
  /\ UNCHANGED <<app, connected, exited, scene, needSaving, lists, service, file,
                 prompts, left, moved>>

MoveAside(s) ==
  /\ app = "launching" /\ ~exited /\ s \in connected /\ file[s] # NoFile
  /\ backup' = [backup EXCEPT ![s] = file[s]]
  /\ file' = [file EXCEPT ![s] = NoFile]
  /\ required' = TRUE
  /\ lost' = LostToSecondCrash(s)
  /\ UNCHANGED <<app, connected, exited, scene, needSaving, lists, service,
                 prompts, left, moved>>

FinishLaunch ==
  /\ app = "launching"
  /\ exited \/ \A s \in connected : file[s] = NoFile
  /\ app' = "up"
  /\ connected' = {} /\ exited' = TRUE
  /\ UNCHANGED <<required, scene, needSaving, lists, service, disk,
                 prompts, history>>

(* The user accepts: sessions moved aside are added to the windows that are    *)
(* open (whose only tab is closed if it is the new tab page), and the other    *)
(* ones are moved back unless a file is in the way.  What a window gets back   *)
(* is an open tab like a new one: only a delayed save puts it on disk again.   *)
RestoreSessionsAfterCrash(s) ==
  LET open     == {p \in Scenes : scene[p] # "none"}
      restored == {p \in open : TabsIn(backup[p]) # {}}
  IN /\ app = "up" /\ s \in prompts
     /\ prompts' = prompts \ {s}
     /\ \E ntp \in SUBSET {p \in restored : Cardinality(tabs[p]) = 1} :
          /\ tabs' = [p \in Scenes |->
                        IF p \in restored
                          THEN (IF p \in ntp THEN {} ELSE tabs[p]) \cup backup[p]
                          ELSE tabs[p]]
          /\ left' = [p \in Scenes |->
                        (IF p \in ntp THEN left[p] \ tabs[p] ELSE left[p])
                          \ (IF p \in open THEN TabsIn(backup[p]) ELSE {})]
     /\ selected' = selected \cup restored
     /\ SaveDelayed(restored)
     /\ file' = [p \in Scenes |-> IF p \notin open /\ file[p] = NoFile
                                    THEN backup[p] ELSE file[p]]
     /\ lost' = [p \in Scenes |->
                   IF p \notin open /\ (file[p] # NoFile \/ Queued(p))
                     THEN lost[p] \cup (left[p] \cap TabsIn(backup[p])) ELSE lost[p]]
     /\ backup' = [p \in Scenes |-> NoFile]
     /\ UNCHANGED <<launch, scene, needSaving, moved>>

(* The user dismisses the infobar, or closes the tab that shows it.            *)
InfoBarRemoved(s) ==
  /\ app = "up" /\ s \in prompts
  /\ prompts' = prompts \ {s}
  /\ backup' = BackupWithoutPrompt(s)
  /\ left' = Declined(s, left)
  /\ UNCHANGED <<launch, scene, needSaving, lists, service, file, lost, moved>>
-----------------------------------------------------------------------------
Init ==
  /\ app = "up"
  /\ scene = [s \in Scenes |-> "none"]
  /\ needSaving = [s \in Scenes |-> FALSE]
  /\ tabs = [s \in Scenes |-> {}] /\ selected = {}
  /\ pending = [s \in Scenes |-> "none"]
  /\ timers = {}
  /\ tasks = << >>
  /\ file = [s \in Scenes |-> NoFile]
  /\ backup = [s \in Scenes |-> NoFile]
  /\ prompts = {} /\ connected = {}
  /\ exited = TRUE /\ required = FALSE
  /\ left = [s \in Scenes |-> {}] /\ lost = [s \in Scenes |-> {}] /\ moved = {}

Next ==
  \/ RunTask \/ Kill \/ Launch \/ FinishLaunch
  \/ \E paths \in Deletions : DeleteSessions(paths)
  \/ \E s \in Scenes :
       \/ TimerFires(s) \/ FactoryReleased(s) \/ DidFinishNavigation(s)
       \/ Connect(s) \/ EnterBackground(s) \/ EnterForeground(s) \/ Disconnect(s)
       \/ MoveAside(s) \/ RestoreSessionsAfterCrash(s) \/ InfoBarRemoved(s)
       \/ CloseAllTabs(s) \/ ActivateTab(s)
       \/ \E t \in Tabs : OpenTab(s, t) \/ CloseTab(s, t)
       \/ \E d \in Scenes, t \in Tabs : MoveTab(s, d, t)

(* The run loop fires timers and the thread pool runs posted tasks; nothing    *)
(* obliges the user or the system to do anything.                              *)
Fairness == WF_vars(RunTask) /\ \A s \in Scenes : WF_vars(TimerFires(s))

Spec == Init /\ [][Next]_vars /\ Fairness
-----------------------------------------------------------------------------
(* A tab a scene left the foreground with, saving its session, stays on disk   *)
(* (in its session file, in the session moved aside after a crash, or in a     *)
(* write that is queued) and in the window while it is open, until it is       *)
(* closed, moved to another window, deleted on purpose, declined (it is a      *)
(* closed tab then) or given back to an open window by a crash restoration     *)
(* (it is a new tab then).  Neither a late delayed save, nor the teardown that *)
(* empties the list, nor the order of the file operations loses one.  The      *)
(* tabs the code does lose are those of `lost': a file operation of the scene  *)
(* was queued when the process ended or when the scene read its file again,    *)
(* a second crash replaced the session moved aside, or a newer session file    *)
(* was in the way of one that was moved back.                                  *)
LeftTabsAreKept ==
  \A s \in Scenes :
    /\ left[s] \subseteq EventualTabs(s) \cup TabsIn(backup[s]) \cup lost[s]
    /\ scene[s] # "none" => left[s] \subseteq tabs[s] \cup TabsIn(backup[s]) \cup lost[s]

(* A tab moved aside after a crash is in no window, file or queued write: the  *)
(* user who accepts the restoration never gets it twice.  A tab that was moved *)
(* from one window to another is excepted: until both have saved, it is in the *)
(* files of both, or of neither.                                               *)
MovedAsideOnce ==
  \A s \in Scenes : \A t \in TabsIn(backup[s]) \ moved :
    /\ \A p \in Scenes : t \notin tabs[p] \cup TabsIn(file[p])
    /\ \A k \in DOMAIN tasks : tasks[k].op = "write" => t \notin tasks[k].data
    /\ \A p \in Scenes \ {s} : t \notin TabsIn(backup[p])

-----------------------------------------------------------------------------
(* What the repository says and the code does not do.                          *)

(* session_service_ios.h: "If |immediately| is NO, the save is done after a    *)
(* fixed delay".  An entry of _pendingSessions is eventually performed.        *)
DelayedSaveHappens ==
  \A s \in Scenes : pending[s] = "live" ~> pending[s] # "live"
=============================================================================
