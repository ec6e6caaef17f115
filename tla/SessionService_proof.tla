------------------------ MODULE SessionService_proof ------------------------
(* Proofs about SessionService, for any windows, tabs and length of the task   *)
(* queue: the types, that a session moved aside is nowhere else, and that the  *)
(* tabs a window leaves the foreground with are kept.                          *)
EXTENDS SessionService, SequenceTheorems, TLAPS

-----------------------------------------------------------------------------
(* Types.                                                                      *)

(* Nothing of the process is left when it is down, and a window without UI has *)
(* no tabs.                                                                    *)
Quiet ==
  /\ app # "up" => /\ tasks = << >> /\ timers = {} /\ prompts = {}
                   /\ \A s \in Scenes : scene[s] = "none"
  /\ \A s \in Scenes : scene[s] = "none" => tabs[s] = {}

LEMMA TabsInFacts ==
  ASSUME NEW f \in {NoFile} \cup Sessions
  PROVE  TabsIn(f) \in Sessions /\ (f \in Sessions => TabsIn(f) = f)
  BY SessionsAssumption DEF TabsIn, Sessions

LEMMA TaskFacts ==
  ASSUME NEW task \in Writes \cup Deletes
  PROVE  /\ task.op = "write" => task \in Writes
         /\ task.op # "write" => task \in Deletes
         /\ Result(task) \in {NoFile} \cup Sessions
  BY DEF Writes, Deletes, Result

LEMMA AppendTask ==
  ASSUME TypeOK, NEW task \in Writes \cup Deletes
  PROVE  /\ Append(tasks, task) \in Seq(Writes \cup Deletes)
         /\ Len(tasks) \in Nat /\ DOMAIN tasks = 1..Len(tasks)
         /\ DOMAIN Append(tasks, task) = 1..(Len(tasks) + 1)
         /\ \A k \in 1..Len(tasks) : Append(tasks, task)[k] = tasks[k]
         /\ Append(tasks, task)[Len(tasks) + 1] = task
<1>1. tasks \in Seq(Writes \cup Deletes)
  BY DEF TypeOK
<1>2. Len(tasks) \in Nat /\ DOMAIN tasks = 1..Len(tasks)
  BY <1>1, LenProperties
<1>3. /\ Append(tasks, task) \in Seq(Writes \cup Deletes)
      /\ Len(Append(tasks, task)) = Len(tasks) + 1
      /\ DOMAIN Append(tasks, task) = 1..(Len(tasks) + 1)
      /\ \A k \in 1..Len(tasks) : Append(tasks, task)[k] = tasks[k]
      /\ Append(tasks, task)[Len(tasks) + 1] = task
  BY <1>1, <1>2, AppendProperties
<1> QED
  BY <1>2, <1>3

(* What -performSaveToPathInBackground: does to the queue.                     *)
WriteOf(s) == [op |-> "write", path |-> s, data |-> tabs[s]]

LEMMA WriteOfTyped ==
  ASSUME TypeOK, NEW s \in Scenes
  PROVE  /\ WriteOf(s) \in Writes
         /\ WriteOf(s).op = "write" /\ WriteOf(s).path = s /\ WriteOf(s).data = tabs[s]
  BY DEF TypeOK, WriteOf, Writes

LEMMA PerformSaveFacts ==
  ASSUME TypeOK, NEW s \in Scenes, NEW entry, PerformSave(s, entry)
  PROVE  /\ pending' \in [Scenes -> {"none", "live", "disconnected"}]
         /\ \A p \in Scenes : pending'[p] = IF p = s THEN "none" ELSE pending[p]
         /\ tasks' \in Seq(Writes \cup Deletes)
         /\ \/ tasks' = tasks
            \/ entry = "live" /\ tasks' = Append(tasks, WriteOf(s))
<1>1. /\ pending' \in [Scenes -> {"none", "live", "disconnected"}]
      /\ \A p \in Scenes : pending'[p] = IF p = s THEN "none" ELSE pending[p]
  BY DEF PerformSave, TypeOK
<1>2. \/ tasks' = tasks
      \/ entry = "live" /\ tasks' = Append(tasks, WriteOf(s))
  BY DEF PerformSave, WriteOf
<1>3. tasks' \in Seq(Writes \cup Deletes)
  <2>1. WriteOf(s) \in Writes \cup Deletes
    BY WriteOfTyped
  <2> QED
    BY <1>2, <2>1, AppendTask DEF TypeOK
<1> QED
  BY <1>1, <1>2, <1>3

LEMMA SaveDelayedFacts ==
  ASSUME TypeOK, NEW S \in SUBSET Scenes, SaveDelayed(S)
  PROVE  /\ pending' \in [Scenes -> {"none", "live", "disconnected"}]
         /\ \A p \in Scenes : pending'[p] = IF p \in S THEN "live" ELSE pending[p]
         /\ timers' \subseteq Scenes
         /\ tasks' = tasks
  BY DEF SaveDelayed, TypeOK

LEMMA ObserveEditFacts ==
  ASSUME TypeOK, NEW S \in SUBSET Scenes, ObserveEdit(S)
  PROVE  /\ pending' \in [Scenes -> {"none", "live", "disconnected"}]
         /\ \A p \in Scenes : pending'[p] = "live" => p \in S \/ pending[p] = "live"
         /\ timers' \subseteq Scenes
         /\ tasks' = tasks
<1>1. PICK asking \in SUBSET S : SaveDelayed(asking)
  BY DEF ObserveEdit
<1>2. asking \in SUBSET Scenes
  BY <1>1
<1> QED
  BY <1>1, <1>2, SaveDelayedFacts

(* The history of a window that leaves the foreground.                         *)
LEMMA LeftSavingFacts ==
  ASSUME TypeOK, NEW s \in Scenes
  PROVE  /\ LeftAfterSaving(s) \in [Scenes -> Sessions]
         /\ LostAfterSaving(s) \in [Scenes -> Sessions]
         /\ \A p \in Scenes \ {s} : /\ LeftAfterSaving(s)[p] = left[p]
                                    /\ LostAfterSaving(s)[p] = lost[p]
         /\ IF needSaving[s] /\ CanSaveSession(s)
              THEN /\ LeftAfterSaving(s)[s] = left[s] \cup tabs[s]
                   /\ LostAfterSaving(s)[s] = lost[s] \ tabs[s]
              ELSE LeftAfterSaving(s)[s] = left[s] /\ LostAfterSaving(s)[s] = lost[s]
<1>1. \A p \in Scenes : left[p] \in Sessions /\ lost[p] \in Sessions /\ tabs[p] \in Sessions
  BY DEF TypeOK
<1> QED
  BY <1>1 DEF TypeOK, LeftAfterSaving, LostAfterSaving, Sessions

LEMMA DeclinedFacts ==
  ASSUME TypeOK, NEW s \in Scenes, NEW f \in [Scenes -> Sessions]
  PROVE  /\ Declined(s, f) \in [Scenes -> Sessions]
         /\ \A p \in Scenes : Declined(s, f)[p] \subseteq f[p]
  BY DEF Declined, Sessions

LEMMA BackupTyped ==
  ASSUME TypeOK, NEW s \in Scenes
  PROVE  BackupWithoutPrompt(s) \in [Scenes -> {NoFile} \cup Sessions]
  BY DEF TypeOK, BackupWithoutPrompt

LEMMA InitTyped == Init => TypeOK /\ Quiet
<1> SUFFICES ASSUME Init PROVE TypeOK /\ Quiet
  OBVIOUS
<1>1. << >> \in Seq(Writes \cup Deletes)
  BY SessionsAssumption
<1>2. {} \in Sessions
  BY DEF Sessions
<1>3. TypeOK
  BY <1>1, <1>2 DEF Init, TypeOK
<1>4. Quiet
  BY DEF Init, Quiet
<1> QED
  BY <1>3, <1>4

(* The sequenced task runner.                                                  *)
LEMMA RunTaskTyped ==
  ASSUME TypeOK, RunTask
  PROVE  /\ file' \in [Scenes -> {NoFile} \cup Sessions]
         /\ tasks' \in Seq(Writes \cup Deletes)
         /\ Head(tasks) \in Writes \cup Deletes /\ Head(tasks) = tasks[1]
         /\ Len(tasks) \in Nat \ {0} /\ DOMAIN tasks = 1..Len(tasks)
         /\ DOMAIN tasks' = 1..(Len(tasks) - 1)
         /\ \A k \in 1..(Len(tasks) - 1) : tasks'[k] = tasks[k + 1]
<1>1. tasks \in Seq(Writes \cup Deletes) /\ tasks # << >>
  BY DEF TypeOK, RunTask
<1>2. Len(tasks) \in Nat \ {0} /\ DOMAIN tasks = 1..Len(tasks)
  BY <1>1, LenProperties, EmptySeq
<1>3. Head(tasks) \in Writes \cup Deletes /\ Head(tasks) = tasks[1]
  BY <1>1, HeadTailProperties
<1>4. /\ Tail(tasks) \in Seq(Writes \cup Deletes) /\ Len(Tail(tasks)) = Len(tasks) - 1
      /\ DOMAIN Tail(tasks) = 1..(Len(tasks) - 1)
      /\ \A k \in 1..(Len(tasks) - 1) : Tail(tasks)[k] = tasks[k + 1]
  BY <1>1, <1>2, HeadTailProperties, LenProperties
<1>5. file' \in [Scenes -> {NoFile} \cup Sessions]
  <2>1. Result(Head(tasks)) \in {NoFile} \cup Sessions
    BY <1>3, TaskFacts
  <2> QED
    BY <2>1 DEF RunTask, AfterTask, TypeOK
<1> QED
  BY <1>1, <1>2, <1>3, <1>4, <1>5 DEF RunTask

(* Disconnect, by what it does to the session service.                         *)
LEMMA DisconnectFacts ==
  ASSUME TypeOK, NEW s \in Scenes, Disconnect(s)
  PROVE  /\ pending' \in [Scenes -> {"none", "live", "disconnected"}]
         /\ pending'[s] # "live" /\ \A p \in Scenes \ {s} : pending'[p] = pending[p]
         /\ timers' \subseteq Scenes
         /\ tasks' \in Seq(Writes \cup Deletes)
         /\ IF needSaving[s] /\ CanSaveSession(s)
              THEN tasks' = Append(tasks, WriteOf(s))
              ELSE tasks' = tasks
         /\ scene' = [scene EXCEPT ![s] = "none"] /\ tabs' = [tabs EXCEPT ![s] = {}]
         /\ selected' = selected \ {s}
         /\ backup' = BackupWithoutPrompt(s) /\ prompts' = prompts \ {s}
         /\ needSaving' = [needSaving EXCEPT ![s] = FALSE]
         /\ connected' = connected \ {s}
         /\ left' = Declined(s, LeftAfterSaving(s)) /\ lost' = LostAfterSaving(s)
         /\ app = "up" /\ UNCHANGED <<app, exited, required, file, moved>>
<1>1. \E e \in {"none", "disconnected"} : pending' = [pending EXCEPT ![s] = e]
  BY DEF Disconnect, FactoryDestroyed
<1>2. timers' \subseteq Scenes
  BY DEF Disconnect, TypeOK
<1>3. IF needSaving[s] /\ CanSaveSession(s)
        THEN tasks' = Append(tasks, WriteOf(s))
        ELSE tasks' = tasks
  BY DEF Disconnect, WriteOf
<1>4. tasks' \in Seq(Writes \cup Deletes)
  <2>1. WriteOf(s) \in Writes \cup Deletes
    BY WriteOfTyped
  <2> QED
    BY <1>3, <2>1, AppendTask DEF TypeOK
<1>5. /\ pending' \in [Scenes -> {"none", "live", "disconnected"}]
      /\ pending'[s] # "live" /\ \A p \in Scenes \ {s} : pending'[p] = pending[p]
  BY <1>1 DEF TypeOK
<1>6. /\ scene' = [scene EXCEPT ![s] = "none"] /\ tabs' = [tabs EXCEPT ![s] = {}]
      /\ selected' = selected \ {s}
      /\ backup' = BackupWithoutPrompt(s) /\ prompts' = prompts \ {s}
      /\ needSaving' = [needSaving EXCEPT ![s] = FALSE]
      /\ connected' = connected \ {s}
      /\ left' = Declined(s, LeftAfterSaving(s)) /\ lost' = LostAfterSaving(s)
      /\ app = "up" /\ UNCHANGED <<app, exited, required, file, moved>>
  BY DEF Disconnect
<1> QED
  BY <1>2, <1>3, <1>4, <1>5, <1>6

(* RestoreSessionsAfterCrash, by what becomes of the tabs and files.           *)
LEMMA RestoreFacts ==
  ASSUME TypeOK, NEW s \in Scenes, RestoreSessionsAfterCrash(s)
  PROVE  /\ tabs' \in [Scenes -> Sessions] /\ left' \in [Scenes -> Sessions]
         /\ lost' \in [Scenes -> Sessions]
         /\ selected' \subseteq {p \in Scenes : tabs'[p] # {}}
         /\ file' \in [Scenes -> {NoFile} \cup Sessions]
         /\ backup' \in [Scenes -> {NoFile} \cup Sessions]
         /\ pending' \in [Scenes -> {"none", "live", "disconnected"}]
         /\ timers' \subseteq Scenes /\ tasks' = tasks
         /\ \A p \in Scenes :
              /\ pending'[p] = "live" => scene[p] # "none" \/ pending[p] = "live"
              /\ tabs'[p] \subseteq tabs[p] \cup TabsIn(backup[p])
              /\ scene[p] = "none" => tabs'[p] = tabs[p]
              /\ left'[p] \subseteq left[p] /\ lost[p] \subseteq lost'[p]
              /\ scene[p] # "none" => /\ left'[p] \cap TabsIn(backup[p]) = {}
                                      /\ left'[p] \cap tabs[p] \subseteq tabs'[p]
              /\ scene[p] = "none" /\ (file[p] # NoFile \/ Queued(p)) =>
                   left[p] \cap TabsIn(backup[p]) \subseteq lost'[p]
              /\ backup'[p] = NoFile
              /\ IF file[p] = NoFile /\ scene[p] = "none"
                   THEN file'[p] = backup[p] ELSE file'[p] = file[p]
         /\ UNCHANGED <<launch, scene, needSaving, moved>> /\ app = "up"
         /\ prompts' \subseteq prompts
<1> DEFINE open     == {p \in Scenes : scene[p] # "none"}
           restored == {p \in open : TabsIn(backup[p]) # {}}
<1>1. PICK ntp \in SUBSET restored :
        /\ tabs' = [p \in Scenes |-> IF p \in restored
                                      THEN (IF p \in ntp THEN {} ELSE tabs[p]) \cup backup[p]
                                      ELSE tabs[p]]
        /\ left' = [p \in Scenes |->
                      (IF p \in ntp THEN left[p] \ tabs[p] ELSE left[p])
                        \ (IF p \in open THEN TabsIn(backup[p]) ELSE {})]
  BY DEF RestoreSessionsAfterCrash
<1>2. /\ SaveDelayed(restored) /\ selected' = selected \cup restored
      /\ file' = [p \in Scenes |-> IF p \notin open /\ file[p] = NoFile THEN backup[p] ELSE file[p]]
      /\ lost' = [p \in Scenes |->
                    IF p \notin open /\ (file[p] # NoFile \/ Queued(p))
                      THEN lost[p] \cup (left[p] \cap TabsIn(backup[p])) ELSE lost[p]]
      /\ backup' = [p \in Scenes |-> NoFile]
      /\ UNCHANGED <<launch, scene, needSaving, moved>> /\ app = "up"
      /\ prompts' \subseteq prompts
  BY DEF RestoreSessionsAfterCrash
<1>3. \A p \in Scenes : /\ backup[p] \in {NoFile} \cup Sessions
                        /\ tabs[p] \in Sessions /\ left[p] \in Sessions /\ lost[p] \in Sessions
  BY DEF TypeOK
<1>4. \A p \in restored : backup[p] \in Sessions /\ TabsIn(backup[p]) = backup[p] /\ backup[p] # {}
  BY <1>3, TabsInFacts DEF TabsIn
<1>5. /\ pending' \in [Scenes -> {"none", "live", "disconnected"}]
      /\ \A p \in Scenes : pending'[p] = IF p \in restored THEN "live" ELSE pending[p]
      /\ timers' \subseteq Scenes /\ tasks' = tasks
  BY <1>2, SaveDelayedFacts
<1>6. \A p \in restored : p \in Scenes /\ scene[p] # "none"
  OBVIOUS
<1>7. /\ file' \in [Scenes -> {NoFile} \cup Sessions]
      /\ backup' \in [Scenes -> {NoFile} \cup Sessions]
      /\ \A p \in Scenes :
           /\ backup'[p] = NoFile
           /\ IF file[p] = NoFile /\ scene[p] = "none"
                THEN file'[p] = backup[p] ELSE file'[p] = file[p]
  BY <1>2 DEF TypeOK
<1>8. /\ lost' \in [Scenes -> Sessions]
      /\ \A p \in Scenes :
           /\ lost[p] \subseteq lost'[p]
           /\ scene[p] = "none" /\ (file[p] # NoFile \/ Queued(p)) =>
                left[p] \cap TabsIn(backup[p]) \subseteq lost'[p]
  <2>1. \A p \in Scenes : left[p] \cap TabsIn(backup[p]) \in Sessions
    BY <1>3 DEF Sessions
  <2> QED
    BY <1>2, <1>3, <2>1 DEF Sessions
<1>9. \A p \in Scenes :
        left'[p] = (IF p \in ntp THEN left[p] \ tabs[p] ELSE left[p])
                     \ (IF scene[p] # "none" THEN TabsIn(backup[p]) ELSE {})
  BY <1>1
<1>13. \A p \in Scenes : tabs'[p] = IF p \in restored
                            THEN (IF p \in ntp THEN {} ELSE tabs[p]) \cup backup[p]
                            ELSE tabs[p]
  BY <1>1
<1>14. left' \in [Scenes -> Sessions]
  BY <1>1, <1>3 DEF Sessions
<1> HIDE DEF restored, open
<1>10. /\ tabs' \in [Scenes -> Sessions]
       /\ \A p \in Scenes :
            /\ tabs'[p] \subseteq tabs[p] \cup TabsIn(backup[p])
            /\ scene[p] = "none" => tabs'[p] = tabs[p]
            /\ p \in restored => tabs'[p] # {}
            /\ p \notin restored => tabs'[p] = tabs[p]
  BY <1>1, <1>3, <1>4, <1>6, <1>13 DEF Sessions
<1>11. \A p \in Scenes :
         /\ left'[p] \subseteq left[p]
         /\ scene[p] # "none" => /\ left'[p] \cap TabsIn(backup[p]) = {}
                                 /\ left'[p] \cap tabs[p] \subseteq tabs'[p]
  BY <1>1, <1>9, <1>13
<1>12. selected' \subseteq {p \in Scenes : tabs'[p] # {}}
  BY <1>2, <1>6, <1>10 DEF TypeOK
<1> QED
  BY <1>2, <1>5, <1>6, <1>7, <1>8, <1>10, <1>11, <1>12, <1>14

LEMMA TypeStep ==
  ASSUME TypeOK, Quiet, [Next]_vars
  PROVE  TypeOK' /\ Quiet'
<1>0. \A s \in Scenes : /\ tabs[s] \in Sessions /\ file[s] \in {NoFile} \cup Sessions
                        /\ TabsIn(file[s]) \in Sessions /\ TabsIn(backup[s]) \in Sessions
                        /\ left[s] \in Sessions /\ lost[s] \in Sessions
  BY TabsInFacts DEF TypeOK
<1>1. CASE RunTask
  <2>1. /\ file' \in [Scenes -> {NoFile} \cup Sessions]
        /\ tasks' \in Seq(Writes \cup Deletes)
    BY <1>1, RunTaskTyped
  <2>2. UNCHANGED <<launch, scene, needSaving, lists, pending, timers, backup, prompts, history>>
        /\ app = "up"
    BY <1>1 DEF RunTask
  <2> QED
    BY <2>1, <2>2 DEF TypeOK, Quiet, launch, lists, history
<1>2. CASE Kill
  <2>1. << >> \in Seq(Writes \cup Deletes) /\ {} \in Sessions
    BY SessionsAssumption DEF Sessions
  <2>2. exited' \in BOOLEAN
    BY <1>2 DEF Kill, TypeOK
  <2>3. lost' \in [Scenes -> Sessions]
    BY <1>0, <1>2 DEF Kill, Sessions
  <2> QED
    BY <1>2, <2>1, <2>2, <2>3 DEF Kill, TypeOK, Quiet, disk
<1>3. CASE Launch
  BY <1>3 DEF Launch, TypeOK, Quiet, service, disk, lists, history
<1>4. CASE FinishLaunch
  BY <1>4 DEF FinishLaunch, TypeOK, Quiet, service, disk, lists, history
<1>5. ASSUME NEW paths \in Deletions, DeleteSessions(paths)
      PROVE  TypeOK' /\ Quiet'
  <2> DEFINE task == [op |-> "delete", paths |-> paths]
  <2>1. task \in Writes \cup Deletes
    BY SessionsAssumption DEF Deletes
  <2>2. tasks' = Append(tasks, task)
    BY <1>5 DEF DeleteSessions
  <2>3. tasks' \in Seq(Writes \cup Deletes)
    BY <2>1, <2>2, AppendTask
  <2>4. left' \in [Scenes -> Sessions] /\ lost' \in [Scenes -> Sessions]
    BY <1>0, <1>5 DEF DeleteSessions, Sessions
  <2>5. /\ UNCHANGED <<launch, scene, needSaving, lists, pending, timers, disk, prompts, moved>>
        /\ app = "up"
    BY <1>5 DEF DeleteSessions
  <2> QED
    BY <2>3, <2>4, <2>5 DEF TypeOK, Quiet, launch, disk, lists
<1>6. ASSUME NEW s \in Scenes, TimerFires(s)
      PROVE  TypeOK' /\ Quiet'
  <2>1. /\ pending' \in [Scenes -> {"none", "live", "disconnected"}]
        /\ \A p \in Scenes : pending'[p] = IF p = s THEN "none" ELSE pending[p]
        /\ tasks' \in Seq(Writes \cup Deletes)
    BY <1>6, PerformSaveFacts DEF TimerFires
  <2>2. UNCHANGED <<launch, scene, needSaving, lists, disk, prompts, history>>
        /\ app = "up" /\ timers' \subseteq timers
    BY <1>6 DEF TimerFires
  <2> QED
    BY <2>1, <2>2 DEF TypeOK, Quiet, launch, disk, lists, history
<1>7. ASSUME NEW s \in Scenes, FactoryReleased(s)
      PROVE  TypeOK' /\ Quiet'
  BY <1>7 DEF FactoryReleased, TypeOK, Quiet, launch, disk, lists, history
<1>8. ASSUME NEW s \in Scenes, DidFinishNavigation(s)
      PROVE  TypeOK' /\ Quiet'
  <2>1. /\ pending' \in [Scenes -> {"none", "live", "disconnected"}]
        /\ \A p \in Scenes : pending'[p] = IF p \in {s} THEN "live" ELSE pending[p]
        /\ timers' \subseteq Scenes /\ tasks' = tasks
    BY <1>8, SaveDelayedFacts DEF DidFinishNavigation
  <2>2. /\ UNCHANGED <<launch, scene, needSaving, lists, disk, prompts, history>>
        /\ app = "up" /\ scene[s] # "none"
    BY <1>8 DEF DidFinishNavigation, Quiet, TypeOK
  <2> QED
    BY <2>1, <2>2 DEF TypeOK, Quiet, launch, disk, lists, history
<1>9. ASSUME NEW s \in Scenes, Connect(s)
      PROVE  TypeOK' /\ Quiet'
  <2>1. /\ tabs' \in [Scenes -> Sessions] /\ lost' \in [Scenes -> Sessions]
        /\ \A p \in Scenes \ {s} : tabs'[p] = tabs[p]
    <3>1. tabs' = [tabs EXCEPT ![s] = TabsIn(file[s])]
      BY <1>9 DEF Connect
    <3>2. PICK l : l \in Sessions /\ lost' = [lost EXCEPT ![s] = l]
      <4>1. /\ lost[s] \cup (left[s] \ OnDisk(s)) \in Sessions
            /\ lost[s] \ OnDisk(s) \in Sessions
        BY <1>0 DEF Sessions
      <4> QED
        BY <1>9, <4>1 DEF Connect, TypeOK
    <3> QED
      BY <1>0, <3>1, <3>2 DEF TypeOK
  <2>2. /\ pending' \in [Scenes -> {"none", "live", "disconnected"}]
        /\ \A p \in Scenes : pending'[p] = "live" => p = s \/ pending[p] = "live"
        /\ timers' \subseteq Scenes /\ tasks' = tasks
    <3>1. CASE UNCHANGED service
      BY <3>1 DEF service, TypeOK
    <3>2. CASE SaveDelayed({s})
      BY <3>2, SaveDelayedFacts
    <3> QED
      BY <1>9, <3>1, <3>2 DEF Connect
  <2>3. /\ scene' = [scene EXCEPT ![s] = "foreground"]
        /\ needSaving' = [needSaving EXCEPT ![s] = TRUE]
        /\ selected' = selected \cup {p \in {s} : tabs'[p] # {}}
        /\ connected' = connected \cup {s} /\ prompts' \subseteq prompts \cup {s}
        /\ UNCHANGED <<app, exited, required, disk, left, moved>>
        /\ app = "up" /\ scene[s] = "none"
    BY <1>9 DEF Connect
  <2>4. selected' \subseteq {p \in Scenes : tabs'[p] # {}}
    <3>1. tabs[s] = {}
      BY <2>3 DEF Quiet
    <3> QED
      BY <2>1, <2>3, <3>1 DEF TypeOK
  <2> QED
    BY <2>1, <2>2, <2>3, <2>4 DEF TypeOK, Quiet, disk
<1>10. ASSUME NEW s \in Scenes, EnterBackground(s)
       PROVE  TypeOK' /\ Quiet'
  <2>1. /\ pending' \in [Scenes -> {"none", "live", "disconnected"}]
        /\ \A p \in Scenes : pending'[p] = "live" => pending[p] = "live"
        /\ tasks' \in Seq(Writes \cup Deletes)
        /\ timers' \subseteq Scenes
    <3>1. CASE UNCHANGED service
      BY <3>1 DEF service, TypeOK
    <3>2. CASE SaveImmediately(s)
      <4>1. PerformSave(s, "live") /\ timers' = {}
        BY <3>2 DEF SaveImmediately
      <4> QED
        BY <4>1, PerformSaveFacts
    <3> QED
      BY <1>10, <3>1, <3>2 DEF EnterBackground, SaveSessionsIfNeeded
  <2>2. /\ scene' = [scene EXCEPT ![s] = "background"]
        /\ left' = LeftAfterSaving(s) /\ lost' = LostAfterSaving(s)
        /\ needSaving' = [needSaving EXCEPT ![s] = FALSE]
        /\ UNCHANGED <<launch, lists, disk, prompts, moved>> /\ app = "up"
    BY <1>10 DEF EnterBackground, SaveSessionsIfNeeded
  <2>3. left' \in [Scenes -> Sessions] /\ lost' \in [Scenes -> Sessions]
    BY <2>2, LeftSavingFacts
  <2> QED
    BY <2>1, <2>2, <2>3 DEF TypeOK, Quiet, launch, disk, lists
<1>11. ASSUME NEW s \in Scenes, EnterForeground(s)
       PROVE  TypeOK' /\ Quiet'
  BY <1>11 DEF EnterForeground, TypeOK, Quiet, launch, disk, service, lists, history
<1>12. ASSUME NEW s \in Scenes, Disconnect(s)
       PROVE  TypeOK' /\ Quiet'
  <2>1. {} \in Sessions /\ BackupWithoutPrompt(s) \in [Scenes -> {NoFile} \cup Sessions]
    BY BackupTyped DEF Sessions
  <2>2. /\ pending' \in [Scenes -> {"none", "live", "disconnected"}]
        /\ pending'[s] # "live" /\ \A p \in Scenes \ {s} : pending'[p] = pending[p]
        /\ timers' \subseteq Scenes
        /\ tasks' \in Seq(Writes \cup Deletes)
        /\ scene' = [scene EXCEPT ![s] = "none"] /\ tabs' = [tabs EXCEPT ![s] = {}]
        /\ selected' = selected \ {s}
        /\ backup' = BackupWithoutPrompt(s) /\ prompts' = prompts \ {s}
        /\ needSaving' = [needSaving EXCEPT ![s] = FALSE]
        /\ connected' = connected \ {s}
        /\ left' = Declined(s, LeftAfterSaving(s)) /\ lost' = LostAfterSaving(s)
        /\ app = "up" /\ UNCHANGED <<app, exited, required, file, moved>>
    BY <1>12, DisconnectFacts
  <2>3. left' \in [Scenes -> Sessions] /\ lost' \in [Scenes -> Sessions]
    BY <2>2, LeftSavingFacts, DeclinedFacts
  <2>4. tabs' \in [Scenes -> Sessions] /\ selected' \subseteq {p \in Scenes : tabs'[p] # {}}
    BY <2>1, <2>2 DEF TypeOK
  <2> QED
    BY <2>1, <2>2, <2>3, <2>4 DEF TypeOK, Quiet
<1>13. ASSUME NEW s \in Scenes, MoveAside(s)
       PROVE  TypeOK' /\ Quiet'
  <2>1. lost' \in [Scenes -> Sessions]
    <3>1. lost[s] \cup (left[s] \cap (TabsIn(backup[s]) \ TabsIn(file[s]))) \in Sessions
      BY <1>0 DEF Sessions
    <3> QED
      BY <1>13, <3>1 DEF MoveAside, LostToSecondCrash, TypeOK
  <2>2. /\ file' \in [Scenes -> {NoFile} \cup Sessions]
        /\ backup' \in [Scenes -> {NoFile} \cup Sessions]
        /\ UNCHANGED <<app, connected, exited, scene, needSaving, lists, service, prompts, left, moved>>
        /\ required' = TRUE /\ app # "up"
    BY <1>0, <1>13 DEF MoveAside, TypeOK
  <2> QED
    BY <2>1, <2>2 DEF TypeOK, Quiet, service, lists
<1>14. ASSUME NEW s \in Scenes, RestoreSessionsAfterCrash(s)
       PROVE  TypeOK' /\ Quiet'
  <2>1. /\ tabs' \in [Scenes -> Sessions] /\ left' \in [Scenes -> Sessions]
        /\ lost' \in [Scenes -> Sessions]
        /\ selected' \subseteq {p \in Scenes : tabs'[p] # {}}
        /\ file' \in [Scenes -> {NoFile} \cup Sessions]
        /\ backup' \in [Scenes -> {NoFile} \cup Sessions]
        /\ pending' \in [Scenes -> {"none", "live", "disconnected"}]
        /\ timers' \subseteq Scenes /\ tasks' = tasks
        /\ \A p \in Scenes :
             /\ pending'[p] = "live" => scene[p] # "none" \/ pending[p] = "live"
             /\ scene[p] = "none" => tabs'[p] = tabs[p]
        /\ UNCHANGED <<launch, scene, needSaving, moved>> /\ app = "up" /\ prompts' \subseteq prompts
    BY <1>14, RestoreFacts
  <2> QED
    BY <2>1 DEF TypeOK, Quiet, launch
<1>15. ASSUME NEW s \in Scenes, InfoBarRemoved(s)
       PROVE  TypeOK' /\ Quiet'
  <2>1. BackupWithoutPrompt(s) \in [Scenes -> {NoFile} \cup Sessions]
    BY BackupTyped
  <2>2. left' \in [Scenes -> Sessions]
    BY <1>15, DeclinedFacts DEF InfoBarRemoved, TypeOK
  <2> QED
    BY <1>15, <2>1, <2>2 DEF InfoBarRemoved, TypeOK, Quiet, launch, service, lists
<1>16. ASSUME NEW S \in SUBSET {p \in Scenes : scene[p] # "none"}, ObserveEdit(S),
              tabs' \in [Scenes -> Sessions], \A p \in Scenes \ S : tabs'[p] = tabs[p],
              selected' \subseteq {p \in Scenes : tabs'[p] # {}},
              left' \in [Scenes -> Sessions], lost' \in [Scenes -> Sessions], moved' \subseteq Tabs,
              UNCHANGED <<launch, scene, needSaving, disk, prompts>>, app = "up"
       PROVE  TypeOK' /\ Quiet'
  <2>1. S \in SUBSET Scenes /\ \A p \in S : scene[p] # "none"
    BY <1>16
  <2>2. /\ pending' \in [Scenes -> {"none", "live", "disconnected"}]
        /\ \A p \in Scenes : pending'[p] = "live" => p \in S \/ pending[p] = "live"
        /\ timers' \subseteq Scenes /\ tasks' = tasks
    BY <1>16, <2>1, ObserveEditFacts
  <2> QED
    BY <1>16, <2>1, <2>2 DEF TypeOK, Quiet, launch, disk
<1>17. ASSUME NEW s \in Scenes, NEW t \in Tabs, OpenTab(s, t)
       PROVE  TypeOK' /\ Quiet'
  <2>1. /\ tabs' = [tabs EXCEPT ![s] = @ \cup {t}] /\ selected' \subseteq selected \cup {s}
        /\ left' = [p \in Scenes |-> left[p] \ {t}] /\ lost' = [p \in Scenes |-> lost[p] \ {t}]
        /\ moved' = moved \ {t} /\ ObserveEdit({s})
        /\ UNCHANGED <<launch, scene, needSaving, disk, prompts>>
        /\ app = "up" /\ scene[s] # "none"
    BY <1>17 DEF OpenTab
  <2>2. /\ tabs' \in [Scenes -> Sessions] /\ \A p \in Scenes \ {s} : tabs'[p] = tabs[p]
        /\ selected' \subseteq {p \in Scenes : tabs'[p] # {}}
    BY <2>1 DEF TypeOK, Sessions
  <2>3. /\ left' \in [Scenes -> Sessions] /\ lost' \in [Scenes -> Sessions] /\ moved' \subseteq Tabs
    BY <1>0, <2>1 DEF TypeOK, Sessions
  <2> QED
    BY <1>16, <2>1, <2>2, <2>3
<1>18. ASSUME NEW s \in Scenes, NEW t \in Tabs, CloseTab(s, t)
       PROVE  TypeOK' /\ Quiet'
  <2>1. /\ tabs' = [tabs EXCEPT ![s] = @ \ {t}]
        /\ selected' = selected \ {p \in {s} : tabs'[p] = {}}
        /\ left' = [left EXCEPT ![s] = @ \ {t}] /\ UNCHANGED <<lost, moved>> /\ ObserveEdit({s})
        /\ UNCHANGED <<launch, scene, needSaving, disk, prompts>>
        /\ app = "up" /\ scene[s] # "none"
    BY <1>18 DEF CloseTab, Without
  <2>2. /\ tabs' \in [Scenes -> Sessions] /\ \A p \in Scenes \ {s} : tabs'[p] = tabs[p]
        /\ selected' \subseteq {p \in Scenes : tabs'[p] # {}}
    BY <2>1 DEF TypeOK, Sessions
  <2>3. /\ left' \in [Scenes -> Sessions] /\ lost' \in [Scenes -> Sessions] /\ moved' \subseteq Tabs
    BY <1>0, <2>1 DEF TypeOK, Sessions
  <2> QED
    BY <1>16, <2>1, <2>2, <2>3
<1>19. ASSUME NEW s \in Scenes, NEW d \in Scenes, NEW t \in Tabs, MoveTab(s, d, t)
       PROVE  TypeOK' /\ Quiet'
  <2>1. /\ tabs' = [tabs EXCEPT ![s] = @ \ {t}, ![d] = @ \cup {t}] /\ s # d
        /\ selected' = (selected \ {p \in {s} : tabs'[p] = {}}) \cup {p \in {d} : tabs[p] = {}}
        /\ left' = [left EXCEPT ![s] = @ \ {t}, ![d] = @ \ {t}]
        /\ lost' = [lost EXCEPT ![d] = @ \ {t}] /\ moved' = moved \cup {t}
        /\ ObserveEdit({s, d})
        /\ UNCHANGED <<launch, scene, needSaving, disk, prompts>>
        /\ app = "up" /\ scene[s] # "none" /\ scene[d] # "none"
    BY <1>19 DEF MoveTab, Without
  <2>2. /\ tabs' \in [Scenes -> Sessions]
        /\ \A p \in Scenes : tabs'[p] = IF p = s THEN tabs[p] \ {t}
                                         ELSE IF p = d THEN tabs[p] \cup {t} ELSE tabs[p]
    BY <2>1 DEF TypeOK, Sessions
  <2>3. selected' \subseteq {p \in Scenes : tabs'[p] # {}}
    BY <2>1, <2>2 DEF TypeOK
  <2>4. /\ left' \in [Scenes -> Sessions] /\ lost' \in [Scenes -> Sessions] /\ moved' \subseteq Tabs
    BY <1>0, <2>1 DEF TypeOK, Sessions
  <2>5. {s, d} \in SUBSET {p \in Scenes : scene[p] # "none"}
    BY <2>1
  <2> QED
    BY <1>16, <2>1, <2>2, <2>3, <2>4, <2>5
<1>20. ASSUME NEW s \in Scenes, CloseAllTabs(s)
       PROVE  TypeOK' /\ Quiet'
  <2>1. tabs' \in [Scenes -> Sessions] /\ left' \in [Scenes -> Sessions]
    BY <1>0, <1>20 DEF CloseAllTabs, TypeOK, Sessions
  <2> QED
    BY <1>20, <2>1 DEF CloseAllTabs, TypeOK, Quiet, launch, service, disk
<1>21. ASSUME NEW s \in Scenes, ActivateTab(s)
       PROVE  TypeOK' /\ Quiet'
  <2>1. /\ app = "up" /\ tabs[s] # {} /\ selected' = selected \cup {s} /\ ObserveEdit({s})
        /\ UNCHANGED <<tabs, launch, scene, needSaving, disk, prompts, history>>
    BY <1>21 DEF ActivateTab
  <2>2. scene[s] # "none" /\ selected' \subseteq {p \in Scenes : tabs'[p] # {}}
    BY <2>1 DEF Quiet, TypeOK
  <2> QED
    BY <1>16, <2>1, <2>2 DEF TypeOK, history
<1>22. CASE UNCHANGED vars
  BY <1>22 DEF vars, TypeOK, Quiet
<1> QED
  BY <1>1, <1>2, <1>3, <1>4, <1>5, <1>6, <1>7, <1>8, <1>9, <1>10, <1>11, <1>12, <1>13,
     <1>14, <1>15, <1>17, <1>18, <1>19, <1>20, <1>21, <1>22 DEF Next

(* Types, and: a pending session whose factory could still serialise a list    *)
(* belongs to a window that has its UI, because the agent's destructor         *)
(* disconnects the factory: a delayed save would otherwise write the emptied   *)
(* list over the session.                                                      *)
THEOREM SessionTypes == Spec => []TypeOK
<1>1. Init => TypeOK /\ Quiet
  BY InitTyped
<1>2. (TypeOK /\ Quiet) /\ [Next]_vars => (TypeOK /\ Quiet)'
  BY TypeStep
<1> QED
  BY <1>1, <1>2, PTL DEF Spec
-----------------------------------------------------------------------------
(* A session moved aside is nowhere else.                                      *)

QueuedWrite(s, t) ==
  \E k \in DOMAIN tasks : tasks[k].op = "write" /\ tasks[k].path = s /\ t \in tasks[k].data
InUse(s, t) == t \in tabs[s] \/ t \in TabsIn(file[s]) \/ QueuedWrite(s, t)
Aside(s, t) == t \in TabsIn(backup[s])

(* Every tab that was not moved from one window to another belongs to one      *)
(* window, wherever it is kept, and is not in use while it is moved aside.     *)
(* Without the first part, the session of one window could be moved aside      *)
(* while another one still has its tabs.                                       *)
OneOwner ==
  \A t \in Tabs \ moved :
    /\ \A s, p \in Scenes :
         (InUse(s, t) \/ Aside(s, t)) /\ (InUse(p, t) \/ Aside(p, t)) => s = p
    /\ \A s \in Scenes : ~(InUse(s, t) /\ Aside(s, t))

LEMMA OneOwnerSuffices == TypeOK /\ OneOwner => MovedAsideOnce
<1> SUFFICES ASSUME TypeOK, OneOwner, NEW s \in Scenes, NEW t \in TabsIn(backup[s]) \ moved
             PROVE  /\ \A p \in Scenes : t \notin tabs[p] \cup TabsIn(file[p])
                    /\ \A k \in DOMAIN tasks : tasks[k].op = "write" => t \notin tasks[k].data
                    /\ \A p \in Scenes \ {s} : t \notin TabsIn(backup[p])
  BY DEF MovedAsideOnce
<1>1. t \in Tabs \ moved
  BY TabsInFacts DEF TypeOK, Sessions
<1>2. \A p \in Scenes : ~InUse(p, t)
  BY <1>1 DEF OneOwner, Aside
<1>3. \A k \in DOMAIN tasks : tasks[k].op = "write" => t \notin tasks[k].data
  <2> SUFFICES ASSUME NEW k \in DOMAIN tasks, tasks[k].op = "write", t \in tasks[k].data
               PROVE  FALSE
    OBVIOUS
  <2>1. tasks[k] \in Writes \cup Deletes
    BY ElementOfSeq, LenProperties DEF TypeOK
  <2>2. tasks[k].path \in Scenes
    BY <2>1, TaskFacts DEF Writes
  <2> QED
    BY <1>2, <2>2 DEF InUse, QueuedWrite
<1> QED
  BY <1>1, <1>2, <1>3 DEF OneOwner, Aside, InUse

(* A write that is appended holds tabs of its window.                          *)
LEMMA AppendWrite ==
  ASSUME TypeOK, NEW task \in Writes \cup Deletes,
         tasks' = Append(tasks, task), NEW s \in Scenes, NEW t, QueuedWrite(s, t)'
  PROVE  QueuedWrite(s, t) \/ (task.op = "write" /\ task.path = s /\ t \in task.data)
<1>1. /\ Len(tasks) \in Nat /\ DOMAIN tasks = 1..Len(tasks)
      /\ DOMAIN tasks' = 1..(Len(tasks) + 1)
      /\ \A k \in 1..Len(tasks) : tasks'[k] = tasks[k]
      /\ tasks'[Len(tasks) + 1] = task
  BY AppendTask
<1>2. PICK k \in DOMAIN tasks' :
        tasks'[k].op = "write" /\ tasks'[k].path = s /\ t \in tasks'[k].data
  BY DEF QueuedWrite
<1>3. CASE k = Len(tasks) + 1
  BY <1>1, <1>2, <1>3
<1>4. CASE k # Len(tasks) + 1
  <2>1. k \in 1..Len(tasks)
    BY <1>1, <1>4
  <2> QED
    BY <1>1, <1>2, <2>1 DEF QueuedWrite
<1> QED
  BY <1>3, <1>4

(* The steps of the service put no tab anywhere it was not.                    *)
LEMMA SavedWhereOpen ==
  ASSUME TypeOK, NEW s \in Scenes,
         \/ tasks' = tasks
         \/ tasks' = Append(tasks, WriteOf(s))
  PROVE  \A p \in Scenes : \A t : QueuedWrite(p, t)' => InUse(p, t)
<1>1. CASE tasks' = tasks
  BY <1>1 DEF QueuedWrite, InUse
<1>2. CASE tasks' = Append(tasks, WriteOf(s))
  <2>1. WriteOf(s) \in Writes \cup Deletes /\ WriteOf(s).path = s /\ WriteOf(s).data = tabs[s]
    BY WriteOfTyped
  <2> QED
    BY <1>2, <2>1, AppendWrite DEF InUse
<1> QED
  BY <1>1, <1>2

LEMMA AfterRunTask ==
  ASSUME TypeOK, RunTask, NEW s \in Scenes, NEW t
  PROVE  InUse(s, t)' => InUse(s, t)
<1>1. /\ Head(tasks) \in Writes \cup Deletes /\ Head(tasks) = tasks[1]
      /\ Len(tasks) \in Nat \ {0} /\ DOMAIN tasks = 1..Len(tasks)
      /\ DOMAIN tasks' = 1..(Len(tasks) - 1)
      /\ \A k \in 1..(Len(tasks) - 1) : tasks'[k] = tasks[k + 1]
  BY RunTaskTyped
<1>2. ASSUME QueuedWrite(s, t)'
      PROVE  QueuedWrite(s, t)
  <2>1. PICK k \in DOMAIN tasks' :
          tasks'[k].op = "write" /\ tasks'[k].path = s /\ t \in tasks'[k].data
    BY <1>2 DEF QueuedWrite
  <2>2. k + 1 \in DOMAIN tasks /\ tasks'[k] = tasks[k + 1]
    BY <1>1
  <2> QED
    BY <2>1, <2>2 DEF QueuedWrite
<1>3. ASSUME t \in TabsIn(file'[s])
      PROVE  t \in TabsIn(file[s]) \/ QueuedWrite(s, t)
  <2>1. file'[s] = IF Concerns(tasks[1], s) THEN Result(tasks[1]) ELSE file[s]
    BY <1>1 DEF RunTask, AfterTask
  <2>2. CASE Concerns(tasks[1], s)
    <3>1. t \in TabsIn(Result(tasks[1]))
      BY <1>3, <2>1, <2>2
    <3>2. tasks[1].op = "write" /\ t \in tasks[1].data /\ tasks[1].path = s
      BY <3>1, <2>2 DEF TabsIn, Result, Concerns
    <3>3. 1 \in DOMAIN tasks
      BY <1>1
    <3> QED
      BY <3>2, <3>3 DEF QueuedWrite
  <2> QED
    BY <1>3, <2>1, <2>2
<1>4. tabs' = tabs
  BY DEF RunTask, lists
<1> QED
  BY <1>2, <1>3, <1>4 DEF InUse

(* A step after which every tab is where it belonged before, and nothing more  *)
(* is moved aside.                                                             *)
LEMMA NothingNew ==
  ASSUME OneOwner, moved \subseteq moved',
         \A s \in Scenes : \A t \in Tabs \ moved' : /\ InUse(s, t)' => InUse(s, t)
                                                    /\ Aside(s, t)' => Aside(s, t)
  PROVE  OneOwner'
<1>0. \A t \in Tabs \ moved' : t \in Tabs \ moved
  OBVIOUS
<1>1. ASSUME NEW t \in Tabs \ moved', NEW s \in Scenes, NEW p \in Scenes,
             InUse(s, t)' \/ Aside(s, t)', InUse(p, t)' \/ Aside(p, t)'
      PROVE  s = p
  BY <1>0, <1>1 DEF OneOwner
<1>2. ASSUME NEW t \in Tabs \ moved', NEW s \in Scenes, InUse(s, t)', Aside(s, t)'
      PROVE  FALSE
  BY <1>0, <1>2 DEF OneOwner
<1> QED
  BY <1>1, <1>2 DEF OneOwner

LEMMA OneOwnerStep ==
  ASSUME TypeOK, Quiet, OneOwner, [Next]_vars
  PROVE  OneOwner'
<1>1. CASE RunTask
  <2>1. backup' = backup /\ moved' = moved
    BY <1>1 DEF RunTask, history
  <2>2. \A s \in Scenes : \A t \in Tabs : Aside(s, t)' => Aside(s, t)
    BY <2>1 DEF Aside, TabsIn
  <2> QED
    BY <1>1, <2>1, <2>2, AfterRunTask, NothingNew
<1>2. CASE Kill
  <2>1. ASSUME NEW s \in Scenes, NEW t
        PROVE  /\ InUse(s, t)' => InUse(s, t)
               /\ Aside(s, t)' => Aside(s, t)
    <3>1. tabs'[s] = {} /\ DOMAIN tasks' = {} /\ UNCHANGED <<file, backup>>
      BY <1>2 DEF Kill, disk
    <3> QED
      BY <3>1 DEF InUse, Aside, QueuedWrite, TabsIn
  <2>2. moved' = moved
    BY <1>2 DEF Kill
  <2> QED
    BY <2>1, <2>2, NothingNew
<1>3. ASSUME UNCHANGED <<tabs, tasks, file, backup, moved>>
      PROVE  OneOwner'
  <2>1. \A s \in Scenes : \A t \in Tabs : /\ InUse(s, t)' => InUse(s, t)
                                          /\ Aside(s, t)' => Aside(s, t)
    BY <1>3 DEF InUse, Aside, QueuedWrite, TabsIn
  <2> QED
    BY <1>3, <2>1, NothingNew
<1>4. ASSUME NEW paths \in Deletions, DeleteSessions(paths)
      PROVE  OneOwner'
  <2> DEFINE task == [op |-> "delete", paths |-> paths]
  <2>1. task \in Writes \cup Deletes /\ task.op # "write"
    BY SessionsAssumption DEF Deletes
  <2>2. tasks' = Append(tasks, task)
        /\ UNCHANGED <<tabs, file, backup, moved>>
    BY <1>4 DEF DeleteSessions, disk, lists
  <2> HIDE DEF task
  <2>3. \A s \in Scenes : \A t : QueuedWrite(s, t)' => QueuedWrite(s, t)
    BY <2>1, <2>2, AppendWrite
  <2>4. \A s \in Scenes : \A t \in Tabs : /\ InUse(s, t)' => InUse(s, t)
                                          /\ Aside(s, t)' => Aside(s, t)
    BY <2>2, <2>3 DEF InUse, Aside, TabsIn
  <2> QED
    BY <2>2, <2>4, NothingNew
<1>5. ASSUME NEW s \in Scenes, UNCHANGED <<tabs, file, backup, moved>>,
             \/ tasks' = tasks
             \/ tasks' = Append(tasks, WriteOf(s))
      PROVE  OneOwner'
  <2>1. \A p \in Scenes : \A t : QueuedWrite(p, t)' => InUse(p, t)
    BY <1>5, SavedWhereOpen
  <2>2. \A p \in Scenes : \A t \in Tabs : /\ InUse(p, t)' => InUse(p, t)
                                          /\ Aside(p, t)' => Aside(p, t)
    BY <1>5, <2>1 DEF InUse, Aside, TabsIn
  <2> QED
    BY <1>5, <2>2, NothingNew
<1>6. ASSUME NEW s \in Scenes, TimerFires(s)
      PROVE  OneOwner'
  <2>1. PerformSave(s, pending[s]) /\ UNCHANGED <<tabs, file, backup, moved>>
    BY <1>6 DEF TimerFires, disk, lists, history
  <2>2. \/ tasks' = tasks
        \/ tasks' = Append(tasks, WriteOf(s))
    BY <2>1, PerformSaveFacts
  <2> QED
    BY <1>5, <2>1, <2>2
<1>7. ASSUME NEW s \in Scenes, EnterBackground(s)
      PROVE  OneOwner'
  <2>1. UNCHANGED <<tabs, file, backup, moved>>
    BY <1>7 DEF EnterBackground, disk, lists
  <2>2. \/ tasks' = tasks
        \/ tasks' = Append(tasks, WriteOf(s))
    BY <1>7, PerformSaveFacts DEF EnterBackground, SaveSessionsIfNeeded, SaveImmediately, service
  <2> QED
    BY <1>5, <2>1, <2>2
<1>8. ASSUME NEW s \in Scenes, Connect(s)
      PROVE  OneOwner'
  <2>1. /\ tabs' = [tabs EXCEPT ![s] = TabsIn(file[s])] /\ UNCHANGED <<file, backup, moved>>
        /\ tasks' = tasks
    BY <1>8 DEF Connect, disk, service, SaveDelayed
  <2>2. \A p \in Scenes : tabs'[p] = IF p = s THEN TabsIn(file[p]) ELSE tabs[p]
    BY <2>1 DEF TypeOK
  <2>3. \A p \in Scenes : \A t \in Tabs : /\ InUse(p, t)' => InUse(p, t)
                                          /\ Aside(p, t)' => Aside(p, t)
    BY <2>1, <2>2 DEF InUse, Aside, QueuedWrite, TabsIn
  <2> QED
    BY <2>1, <2>3, NothingNew
<1>9. ASSUME NEW s \in Scenes, Disconnect(s)
      PROVE  OneOwner'
  <2>1. /\ \/ tasks' = tasks
           \/ tasks' = Append(tasks, WriteOf(s))
        /\ tabs' = [tabs EXCEPT ![s] = {}] /\ file' = file /\ moved' = moved
        /\ backup' = BackupWithoutPrompt(s)
    BY <1>9, DisconnectFacts
  <2>2. \A p \in Scenes : \A t : QueuedWrite(p, t)' => InUse(p, t)
    BY <2>1, SavedWhereOpen
  <2>3. \A p \in Scenes : /\ tabs'[p] \subseteq tabs[p]
                          /\ backup'[p] = NoFile \/ backup'[p] = backup[p]
    BY <2>1 DEF TypeOK, BackupWithoutPrompt
  <2>4. \A p \in Scenes : \A t \in Tabs : /\ InUse(p, t)' => InUse(p, t)
                                          /\ Aside(p, t)' => Aside(p, t)
    BY <2>1, <2>2, <2>3 DEF InUse, Aside, TabsIn
  <2> QED
    BY <2>1, <2>4, NothingNew
<1>10. ASSUME NEW s \in Scenes, InfoBarRemoved(s)
       PROVE  OneOwner'
  <2>1. /\ UNCHANGED <<tabs, tasks, file, moved>>
        /\ \A p \in Scenes : backup'[p] = NoFile \/ backup'[p] = backup[p]
    BY <1>10 DEF InfoBarRemoved, BackupWithoutPrompt, service, lists, TypeOK
  <2>2. \A p \in Scenes : \A t \in Tabs : /\ InUse(p, t)' => InUse(p, t)
                                          /\ Aside(p, t)' => Aside(p, t)
    BY <2>1 DEF InUse, Aside, QueuedWrite, TabsIn
  <2> QED
    BY <2>1, <2>2, NothingNew
<1>11. ASSUME NEW s \in Scenes, CloseAllTabs(s) \/ \E t \in Tabs : CloseTab(s, t)
       PROVE  OneOwner'
  <2>1. UNCHANGED <<file, backup, tasks, moved>>
    BY <1>11, ObserveEditFacts DEF CloseTab, CloseAllTabs, disk, service
  <2>2. \A p \in Scenes : tabs'[p] \subseteq tabs[p]
    BY <1>11 DEF CloseTab, CloseAllTabs, Without, TypeOK
  <2>3. \A p \in Scenes : \A x \in Tabs : /\ InUse(p, x)' => InUse(p, x)
                                          /\ Aside(p, x)' => Aside(p, x)
    BY <2>1, <2>2 DEF InUse, Aside, QueuedWrite, TabsIn
  <2> QED
    BY <2>1, <2>3, NothingNew
<1>12. ASSUME NEW s \in Scenes, NEW t \in Tabs, OpenTab(s, t)
       PROVE  OneOwner'
  <2>1. /\ tabs' = [tabs EXCEPT ![s] = @ \cup {t}] /\ UNCHANGED <<file, backup>> /\ tasks' = tasks
        /\ ~Places(t) /\ moved' = moved \ {t}
    BY <1>12, ObserveEditFacts DEF OpenTab, disk
  <2>2. \A p \in Scenes : ~InUse(p, t) /\ ~Aside(p, t)
    BY <2>1 DEF Places, InUse, Aside, QueuedWrite
  <2>3. \A p \in Scenes : tabs'[p] = IF p = s THEN tabs[p] \cup {t} ELSE tabs[p]
    BY <2>1 DEF TypeOK
  <2>4. \A p \in Scenes : \A x \in Tabs :
          /\ InUse(p, x)' => InUse(p, x) \/ (p = s /\ x = t)
          /\ Aside(p, x)' => Aside(p, x)
    BY <2>1, <2>3 DEF InUse, Aside, QueuedWrite, TabsIn
  <2>5. \A x \in Tabs \ moved' : x = t \/ x \in Tabs \ moved
    BY <2>1
  <2>6. ASSUME NEW x \in Tabs \ moved', NEW q \in Scenes, NEW p \in Scenes,
               InUse(q, x)' \/ Aside(q, x)', InUse(p, x)' \/ Aside(p, x)'
        PROVE  q = p
    BY <2>2, <2>4, <2>5, <2>6 DEF OneOwner
  <2>7. ASSUME NEW x \in Tabs \ moved', NEW p \in Scenes, InUse(p, x)', Aside(p, x)'
        PROVE  FALSE
    BY <2>2, <2>4, <2>5, <2>7 DEF OneOwner
  <2> QED
    BY <2>6, <2>7 DEF OneOwner
<1>16. ASSUME NEW s \in Scenes, NEW d \in Scenes, NEW t \in Tabs, MoveTab(s, d, t)
       PROVE  OneOwner'
  <2>1. /\ tabs' = [tabs EXCEPT ![s] = @ \ {t}, ![d] = @ \cup {t}] /\ s # d
        /\ UNCHANGED <<file, backup>> /\ tasks' = tasks /\ moved' = moved \cup {t}
    BY <1>16, ObserveEditFacts DEF MoveTab, disk
  <2>2. \A p \in Scenes : tabs'[p] \subseteq tabs[p] \cup {t}
    BY <2>1 DEF TypeOK
  <2>3. \A p \in Scenes : \A x \in Tabs \ moved' : /\ InUse(p, x)' => InUse(p, x)
                                                   /\ Aside(p, x)' => Aside(p, x)
    BY <2>1, <2>2 DEF InUse, Aside, QueuedWrite, TabsIn
  <2> QED
    BY <2>1, <2>3, NothingNew
<1>13. ASSUME NEW s \in Scenes, MoveAside(s)
       PROVE  OneOwner'
  <2>1. /\ tasks = << >> /\ \A p \in Scenes : tabs[p] = {}
        /\ UNCHANGED <<tabs, tasks, moved>>
    BY <1>13 DEF MoveAside, Quiet, service, lists
  <2>2. \A p \in Scenes : /\ file'[p] = IF p = s THEN NoFile ELSE file[p]
                          /\ backup'[p] = IF p = s THEN file[p] ELSE backup[p]
    BY <1>13 DEF MoveAside, TypeOK
  <2>3. DOMAIN tasks = {}
    BY <2>1
  <2>4. \A p \in Scenes : \A t : (InUse(p, t) <=> t \in TabsIn(file[p]))
                               /\ (InUse(p, t)' <=> t \in TabsIn(file'[p]))
    BY <2>1, <2>3 DEF InUse, QueuedWrite, TabsIn
  <2>5. \A t : t \notin TabsIn(NoFile)
    BY DEF TabsIn
  <2>6. \A p \in Scenes : \A t : /\ InUse(p, t)' => InUse(p, t) /\ p # s
                                 /\ Aside(p, t)' => IF p = s THEN InUse(p, t) ELSE Aside(p, t)
    BY <2>2, <2>4, <2>5 DEF Aside, TabsIn
  <2>7. ASSUME NEW t \in Tabs \ moved, NEW q \in Scenes, NEW p \in Scenes,
               InUse(q, t)' \/ Aside(q, t)', InUse(p, t)' \/ Aside(p, t)'
        PROVE  q = p
    BY <2>6, <2>7 DEF OneOwner
  <2>8. ASSUME NEW t \in Tabs \ moved, NEW p \in Scenes, InUse(p, t)', Aside(p, t)'
        PROVE  FALSE
    BY <2>6, <2>8 DEF OneOwner
  <2> QED
    BY <2>1, <2>7, <2>8 DEF OneOwner
<1>14. ASSUME NEW s \in Scenes, RestoreSessionsAfterCrash(s)
       PROVE  OneOwner'
  <2>1. /\ tasks' = tasks /\ moved' = moved
        /\ \A p \in Scenes :
             /\ tabs'[p] \subseteq tabs[p] \cup TabsIn(backup[p])
             /\ backup'[p] = NoFile
             /\ file'[p] = file[p] \/ file'[p] = backup[p]
    BY <1>14, RestoreFacts
  <2>2. \A p \in Scenes : \A t : /\ InUse(p, t)' => InUse(p, t) \/ Aside(p, t)
                                 /\ ~Aside(p, t)'
    BY <2>1 DEF InUse, Aside, QueuedWrite, TabsIn
  <2> QED
    BY <2>1, <2>2 DEF OneOwner
<1>15. ASSUME \/ Launch \/ FinishLaunch \/ UNCHANGED vars
              \/ \E s \in Scenes : \/ FactoryReleased(s) \/ DidFinishNavigation(s)
                                   \/ EnterForeground(s) \/ ActivateTab(s)
       PROVE  OneOwner'
  <2>1. UNCHANGED <<tabs, tasks, file, backup, moved>>
    BY <1>15, ObserveEditFacts
       DEF Launch, FinishLaunch, vars, FactoryReleased, DidFinishNavigation, ActivateTab,
           EnterForeground, service, disk, lists, history, SaveDelayed
  <2> QED
    BY <1>3, <2>1
<1> QED
  BY <1>1, <1>2, <1>4, <1>6, <1>7, <1>8, <1>9, <1>10, <1>11, <1>12, <1>13, <1>14, <1>15, <1>16
     DEF Next

(* A tab moved aside by +moveAsideSessions:, and never moved between windows,  *)
(* is in no window, session file or queued write, and moved aside for one      *)
(* window only, however crashes, launches, saves and restorations interleave:  *)
(* -restoreSessionsAfterCrash never gives the user such a tab twice.           *)
THEOREM MovedAsideTabsAreNowhereElse == Spec => []MovedAsideOnce
<1>1. Init => TypeOK /\ Quiet /\ OneOwner
  <2> SUFFICES ASSUME Init PROVE OneOwner
    BY InitTyped
  <2>1. \A s \in Scenes : \A t \in Tabs : ~InUse(s, t) /\ ~Aside(s, t)
    BY DEF Init, InUse, Aside, QueuedWrite, TabsIn
  <2> QED
    BY <2>1 DEF OneOwner
<1>2. (TypeOK /\ Quiet /\ OneOwner) /\ [Next]_vars => (TypeOK /\ Quiet /\ OneOwner)'
  BY TypeStep, OneOwnerStep
<1>3. TypeOK /\ OneOwner => MovedAsideOnce
  BY OneOwnerSuffices
<1> QED
  BY <1>1, <1>2, <1>3, PTL DEF Spec
-----------------------------------------------------------------------------
(* Tabs a window leaves the foreground with are kept.                          *)

(* A task posted last decides the files it concerns, and no other.             *)
LEMMA EventualAppend ==
  ASSUME TypeOK, NEW task \in Writes \cup Deletes,
         tasks' = Append(tasks, task), file' = file, NEW s \in Scenes, NEW t \in Tabs
  PROVE  /\ Concerns(task, s) /\ t \in TabsIn(Result(task)) => t \in EventualTabs(s)'
         /\ ~Concerns(task, s) /\ t \in EventualTabs(s) => t \in EventualTabs(s)'
<1>0. PICK last : last = Len(tasks) + 1
  OBVIOUS
<1>1. /\ Len(tasks) \in Nat /\ DOMAIN tasks = 1..Len(tasks)
      /\ DOMAIN tasks' = 1..last
      /\ \A k \in 1..Len(tasks) : tasks'[k] = tasks[k]
      /\ tasks'[last] = task
  BY <1>0, AppendTask
<1>2. /\ last \in DOMAIN tasks' /\ \A l \in DOMAIN tasks' : ~(l > last)
      /\ \A k \in DOMAIN tasks' : k = last \/ (k \in DOMAIN tasks /\ tasks'[k] = tasks[k])
      /\ \A k \in DOMAIN tasks : k \in DOMAIN tasks' /\ tasks'[k] = tasks[k]
  BY <1>0, <1>1
<1>3. ASSUME Concerns(task, s), t \in TabsIn(Result(task))
      PROVE  t \in EventualTabs(s)'
  <2>1. LastTask(last, s)'
    BY <1>1, <1>2, <1>3 DEF LastTask, Concerns
  <2>2. t \in TabsIn(Result(tasks'[last]))
    BY <1>1, <1>3
  <2> QED
    BY <1>2, <2>1, <2>2 DEF EventualTabs, TabsIn, Result
<1>4. ASSUME ~Concerns(task, s), t \in EventualTabs(s)
      PROVE  t \in EventualTabs(s)'
  <2>1. CASE \A k \in DOMAIN tasks : ~Concerns(tasks[k], s)
    <3>1. \A k \in DOMAIN tasks' : ~Concerns(tasks'[k], s)
      BY <1>1, <1>2, <1>4, <2>1
    <3>2. t \in TabsIn(file'[s])
      BY <1>4, <2>1 DEF EventualTabs, LastTask
    <3> QED
      BY <3>1, <3>2 DEF EventualTabs, TabsIn, Concerns
  <2>2. CASE ~(\A k \in DOMAIN tasks : ~Concerns(tasks[k], s))
    <3>1. PICK k \in DOMAIN tasks : LastTask(k, s) /\ t \in TabsIn(Result(tasks[k]))
      BY <1>4, <2>2 DEF EventualTabs
    <3>2. LastTask(k, s)'
      BY <1>1, <1>2, <1>4, <3>1 DEF LastTask, Concerns
    <3>3. k \in DOMAIN tasks' /\ t \in TabsIn(Result(tasks'[k]))
      BY <1>2, <3>1
    <3> QED
      BY <3>2, <3>3 DEF EventualTabs, TabsIn, Result
  <2> QED
    BY <2>1, <2>2
<1> QED
  BY <1>3, <1>4

(* Running the oldest task does not change what the files will hold.           *)
LEMMA EventualRun ==
  ASSUME TypeOK, RunTask, NEW s \in Scenes, NEW t \in EventualTabs(s)
  PROVE  t \in EventualTabs(s)'
<1>1. /\ Len(tasks) \in Nat \ {0} /\ DOMAIN tasks = 1..Len(tasks)
      /\ DOMAIN tasks' = 1..(Len(tasks) - 1)
      /\ \A k \in 1..(Len(tasks) - 1) : tasks'[k] = tasks[k + 1]
      /\ Head(tasks) = tasks[1]
  BY RunTaskTyped
<1>2. file'[s] = IF Concerns(tasks[1], s) THEN Result(tasks[1]) ELSE file[s]
  BY <1>1 DEF RunTask, AfterTask
<1>3. t \in Tabs
  BY DEF EventualTabs
<1>4. ASSUME \A k \in DOMAIN tasks' : ~Concerns(tasks'[k], s), t \in TabsIn(file'[s])
      PROVE  t \in EventualTabs(s)'
  BY <1>3, <1>4 DEF EventualTabs, Concerns, TabsIn
<1>5. CASE \A k \in DOMAIN tasks : ~Concerns(tasks[k], s)
  <2>1. 1 \in DOMAIN tasks /\ \A k \in DOMAIN tasks' : k + 1 \in DOMAIN tasks
    BY <1>1
  <2>2. \A k \in DOMAIN tasks' : ~Concerns(tasks'[k], s)
    BY <1>1, <1>5, <2>1
  <2>3. t \in TabsIn(file[s])
    BY <1>5 DEF EventualTabs, LastTask
  <2> QED
    BY <1>2, <1>4, <1>5, <2>1, <2>2, <2>3
<1>6. ASSUME NEW k \in DOMAIN tasks, LastTask(k, s), t \in TabsIn(Result(tasks[k]))
      PROVE  t \in EventualTabs(s)'
  <2>1. CASE k = 1
    <3>1. \A l \in DOMAIN tasks' : l + 1 \in DOMAIN tasks /\ l + 1 > 1
      BY <1>1
    <3>2. \A l \in DOMAIN tasks' : ~Concerns(tasks'[l], s)
      BY <1>1, <1>6, <2>1, <3>1 DEF LastTask
    <3> QED
      BY <1>2, <1>4, <1>6, <2>1, <3>2 DEF LastTask
  <2>2. CASE k # 1
    <3>1. k - 1 \in DOMAIN tasks' /\ tasks'[k - 1] = tasks[k]
      BY <1>1, <2>2
    <3>2. ASSUME NEW l \in DOMAIN tasks', l > k - 1
          PROVE  ~Concerns(tasks'[l], s)
      <4>1. l + 1 \in DOMAIN tasks /\ l + 1 > k /\ tasks'[l] = tasks[l + 1]
        BY <1>1, <3>2
      <4> QED
        BY <1>6, <4>1 DEF LastTask
    <3>3. LastTask(k - 1, s)'
      BY <1>6, <3>1, <3>2 DEF LastTask, Concerns
    <3> QED
      BY <1>3, <1>6, <3>1, <3>3 DEF EventualTabs, TabsIn, Result
  <2> QED
    BY <2>1, <2>2
<1> QED
  BY <1>5, <1>6 DEF EventualTabs

(* A file that appears where there was none loses nothing.                     *)
LEMMA EventualSame ==
  ASSUME NEW s \in Scenes, tasks' = tasks, file'[s] = file[s] \/ file[s] = NoFile,
         NEW t \in EventualTabs(s)
  PROVE  t \in EventualTabs(s)'
<1>1. t \in Tabs
  BY DEF EventualTabs
<1>2. CASE \A k \in DOMAIN tasks : ~Concerns(tasks[k], s)
  <2>1. t \in TabsIn(file[s])
    BY <1>2 DEF EventualTabs, LastTask
  <2>2. t \in TabsIn(file'[s])
    BY <2>1 DEF TabsIn
  <2>3. \A k \in DOMAIN tasks' : ~Concerns(tasks'[k], s)
    BY <1>2
  <2> QED
    BY <1>1, <2>2, <2>3 DEF EventualTabs, TabsIn, Concerns
<1>3. ASSUME NEW k \in DOMAIN tasks, LastTask(k, s), t \in TabsIn(Result(tasks[k]))
      PROVE  t \in EventualTabs(s)'
  <2>1. LastTask(k, s)'
    BY <1>3 DEF LastTask, Concerns
  <2> QED
    BY <1>1, <1>3, <2>1 DEF EventualTabs, TabsIn, Result
<1> QED
  BY <1>2, <1>3 DEF EventualTabs

(* What is saved of an open window will be in its file.                        *)
LEMMA EventualSave ==
  ASSUME TypeOK, NEW s \in Scenes,
         tasks' = Append(tasks, WriteOf(s)), file' = file, NEW p \in Scenes, NEW t \in Tabs
  PROVE  /\ p = s /\ t \in tabs[s] => t \in EventualTabs(p)'
         /\ p # s /\ t \in EventualTabs(p) => t \in EventualTabs(p)'
<1>1. WriteOf(s) \in Writes \cup Deletes
  BY WriteOfTyped
<1>2. (Concerns(WriteOf(s), p) <=> p = s) /\ Result(WriteOf(s)) = tabs[s]
  BY WriteOfTyped DEF Concerns, Result
<1>3. TabsIn(tabs[s]) = tabs[s]
  BY TabsInFacts DEF TypeOK
<1> QED
  BY <1>1, <1>2, <1>3, EventualAppend

(* With nothing queued for it, a file will hold what it holds.                 *)
LEMMA EventualFile ==
  ASSUME NEW s \in Scenes, NEW t \in Tabs, ~Queued(s)
  PROVE  t \in EventualTabs(s) <=> t \in TabsIn(file[s])
  BY DEF EventualTabs, Queued, LastTask

(* LeftTabsAreKept, for one tab.                                               *)
KeptTab(s, t) ==
  /\ t \in EventualTabs(s) \/ t \in TabsIn(backup[s]) \/ t \in lost[s]
  /\ scene[s] # "none" => t \in tabs[s] \/ t \in TabsIn(backup[s]) \/ t \in lost[s]

LEMMA KeptByTab ==
  LeftTabsAreKept <=> \A s \in Scenes : \A t \in left[s] : KeptTab(s, t)
  BY DEF LeftTabsAreKept, KeptTab

(* A tab nothing happens to.                                                   *)
LEMMA KeptSame ==
  ASSUME NEW s \in Scenes, NEW t, KeptTab(s, t), tasks' = tasks, file'[s] = file[s],
         backup'[s] = backup[s], scene'[s] = scene[s],
         t \in tabs[s] => t \in tabs'[s], t \in lost[s] => t \in lost'[s]
  PROVE  KeptTab(s, t)'
<1>1. t \in EventualTabs(s) => t \in EventualTabs(s)'
  BY EventualSame
<1> QED
  BY <1>1 DEF KeptTab, TabsIn

(* A session that is saved, or not, as its window leaves the foreground.       *)
LEMMA KeptOnLeaving ==
  ASSUME TypeOK, LeftTabsAreKept, NEW s \in Scenes, scene[s] # "none", file' = file,
         IF needSaving[s] /\ CanSaveSession(s)
           THEN tasks' = Append(tasks, WriteOf(s))
           ELSE tasks' = tasks,
         NEW p \in Scenes, NEW t \in LeftAfterSaving(s)[p]
  PROVE  /\ t \in EventualTabs(p)' \/ t \in TabsIn(backup[p]) \/ t \in LostAfterSaving(s)[p]
         /\ scene[p] # "none" =>
              t \in tabs[p] \/ t \in TabsIn(backup[p]) \/ t \in LostAfterSaving(s)[p]
<1>1. /\ LeftAfterSaving(s) \in [Scenes -> Sessions]
      /\ p # s => /\ LeftAfterSaving(s)[p] = left[p]
                  /\ LostAfterSaving(s)[p] = lost[p]
      /\ IF needSaving[s] /\ CanSaveSession(s)
           THEN /\ LeftAfterSaving(s)[s] = left[s] \cup tabs[s]
                /\ LostAfterSaving(s)[s] = lost[s] \ tabs[s]
           ELSE LeftAfterSaving(s)[s] = left[s] /\ LostAfterSaving(s)[s] = lost[s]
  BY LeftSavingFacts
<1>2. t \in Tabs
  BY <1>1 DEF Sessions
<1>3. t \in left[p] => KeptTab(p, t)
  BY KeptByTab
<1>4. CASE needSaving[s] /\ CanSaveSession(s)
  <2>1. /\ p = s /\ t \in tabs[s] => t \in EventualTabs(p)'
        /\ p # s /\ t \in EventualTabs(p) => t \in EventualTabs(p)'
    BY <1>2, <1>4, EventualSave
  <2> QED
    BY <1>1, <1>3, <1>4, <2>1 DEF KeptTab
<1>5. CASE ~(needSaving[s] /\ CanSaveSession(s))
  <2>1. t \in EventualTabs(p) => t \in EventualTabs(p)'
    BY <1>5, EventualSame
  <2> QED
    BY <1>1, <1>3, <1>5, <2>1 DEF KeptTab
<1> QED
  BY <1>4, <1>5

(* Removing the prompt of a window closes the tabs of the backups it clears.   *)
LEMMA DeclinedKeeps ==
  ASSUME TypeOK, NEW s \in Scenes, NEW f \in [Scenes -> Sessions],
         backup' = BackupWithoutPrompt(s), NEW p \in Scenes, NEW t \in Declined(s, f)[p]
  PROVE  t \in f[p] /\ (t \in TabsIn(backup[p]) => t \in TabsIn(backup'[p]))
<1>1. t \in f[p] /\ (s \in prompts => t \notin TabsIn(backup[p]))
  BY DEF Declined, Sessions
<1>2. s \notin prompts => backup'[p] = backup[p]
  BY DEF BackupWithoutPrompt
<1> QED
  BY <1>1, <1>2

LEMMA LeftKeptStep ==
  ASSUME TypeOK, Quiet, LeftTabsAreKept, [Next]_vars
  PROVE  LeftTabsAreKept'
<1> SUFFICES ASSUME NEW p \in Scenes, NEW x \in left'[p]
             PROVE  KeptTab(p, x)'
  BY DEF LeftTabsAreKept, KeptTab
<1>0. left[p] \subseteq Tabs /\ tabs[p] \subseteq Tabs /\ lost[p] \subseteq Tabs
  BY DEF TypeOK, Sessions
<1>1. x \in left[p] => KeptTab(p, x)
  BY KeptByTab
<1>2. ASSUME UNCHANGED <<tasks, file, backup, scene, tabs, lost, left>>
      PROVE  KeptTab(p, x)'
  BY <1>1, <1>2, KeptSame
<1>3. CASE RunTask
  <2>1. UNCHANGED <<scene, tabs, backup, left, lost>>
    BY <1>3 DEF RunTask, lists, history
  <2>2. x \in EventualTabs(p) => x \in EventualTabs(p)'
    BY <1>3, EventualRun
  <2> QED
    BY <1>1, <2>1, <2>2 DEF KeptTab, TabsIn
<1>4. CASE Kill
  <2>1. /\ left' = left /\ UNCHANGED <<file, backup>> /\ tasks' = << >> /\ scene'[p] = "none"
        /\ lost'[p] = IF Queued(p) THEN lost[p] \cup (left[p] \ OnDisk(p)) ELSE lost[p]
    BY <1>4 DEF Kill, disk
  <2>2. x \in Tabs /\ x \in left[p]
    BY <1>0, <2>1
  <2>3. x \in EventualTabs(p)' <=> x \in TabsIn(file[p])
    <3>1. ~Queued(p)'
      BY <2>1 DEF Queued
    <3> QED
      BY <2>1, <2>2, <3>1 DEF EventualTabs, Queued, LastTask, TabsIn
  <2>4. ~Queued(p) => (x \in EventualTabs(p) <=> x \in TabsIn(file[p]))
    BY <2>2, EventualFile
  <2> QED
    BY <1>1, <2>1, <2>2, <2>3, <2>4 DEF KeptTab, OnDisk, TabsIn
<1>5. ASSUME NEW paths \in Deletions, DeleteSessions(paths)
      PROVE  KeptTab(p, x)'
  <2> DEFINE task == [op |-> "delete", paths |-> paths]
  <2>1. /\ tasks' = Append(tasks, task) /\ file' = file
        /\ left'[p] = (IF p \in paths THEN {} ELSE left[p])
        /\ lost'[p] = (IF p \in paths THEN {} ELSE lost[p])
        /\ UNCHANGED <<backup, scene, tabs>>
    BY <1>5 DEF DeleteSessions, disk, lists
  <2>2. task \in Writes \cup Deletes /\ ~Concerns(task, p)
    BY <2>1, SessionsAssumption DEF Deletes, Concerns
  <2> HIDE DEF task
  <2>3. x \in left[p] /\ x \in Tabs /\ lost'[p] = lost[p]
    BY <1>0, <2>1
  <2>4. x \in EventualTabs(p) => x \in EventualTabs(p)'
    BY <2>1, <2>2, <2>3, EventualAppend
  <2> QED
    BY <1>1, <2>1, <2>3, <2>4 DEF KeptTab, TabsIn
<1>6. ASSUME NEW s \in Scenes, TimerFires(s)
      PROVE  KeptTab(p, x)'
  <2>1. /\ UNCHANGED <<scene, tabs, file, backup, left, lost>> /\ app = "up"
        /\ PerformSave(s, pending[s])
    BY <1>6 DEF TimerFires, disk, lists, history
  <2>2. \/ tasks' = tasks
        \/ pending[s] = "live" /\ tasks' = Append(tasks, WriteOf(s))
    BY <2>1, PerformSaveFacts
  <2>3. CASE tasks' = tasks
    BY <1>2, <2>1, <2>3
  <2>4. CASE pending[s] = "live" /\ tasks' = Append(tasks, WriteOf(s))
    <3>1. scene[s] # "none" /\ x \in Tabs /\ x \in left[p]
      BY <1>0, <2>1, <2>4 DEF TypeOK
    <3>2. /\ p = s /\ x \in tabs[s] => x \in EventualTabs(p)'
          /\ p # s /\ x \in EventualTabs(p) => x \in EventualTabs(p)'
      BY <2>1, <2>4, <3>1, EventualSave
    <3> QED
      BY <1>1, <2>1, <3>1, <3>2 DEF KeptTab, TabsIn
  <2> QED
    BY <2>2, <2>3, <2>4
<1>7. ASSUME NEW s \in Scenes, Connect(s)
      PROVE  KeptTab(p, x)'
  <2>1. /\ tabs' = [tabs EXCEPT ![s] = TabsIn(file[s])] /\ UNCHANGED <<file, backup, left>>
        /\ scene' = [scene EXCEPT ![s] = "foreground"] /\ tasks' = tasks
        /\ lost' = [lost EXCEPT ![s] = IF Queued(s) THEN @ \cup (left[s] \ OnDisk(s))
                                                   ELSE @ \ OnDisk(s)]
    BY <1>7 DEF Connect, disk, service, SaveDelayed
  <2>2. CASE p # s
    <3>1. tabs'[p] = tabs[p] /\ scene'[p] = scene[p] /\ lost'[p] = lost[p]
      BY <2>1, <2>2 DEF TypeOK
    <3> QED
      BY <1>1, <2>1, <3>1, KeptSame
  <2>3. CASE p = s
    <3>1. /\ tabs'[p] = TabsIn(file[p])
          /\ lost'[p] = IF Queued(p) THEN lost[p] \cup (left[p] \ OnDisk(p)) ELSE lost[p] \ OnDisk(p)
      BY <2>1, <2>3 DEF TypeOK
    <3>2. x \in left[p] /\ x \in Tabs
      BY <1>0, <2>1
    <3>3. x \in EventualTabs(p) => x \in EventualTabs(p)'
      BY <2>1, EventualSame
    <3>4. ~Queued(p) => (x \in EventualTabs(p) <=> x \in TabsIn(file[p]))
      BY <3>2, EventualFile
    <3> QED
      BY <1>1, <2>1, <3>1, <3>2, <3>3, <3>4 DEF KeptTab, OnDisk, TabsIn
  <2> QED
    BY <2>2, <2>3
<1>8. ASSUME NEW s \in Scenes, EnterBackground(s)
      PROVE  KeptTab(p, x)'
  <2>1. /\ scene[s] # "none" /\ (scene'[p] # "none" => scene[p] # "none")
        /\ left' = LeftAfterSaving(s) /\ lost' = LostAfterSaving(s)
        /\ SaveSessionsIfNeeded(s) /\ UNCHANGED <<tabs, file, backup>>
    BY <1>8 DEF EnterBackground, disk, lists, TypeOK
  <2>2. IF needSaving[s] /\ CanSaveSession(s)
          THEN tasks' = Append(tasks, WriteOf(s))
          ELSE tasks' = tasks
    BY <2>1 DEF SaveSessionsIfNeeded, SaveImmediately, PerformSave, WriteOf, service
  <2>3. /\ x \in EventualTabs(p)' \/ x \in TabsIn(backup[p]) \/ x \in LostAfterSaving(s)[p]
        /\ scene[p] # "none" =>
             x \in tabs[p] \/ x \in TabsIn(backup[p]) \/ x \in LostAfterSaving(s)[p]
    BY <2>1, <2>2, KeptOnLeaving
  <2> QED
    BY <2>1, <2>3 DEF KeptTab, TabsIn
<1>9. ASSUME NEW s \in Scenes, Disconnect(s)
      PROVE  KeptTab(p, x)'
  <2>1. /\ IF needSaving[s] /\ CanSaveSession(s)
             THEN tasks' = Append(tasks, WriteOf(s))
             ELSE tasks' = tasks
        /\ left' = Declined(s, LeftAfterSaving(s)) /\ lost' = LostAfterSaving(s)
        /\ backup' = BackupWithoutPrompt(s) /\ file' = file
        /\ scene' = [scene EXCEPT ![s] = "none"] /\ tabs' = [tabs EXCEPT ![s] = {}]
    BY <1>9, DisconnectFacts
  <2>2. scene[s] # "none"
    BY <1>9 DEF Disconnect
  <2>3. scene'[p] # "none" => scene[p] # "none" /\ tabs'[p] = tabs[p]
    BY <2>1 DEF TypeOK
  <2>4. /\ x \in LeftAfterSaving(s)[p]
        /\ x \in TabsIn(backup[p]) => x \in TabsIn(backup'[p])
    BY <2>1, LeftSavingFacts, DeclinedKeeps
  <2>5. /\ x \in EventualTabs(p)' \/ x \in TabsIn(backup[p]) \/ x \in LostAfterSaving(s)[p]
        /\ scene[p] # "none" =>
             x \in tabs[p] \/ x \in TabsIn(backup[p]) \/ x \in LostAfterSaving(s)[p]
    BY <2>1, <2>2, <2>4, KeptOnLeaving
  <2> QED
    BY <2>1, <2>3, <2>4, <2>5 DEF KeptTab, TabsIn
<1>10. ASSUME NEW s \in Scenes, InfoBarRemoved(s)
       PROVE  KeptTab(p, x)'
  <2>1. /\ left' = Declined(s, left) /\ backup' = BackupWithoutPrompt(s)
        /\ UNCHANGED <<scene, tabs, tasks, file, lost>>
    BY <1>10 DEF InfoBarRemoved, lists, service
  <2>2. left \in [Scenes -> Sessions]
    BY DEF TypeOK
  <2>3. x \in left[p] /\ (x \in TabsIn(backup[p]) => x \in TabsIn(backup'[p]))
    BY <2>1, <2>2, DeclinedKeeps
  <2>4. x \in EventualTabs(p) => x \in EventualTabs(p)'
    BY <2>1, EventualSame
  <2> QED
    BY <1>1, <2>1, <2>3, <2>4 DEF KeptTab, TabsIn
<1>11. ASSUME NEW s \in Scenes, MoveAside(s)
       PROVE  KeptTab(p, x)'
  <2>1. /\ tasks = << >> /\ tasks' = tasks /\ left' = left /\ scene' = scene
        /\ file' = [file EXCEPT ![s] = NoFile] /\ backup' = [backup EXCEPT ![s] = file[s]]
        /\ lost' = LostToSecondCrash(s) /\ scene[p] = "none"
    BY <1>11 DEF MoveAside, Quiet, service
  <2>2. x \in left[p] /\ x \in Tabs /\ KeptTab(p, x)
    BY <1>0, <1>1, <2>1
  <2>3. CASE p # s
    <3>1. file'[p] = file[p] /\ backup'[p] = backup[p] /\ lost'[p] = lost[p]
      BY <2>1, <2>3 DEF LostToSecondCrash, TypeOK
    <3>2. x \in EventualTabs(p) => x \in EventualTabs(p)'
      BY <2>1, <3>1, EventualSame
    <3> QED
      BY <2>1, <2>2, <3>1, <3>2 DEF KeptTab, TabsIn
  <2>4. CASE p = s
    <3>1. /\ backup'[p] = file[p]
          /\ lost'[p] = lost[p] \cup (left[p] \cap (TabsIn(backup[p]) \ TabsIn(file[p])))
      BY <2>1, <2>4 DEF LostToSecondCrash, TypeOK
    <3>2. ~Queued(p)
      BY <2>1 DEF Queued
    <3>3. x \in EventualTabs(p) <=> x \in TabsIn(file[p])
      BY <2>2, <3>2, EventualFile
    <3>4. x \in TabsIn(backup'[p]) \/ x \in lost'[p]
      BY <2>2, <3>1, <3>3 DEF KeptTab
    <3> QED
      BY <2>1, <3>4 DEF KeptTab, TabsIn
  <2> QED
    BY <2>3, <2>4
<1>12. ASSUME NEW s \in Scenes, RestoreSessionsAfterCrash(s)
       PROVE  KeptTab(p, x)'
  <2>1. /\ tasks' = tasks /\ scene' = scene
        /\ left'[p] \subseteq left[p] /\ lost[p] \subseteq lost'[p]
        /\ scene[p] # "none" => /\ left'[p] \cap TabsIn(backup[p]) = {}
                                /\ left'[p] \cap tabs[p] \subseteq tabs'[p]
        /\ scene[p] = "none" /\ (file[p] # NoFile \/ Queued(p)) =>
             left[p] \cap TabsIn(backup[p]) \subseteq lost'[p]
        /\ IF file[p] = NoFile /\ scene[p] = "none"
             THEN file'[p] = backup[p] ELSE file'[p] = file[p]
    BY <1>12, RestoreFacts
  <2>2. x \in left[p] /\ x \in Tabs /\ KeptTab(p, x)
    BY <1>0, <1>1, <2>1
  <2>3. x \in EventualTabs(p) => x \in EventualTabs(p)'
    BY <2>1, EventualSame
  <2>4. CASE scene[p] # "none"
    BY <2>1, <2>2, <2>3, <2>4 DEF KeptTab
  <2>5. CASE scene[p] = "none" /\ (file[p] # NoFile \/ Queued(p))
    BY <2>1, <2>2, <2>3, <2>5 DEF KeptTab
  <2>6. CASE scene[p] = "none" /\ file[p] = NoFile /\ ~Queued(p)
    <3>1. x \in TabsIn(backup[p]) => x \in EventualTabs(p)'
      <4>1. ~Queued(p)'
        BY <2>1, <2>6 DEF Queued, Concerns
      <4>2. TabsIn(file'[p]) = TabsIn(backup[p])
        BY <2>1, <2>6
      <4> QED
        BY <2>2, <4>1, <4>2 DEF EventualTabs, Queued, Concerns, TabsIn
    <3> QED
      BY <2>1, <2>2, <2>3, <2>6, <3>1 DEF KeptTab
  <2> QED
    BY <2>4, <2>5, <2>6
<1>13. ASSUME NEW s \in Scenes, NEW t \in Tabs, OpenTab(s, t) \/ CloseTab(s, t)
       PROVE  KeptTab(p, x)'
  <2>1. tasks' = tasks /\ UNCHANGED <<scene, file, backup>>
    BY <1>13, ObserveEditFacts DEF OpenTab, CloseTab, disk
  <2>2. /\ x \in left[p]
        /\ x \in tabs[p] => x \in tabs'[p]
        /\ x \in lost[p] => x \in lost'[p]
    <3>1. CASE OpenTab(s, t)
      BY <3>1 DEF OpenTab, TypeOK
    <3>2. CASE CloseTab(s, t)
      BY <3>2 DEF CloseTab, Without, TypeOK
    <3> QED
      BY <1>13, <3>1, <3>2
  <2> QED
    BY <1>1, <2>1, <2>2, KeptSame
<1>14. ASSUME NEW s \in Scenes, NEW d \in Scenes, NEW t \in Tabs, MoveTab(s, d, t)
       PROVE  KeptTab(p, x)'
  <2>1. tasks' = tasks /\ UNCHANGED <<scene, file, backup>>
    BY <1>14, ObserveEditFacts DEF MoveTab, disk
  <2>2. /\ x \in left[p]
        /\ x \in tabs[p] => x \in tabs'[p]
        /\ x \in lost[p] => x \in lost'[p]
    BY <1>14 DEF MoveTab, Without, TypeOK
  <2> QED
    BY <1>1, <2>1, <2>2, KeptSame
<1>15. ASSUME NEW s \in Scenes, CloseAllTabs(s)
       PROVE  KeptTab(p, x)'
  <2>1. /\ UNCHANGED <<scene, file, backup, tasks, lost>>
        /\ tabs'[p] = (IF p = s THEN {} ELSE tabs[p])
        /\ left'[p] = (IF p = s THEN left[p] \ tabs[p] ELSE left[p])
    BY <1>15 DEF CloseAllTabs, disk, service, TypeOK
  <2>2. x \in left[p] /\ (x \in tabs[p] => x \in tabs'[p])
    BY <2>1
  <2> QED
    BY <1>1, <2>1, <2>2, KeptSame
<1>16. ASSUME \/ Launch \/ FinishLaunch \/ UNCHANGED vars
              \/ \E s \in Scenes : \/ FactoryReleased(s) \/ DidFinishNavigation(s)
                                   \/ EnterForeground(s) \/ ActivateTab(s)
       PROVE  KeptTab(p, x)'
  <2>1. CASE \E s \in Scenes : EnterForeground(s)
    <3>1. PICK s \in Scenes : EnterForeground(s)
      BY <2>1
    <3>2. /\ UNCHANGED <<tasks, file, backup, tabs, lost, left>>
          /\ scene'[p] # "none" => scene[p] # "none"
      BY <3>1 DEF EnterForeground, service, disk, lists, history, TypeOK
    <3>3. x \in EventualTabs(p) => x \in EventualTabs(p)'
      BY <3>2, EventualSame
    <3> QED
      BY <1>1, <3>2, <3>3 DEF KeptTab, TabsIn
  <2>2. CASE ~ \E s \in Scenes : EnterForeground(s)
    <3>1. UNCHANGED <<tasks, file, backup, scene, tabs, lost, left>>
      BY <1>16, <2>2, ObserveEditFacts
         DEF Launch, FinishLaunch, vars, FactoryReleased, DidFinishNavigation, ActivateTab,
             service, disk, lists, history, SaveDelayed
    <3> QED
      BY <1>2, <3>1
  <2> QED
    BY <2>1, <2>2
<1> QED
  BY <1>3, <1>4, <1>5, <1>6, <1>7, <1>8, <1>9, <1>10, <1>11, <1>12, <1>13, <1>14, <1>15,
     <1>16 DEF Next

(* The tabs a window leaves the foreground with, saving them, stay on disk and *)
(* in the window until they are closed, moved to another window, deleted,      *)
(* declined or given back, except for those lost in one of the named ways:     *)
(* neither a delayed save that fires late, nor -teardownUI emptying the list,  *)
(* nor the order of the file operations loses one.  The invariant is inductive *)
(* because its second half, the tabs of an open window, is what a delayed save *)
(* writes over the first.                                                      *)
THEOREM LeftTabsAreNeverLost == Spec => []LeftTabsAreKept
<1>1. Init => TypeOK /\ Quiet /\ LeftTabsAreKept
  <2> SUFFICES ASSUME Init PROVE LeftTabsAreKept
    BY InitTyped
  <2> QED
    BY DEF Init, LeftTabsAreKept
<1>2. (TypeOK /\ Quiet /\ LeftTabsAreKept) /\ [Next]_vars => (TypeOK /\ Quiet /\ LeftTabsAreKept)'
  BY TypeStep, LeftKeptStep
<1> QED
  BY <1>1, <1>2, PTL DEF Spec
=============================================================================
