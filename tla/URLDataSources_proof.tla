------------------------ MODULE URLDataSources_proof ------------------------
(* Proofs about WebThreads and URLDataSources, for any sources and requests:   *)
(* posts without the lock do not race, no source points to a deleted backend,  *)
(* and none is left when the process ends.                                     *)
EXTENDS URLDataSources, SequenceTheorems, FiniteSetTheorems, TLAPS

-----------------------------------------------------------------------------
(* The threads.                                                                *)

RequestKinds ==
  {"GetMimeTypeOnUI", "CallStartRequest", "MimeTypeAvailable", "SendResponseOnIOThread"}

PlainKinds == {"noop", "DeleteDataSources", "DeleteNetworkContext", "DeleteBackend"}

(* Tasks with what their kind needs.                                           *)
WellFormed ==
  [kind : {"AddDataSourceOnIOThread"}, source : Sources, job : {None}]
    \cup [kind : RequestKinds, source : Sources, job : Jobs]
    \cup [kind : PlainKinds, source : {None}, job : {None}]

Posts == [to : IDs, task : WellFormed]

BeforeIO == {"boot", "ui_registered", "io_started"}
Up       == {"io_started", "io_registered", "running", "stopping", "states_gone"}
Alone    == {"pool_down", "sources_deleted", "unregistered", "exited"}
Joined   == {"joined"} \cup Alone

(* What the main loop's stage says of the identifiers and the threads.         *)
StagesOK ==
  /\ states["UI"] = IF main = "boot" THEN "UNINITIALIZED"
                    ELSE IF main \in {"unregistered", "exited"} THEN "SHUTDOWN"
                    ELSE "RUNNING"
  /\ states["IO"] = IF main \in BeforeIO THEN "UNINITIALIZED"
                    ELSE IF io \in {"unregistered", "destroyed", "exited"} THEN "SHUTDOWN"
                    ELSE "RUNNING"
  /\ "UI" \in task_runners => main # "boot"
  /\ "IO" \in task_runners => main \notin BeforeIO
  /\ main \in {"boot", "ui_registered"} => io = "off"
  /\ main \in Up => io = "running"
  /\ main = "joining" => io \in {"quitting", "cleanup", "unregistered", "destroyed", "exited"}
  /\ main \in Joined => io = "exited"

(* Who has no posts to make, and which loops are empty, at which stage.        *)
QuietOK ==
  /\ io \in {"off", "cleanup", "unregistered", "exited"} => Idle("IO")
  /\ main \in {"joining"} \cup Joined => Idle("UI")
  /\ main \in Alone => Idle("worker")
  /\ io \in {"destroyed", "exited"} => queue["IO"] = << >>
  /\ main = "exited" => queue["UI"] = << >>

(* A thread inside PostTaskHelper has a post to make; without the lock, its    *)
(* target outlives it.                                                         *)
PostingOK ==
  \A t \in Threads :
    /\ posting[t] # NoPost => ~Idle(t)
    /\ posting[t] = "unlocked" => Outlives(t, Head(calls[t]).to)

ThreadsInv == ThreadsTypeOK(WellFormed) /\ StagesOK /\ QuietOK /\ PostingOK
-----------------------------------------------------------------------------
(* The sources.                                                                *)

Held(s, r, j, q, c) ==
  \/ r = s
  \/ \E k \in Jobs : j[k].source = s
  \/ \E task \in TasksIn(q, c) : task.source = s

DataTypes ==
  /\ source \in [Sources -> {"new", "alive", "scheduled", "deleted"}]
  /\ registered \in Sources \cup {None}
  /\ attached \subseteq Sources
  /\ backend \in {"none", "live", "deleted"}
  /\ data_sources \in Seq(Sources) /\ IsInjective(data_sources)
  /\ job \in [Jobs -> [phase : {"idle", "pending", "answered", "failed", "killed"},
                       source : Sources \cup {None},
                       asked : Sources \cup {None}]]

(* The list is what was scheduled, and is empty after the last deletion.       *)
ListedOK ==
  /\ ToSet(data_sources) = {s \in Sources : source[s] = "scheduled"}
  /\ main \in {"sources_deleted", "unregistered", "exited"} => data_sources = << >>

ReferencedOK ==
  \A s \in Sources : source[s] = "alive" => Held(s, registered, job, queue, calls)

BackendOK == attached \subseteq {registered} /\ (registered # None => backend = "live")

JobsGone == \A j \in Jobs : job[j].phase = "killed" /\ job[j].source = None

IsContextTask(task) == task.kind = "DeleteNetworkContext"

ContextCalled ==
  \E i \in DOMAIN calls["UI"] : calls["UI"][i].to = "IO" /\ IsContextTask(calls["UI"][i].task)

ContextQueued == \E i \in DOMAIN queue["IO"] : IsContextTask(queue["IO"][i])

(* Once the BrowserStates are gone the requests are too, or the task that      *)
(* deletes them is still to run.                                               *)
NetworkOK ==
  main \in {"states_gone", "joining"} \cup Joined =>
    JobsGone \/ ContextCalled \/ (ContextQueued /\ io \in {"running", "quitting"})

SourcesInv == DataTypes /\ ListedOK /\ ReferencedOK /\ BackendOK /\ NetworkOK
-----------------------------------------------------------------------------
(* Steps of the threads.                                                       *)

LEMMA SeqParts ==
  ASSUME NEW S, NEW q \in Seq(S), q # << >>
  PROVE  Head(q) \in S /\ Tail(q) \in Seq(S)
  BY HeadTailProperties

(* A handler of thread t, which leaves the posts p to make.                    *)
HandlerStep(t, p) ==
  /\ CanRun(t)
  /\ \/ queue' = queue
     \/ queue[t] # << >> /\ queue' = Dequeued(t)
  /\ calls' = [calls EXCEPT ![t] = p]
  /\ UNCHANGED <<states, task_runners, lock, posting, main, io>>

LEMMA IDFacts ==
  /\ IDs \subseteq Threads /\ "worker" \in Threads
  /\ \A t \in Threads : t \in IDs \/ t = "worker"
  /\ "UI" \in IDs /\ "IO" \in IDs /\ "worker" \notin IDs
  /\ "UI" # "IO" /\ "UI" # "worker" /\ "IO" # "worker"
  /\ \A t \in IDs : t = "UI" \/ t = "IO"
  /\ Free \notin Threads
  BY DEF IDs, Threads, Free

LEMMA QueueTyped ==
  ASSUME ThreadsTypeOK(WellFormed), NEW t \in IDs, queue[t] # << >>
  PROVE  Head(queue[t]) \in WellFormed /\ Dequeued(t) \in [IDs -> Seq(WellFormed)]
<1>1. queue \in [IDs -> Seq(WellFormed)] /\ queue[t] \in Seq(WellFormed)
  BY DEF ThreadsTypeOK
<1>2. Head(queue[t]) \in WellFormed /\ Tail(queue[t]) \in Seq(WellFormed)
  BY <1>1, SeqParts
<1> QED
  BY <1>1, <1>2 DEF Dequeued

LEMMA HandlerKeepsThreads ==
  ASSUME ThreadsInv, NEW t \in IDs, NEW p \in Seq(Posts), HandlerStep(t, p)
  PROVE  ThreadsInv'
<1>1. /\ calls \in [Threads -> Seq(Posts)] /\ queue \in [IDs -> Seq(WellFormed)]
      /\ posting \in [Threads -> {NoPost, "locked", "unlocked"}]
  BY DEF ThreadsInv, ThreadsTypeOK, Posts
<1>2. calls' \in [Threads -> Seq(Posts)] /\ queue' \in [IDs -> Seq(WellFormed)]
  <2>1. Dequeued(t) \in [IDs -> Seq(WellFormed)] \/ queue' = queue
    BY QueueTyped DEF ThreadsInv, HandlerStep
  <2> QED
    BY <1>1, <2>1 DEF HandlerStep
<1>3. ThreadsTypeOK(WellFormed)'
  BY <1>2 DEF ThreadsInv, ThreadsTypeOK, HandlerStep, Posts
<1>4. StagesOK'
  BY DEF ThreadsInv, StagesOK, HandlerStep
<1>5. t = "UI" => main = "running"
  BY DEF HandlerStep, CanRun
<1>6. t = "IO" => io \in {"running", "quitting"}
  BY IDFacts DEF HandlerStep, CanRun
<1>7. Idle(t) /\ posting[t] = NoPost
  BY IDFacts DEF HandlerStep, CanRun, ThreadsInv, PostingOK
<1>8. \A x \in Threads : x # t => calls'[x] = calls[x] /\ (Idle(x)' <=> Idle(x))
  BY <1>1 DEF HandlerStep, Idle
<1>9. \A x \in IDs : x # t => queue'[x] = queue[x]
  BY <1>1 DEF HandlerStep, Dequeued
<1>10. QuietOK'
  <2>1. io' = io /\ main' = main /\ QuietOK
    BY DEF HandlerStep, ThreadsInv
  <2>2. CASE t = "UI"
    <3>1. main = "running" /\ (Idle("IO")' <=> Idle("IO")) /\ (Idle("worker")' <=> Idle("worker"))
            /\ queue'["IO"] = queue["IO"]
      BY <1>5, <1>8, <1>9, <2>2, IDFacts
    <3> QED
      BY <2>1, <3>1 DEF QuietOK, Joined, Alone
  <2>3. CASE t = "IO"
    <3>1. io \in {"running", "quitting"} /\ (Idle("UI")' <=> Idle("UI"))
            /\ (Idle("worker")' <=> Idle("worker")) /\ queue'["UI"] = queue["UI"]
      BY <1>6, <1>8, <1>9, <2>3, IDFacts
    <3> QED
      BY <2>1, <3>1 DEF QuietOK, Joined, Alone
  <2> QED
    BY <2>2, <2>3, IDFacts
<1>11. PostingOK'
  <2> SUFFICES ASSUME NEW x \in Threads
               PROVE  /\ posting'[x] # NoPost => ~Idle(x)'
                      /\ posting'[x] = "unlocked" => Outlives(x, Head(calls[x]).to)'
    BY DEF PostingOK
  <2>1. posting' = posting /\ task_runners' = task_runners
    BY DEF HandlerStep
  <2>2. CASE x = t
    BY <1>7, <2>1, <2>2 DEF NoPost
  <2>3. CASE x # t
    <3>1. calls'[x] = calls[x] /\ (Idle(x)' <=> Idle(x))
      BY <1>8, <2>3
    <3> QED
      BY <2>1, <3>1 DEF ThreadsInv, PostingOK, Outlives
  <2> QED
    BY <2>2, <2>3
<1> QED
  BY <1>3, <1>4, <1>10, <1>11 DEF ThreadsInv

LEMMA BeginPostKeepsThreads ==
  ASSUME ThreadsInv, NEW t \in Threads, BeginPost(t)
  PROVE  ThreadsInv'
<1>1. posting \in [Threads -> {NoPost, "locked", "unlocked"}]
        /\ (\A x \in Threads : posting[x] = "locked" <=> lock = x)
  BY DEF ThreadsInv, ThreadsTypeOK
<1> DEFINE unlocked == Outlives(t, Head(calls[t]).to)
<1>2. /\ posting' = [posting EXCEPT ![t] = IF unlocked THEN "unlocked" ELSE "locked"]
      /\ lock' = IF unlocked THEN Free ELSE t
      /\ lock = Free /\ ~Idle(t)
      /\ UNCHANGED <<states, task_runners, queue, calls, main, io>>
  BY DEF BeginPost
<1> HIDE DEF unlocked
<1>3. posting' \in [Threads -> {NoPost, "locked", "unlocked"}] /\ lock' \in Threads \cup {Free}
  BY <1>1, <1>2
<1>4. \A x \in Threads : posting'[x] = "locked" <=> lock' = x
  BY <1>1, <1>2, IDFacts DEF NoPost
<1>5. ThreadsTypeOK(WellFormed)'
  BY <1>2, <1>3, <1>4 DEF ThreadsInv, ThreadsTypeOK
<1>6. StagesOK' /\ QuietOK'
  BY <1>2 DEF ThreadsInv, StagesOK, QuietOK, Idle
<1>7. PostingOK'
  <2> SUFFICES ASSUME NEW x \in Threads
               PROVE  /\ posting'[x] # NoPost => ~Idle(x)'
                      /\ posting'[x] = "unlocked" => Outlives(x, Head(calls[x]).to)'
    BY DEF PostingOK
  <2>1. CASE x = t
    <3>1. posting'[x] = "unlocked" => unlocked
      BY <1>1, <1>2, <2>1
    <3>2. ~Idle(x)'
      BY <1>2, <2>1 DEF Idle
    <3> QED
      BY <1>2, <2>1, <3>1, <3>2 DEF unlocked, Outlives
  <2>2. CASE x # t
    BY <1>1, <1>2, <2>2 DEF ThreadsInv, PostingOK, Outlives, Idle
  <2> QED
    BY <2>1, <2>2
<1> QED
  BY <1>5, <1>6, <1>7 DEF ThreadsInv

LEMMA QueueAfterPostTyped ==
  ASSUME ThreadsInv, NEW t \in Threads, posting[t] # NoPost
  PROVE  /\ calls[t] # << >> /\ Head(calls[t]) \in Posts /\ Tail(calls[t]) \in Seq(Posts)
         /\ Head(calls[t]).to \in IDs /\ Head(calls[t]).task \in WellFormed
         /\ QueueAfterPost(t) \in [IDs -> Seq(WellFormed)]
         /\ \A id \in IDs : \/ QueueAfterPost(t)[id] = queue[id]
                            \/ /\ states[id] = "RUNNING" /\ id = Head(calls[t]).to
                               /\ QueueAfterPost(t)[id] = Append(queue[id], Head(calls[t]).task)
<1>1. calls[t] \in Seq(Posts) /\ queue \in [IDs -> Seq(WellFormed)]
  BY DEF ThreadsInv, ThreadsTypeOK, Posts
<1>2. calls[t] # << >>
  BY DEF ThreadsInv, PostingOK, Idle
<1>3. Head(calls[t]) \in Posts /\ Tail(calls[t]) \in Seq(Posts)
  BY <1>1, <1>2, SeqParts
<1>4. Head(calls[t]).to \in IDs /\ Head(calls[t]).task \in WellFormed
  BY <1>3 DEF Posts
<1> DEFINE to == Head(calls[t]).to
           task == Head(calls[t]).task
<1>5. QueueAfterPost(t) = IF states[to] = "RUNNING"
                            THEN [queue EXCEPT ![to] = Append(@, task)] ELSE queue
  BY DEF QueueAfterPost
<1> HIDE DEF to, task
<1>6. to \in IDs /\ task \in WellFormed
  BY <1>4 DEF to, task
<1>7. queue[to] \in Seq(WellFormed)
  BY <1>1, <1>6
<1>8. Append(queue[to], task) \in Seq(WellFormed)
  BY <1>6, <1>7, AppendProperties
<1>9. QueueAfterPost(t) \in [IDs -> Seq(WellFormed)]
  BY <1>1, <1>5, <1>6, <1>8
<1>10. ASSUME NEW id \in IDs
       PROVE  \/ QueueAfterPost(t)[id] = queue[id]
              \/ /\ states[id] = "RUNNING" /\ id = to
                 /\ QueueAfterPost(t)[id] = Append(queue[id], task)
  BY <1>1, <1>5, <1>6
<1> QED
  BY <1>2, <1>3, <1>4, <1>9, <1>10 DEF to, task

LEMMA EndPostKeepsThreads ==
  ASSUME ThreadsInv, NEW t \in Threads, NEW more \in Seq(Posts), EndPost(t, more)
  PROVE  ThreadsInv'
<1>1. /\ posting \in [Threads -> {NoPost, "locked", "unlocked"}]
      /\ \A x \in Threads : posting[x] = "locked" <=> lock = x
      /\ calls \in [Threads -> Seq(Posts)]
      /\ lock \in Threads \cup {Free}
  BY DEF ThreadsInv, ThreadsTypeOK, Posts
<1>2. /\ posting[t] # NoPost
      /\ queue' = QueueAfterPost(t)
      /\ calls' = [calls EXCEPT ![t] = Tail(@) \o more]
      /\ posting' = [posting EXCEPT ![t] = NoPost]
      /\ lock' = IF lock = t THEN Free ELSE lock
      /\ UNCHANGED <<states, task_runners, main, io>>
  BY DEF EndPost
<1>3. calls' \in [Threads -> Seq(Posts)]
  <2>1. Tail(calls[t]) \o more \in Seq(Posts)
    BY <1>2, QueueAfterPostTyped, ConcatProperties
  <2> QED
    BY <1>1, <1>2, <2>1
<1>4. queue' \in [IDs -> Seq(WellFormed)]
  BY <1>2, QueueAfterPostTyped
<1>5. posting' \in [Threads -> {NoPost, "locked", "unlocked"}] /\ lock' \in Threads \cup {Free}
  BY <1>1, <1>2
<1>6. \A x \in Threads : posting'[x] = "locked" <=> lock' = x
  BY <1>1, <1>2, IDFacts DEF NoPost
<1>7. ThreadsTypeOK(WellFormed)'
  BY <1>2, <1>3, <1>4, <1>5, <1>6 DEF ThreadsInv, ThreadsTypeOK, Posts
<1>8. StagesOK'
  BY <1>2 DEF ThreadsInv, StagesOK
<1>9. \A x \in Threads : x # t => calls'[x] = calls[x] /\ (Idle(x)' <=> Idle(x))
  BY <1>1, <1>2 DEF Idle
<1>10. ~Idle(t)
  BY <1>2 DEF ThreadsInv, PostingOK
<1>11. QuietOK'
  <2>1. io' = io /\ main' = main /\ QuietOK /\ StagesOK
    BY <1>2 DEF ThreadsInv
  <2>2. \A x \in Threads : Idle(x) => Idle(x)'
    BY <1>9, <1>10
  <2>3. io \in {"destroyed", "exited"} => queue'["IO"] = queue["IO"]
    <3>1. io \in {"destroyed", "exited"} => states["IO"] # "RUNNING"
      BY <2>1 DEF StagesOK
    <3> QED
      BY <1>2, <3>1, QueueAfterPostTyped, IDFacts
  <2>4. main = "exited" => queue'["UI"] = queue["UI"]
    <3>1. main = "exited" => states["UI"] # "RUNNING"
      BY <2>1 DEF StagesOK
    <3> QED
      BY <1>2, <3>1, QueueAfterPostTyped, IDFacts
  <2> QED
    BY <2>1, <2>2, <2>3, <2>4, IDFacts DEF QuietOK
<1>12. PostingOK'
  <2> SUFFICES ASSUME NEW x \in Threads
               PROVE  /\ posting'[x] # NoPost => ~Idle(x)'
                      /\ posting'[x] = "unlocked" => Outlives(x, Head(calls[x]).to)'
    BY DEF PostingOK
  <2>1. CASE x = t
    <3>1. posting'[x] = NoPost
      BY <1>1, <1>2, <2>1
    <3> QED
      BY <3>1 DEF NoPost
  <2>2. CASE x # t
    <3>1. calls'[x] = calls[x] /\ (Idle(x)' <=> Idle(x)) /\ posting'[x] = posting[x]
      BY <1>1, <1>2, <1>9, <2>2
    <3> QED
      BY <1>2, <3>1 DEF ThreadsInv, PostingOK, Outlives
  <2> QED
    BY <2>1, <2>2
<1> QED
  BY <1>7, <1>8, <1>11, <1>12 DEF ThreadsInv

(* A step of the main loop or of the IO thread that moves no task.             *)
StageStep ==
  \/ InitializeMainThread \/ CreateThreads \/ RegisterAsWebThread
  \/ StopIOThread \/ IOLoopEnds \/ CleanUp \/ IOThreadExits \/ JoinIOThread
  \/ ShutdownThreadPool \/ DestroyMainThread
  \/ /\ main = "pool_down" /\ main' = "sources_deleted"
     /\ UNCHANGED <<states, task_runners, lock, queue, calls, posting, io>>

LEMMA StageStepKeepsThreads ==
  ASSUME ThreadsInv, StageStep
  PROVE  ThreadsInv'
<1> DEFINE Fields == /\ states' \in [IDs -> {"UNINITIALIZED", "RUNNING", "SHUTDOWN"}]
                     /\ task_runners' \subseteq IDs /\ task_runners \subseteq task_runners'
                     /\ UNCHANGED <<lock, queue, calls, posting>>
                     /\ main' \in Stages
                     /\ io' \in {"off", "running", "quitting", "cleanup", "unregistered",
                                 "destroyed", "exited"}
<1>0. /\ states \in [IDs -> {"UNINITIALIZED", "RUNNING", "SHUTDOWN"}]
      /\ task_runners \subseteq IDs /\ main \in Stages
      /\ io \in {"off", "running", "quitting", "cleanup", "unregistered", "destroyed",
                 "exited"}
      /\ StagesOK /\ QuietOK
  BY DEF ThreadsInv, ThreadsTypeOK
<1>1. Fields /\ StagesOK' /\ QuietOK'
  <2>1. CASE InitializeMainThread
    BY <1>0, <2>1, IDFacts DEF InitializeMainThread, Register, Stages, StagesOK, QuietOK, Idle,
       BeforeIO, Up, Joined, Alone
  <2>2. CASE CreateThreads
    BY <1>0, <2>2, IDFacts DEF CreateThreads, Stages, StagesOK, QuietOK, Idle,
       BeforeIO, Up, Joined, Alone
  <2>3. CASE RegisterAsWebThread
    BY <1>0, <2>3, IDFacts DEF RegisterAsWebThread, Register, Stages, StagesOK, QuietOK, Idle,
       BeforeIO, Up, Joined, Alone
  <2>4. CASE StopIOThread
    BY <1>0, <2>4, IDFacts DEF StopIOThread, Stages, StagesOK, QuietOK, Idle,
       BeforeIO, Up, Joined, Alone
  <2>5. CASE IOLoopEnds
    BY <1>0, <2>5, IDFacts DEF IOLoopEnds, Stages, StagesOK, QuietOK, Idle,
       BeforeIO, Up, Joined, Alone
  <2>6. CASE CleanUp
    BY <1>0, <2>6, IDFacts DEF CleanUp, Unregister, Stages, StagesOK, QuietOK, Idle,
       BeforeIO, Up, Joined, Alone
  <2>7. CASE IOThreadExits
    BY <1>0, <2>7, IDFacts DEF IOThreadExits, Stages, StagesOK, QuietOK, Idle,
       BeforeIO, Up, Joined, Alone
  <2>8. CASE JoinIOThread
    BY <1>0, <2>8, IDFacts DEF JoinIOThread, Stages, StagesOK, QuietOK, Idle,
       BeforeIO, Up, Joined, Alone
  <2>9. CASE ShutdownThreadPool
    BY <1>0, <2>9, IDFacts DEF ShutdownThreadPool, Stages, StagesOK, QuietOK, Idle,
       BeforeIO, Up, Joined, Alone
  <2>10. CASE DestroyMainThread
    BY <1>0, <2>10, IDFacts DEF DestroyMainThread, Unregister, Stages, StagesOK, QuietOK, Idle,
       BeforeIO, Up, Joined, Alone
  <2>11. CASE /\ main = "pool_down" /\ main' = "sources_deleted"
              /\ UNCHANGED <<states, task_runners, lock, queue, calls, posting, io>>
    BY <1>0, <2>11, IDFacts DEF Stages, StagesOK, QuietOK, Idle,
       BeforeIO, Up, Joined, Alone
  <2> QED
    BY <2>1, <2>2, <2>3, <2>4, <2>5, <2>6, <2>7, <2>8, <2>9, <2>10, <2>11 DEF StageStep
<1>2. ThreadsTypeOK(WellFormed)'
  BY <1>1 DEF ThreadsInv, ThreadsTypeOK
<1>3. PostingOK'
  BY <1>1 DEF ThreadsInv, PostingOK, Outlives, Idle
<1> QED
  BY <1>1, <1>2, <1>3 DEF ThreadsInv

(* A step that gives an idle thread posts to make, and may move main.          *)
CallStep(t, p) ==
  /\ Idle(t) /\ calls' = [calls EXCEPT ![t] = p]
  /\ UNCHANGED <<states, task_runners, lock, queue, posting, io>>
  /\ \/ /\ t = "worker" /\ main' = main /\ main \notin Alone
     \/ t = "UI" /\ main = "running" /\ main' = "stopping"
     \/ t = "UI" /\ main = "stopping" /\ main' = "states_gone"

LEMMA CallStepKeepsThreads ==
  ASSUME ThreadsInv, NEW t \in Threads, NEW p \in Seq(Posts), CallStep(t, p)
  PROVE  ThreadsInv'
<1>1. calls \in [Threads -> Seq(Posts)] /\ main \in Stages
  BY DEF ThreadsInv, ThreadsTypeOK, Posts
<1>2. calls' \in [Threads -> Seq(Posts)] /\ main' \in Stages
  BY <1>1 DEF CallStep, Stages
<1>3. ThreadsTypeOK(WellFormed)'
  BY <1>2 DEF ThreadsInv, ThreadsTypeOK, CallStep, Posts
<1>4. StagesOK'
  BY DEF ThreadsInv, StagesOK, CallStep, BeforeIO, Up, Joined, Alone
<1>5. \A x \in Threads : x # t => calls'[x] = calls[x] /\ (Idle(x)' <=> Idle(x))
  BY <1>1 DEF CallStep, Idle
<1>6. QuietOK'
  <2>1. CASE t = "worker"
    BY <1>5, <2>1, IDFacts DEF CallStep, ThreadsInv, QuietOK
  <2>2. CASE t = "UI"
    BY <1>5, <2>2, IDFacts DEF CallStep, ThreadsInv, QuietOK, Joined, Alone
  <2> QED
    BY <2>1, <2>2 DEF CallStep
<1>7. PostingOK'
  <2> SUFFICES ASSUME NEW x \in Threads
               PROVE  /\ posting'[x] # NoPost => ~Idle(x)'
                      /\ posting'[x] = "unlocked" => Outlives(x, Head(calls[x]).to)'
    BY DEF PostingOK
  <2>1. posting' = posting /\ task_runners' = task_runners
    BY DEF CallStep
  <2>2. CASE x = t
    <3>1. posting[x] = NoPost
      BY <2>2 DEF CallStep, ThreadsInv, PostingOK
    <3> QED
      BY <2>1, <3>1 DEF NoPost
  <2>3. CASE x # t
    <3>1. calls'[x] = calls[x] /\ (Idle(x)' <=> Idle(x))
      BY <1>5, <2>3
    <3> QED
      BY <2>1, <3>1 DEF ThreadsInv, PostingOK, Outlives
  <2> QED
    BY <2>2, <2>3
<1> QED
  BY <1>3, <1>4, <1>6, <1>7 DEF ThreadsInv

LEMMA PlainTasks ==
  /\ Noop \in WellFormed
  /\ \A kind \in PlainKinds : Task(kind, None, None) \in WellFormed
  BY DEF Noop, Task, WellFormed, PlainKinds

LEMMA InitialPostKeepsThreads ==
  ASSUME ThreadsInv, PostCompleteInitialization(Noop)
  PROVE  ThreadsInv'
<1>1. queue \in [IDs -> Seq(WellFormed)] /\ queue["IO"] \in Seq(WellFormed)
  BY IDFacts DEF ThreadsInv, ThreadsTypeOK
<1>2. Append(queue["IO"], Noop) \in Seq(WellFormed)
  BY <1>1, PlainTasks, AppendProperties
<1>3. /\ main = "io_registered" /\ main' = "running"
      /\ queue' = [queue EXCEPT !["IO"] = Append(@, Noop)]
      /\ UNCHANGED <<states, task_runners, lock, calls, posting, io>>
  BY DEF PostCompleteInitialization
<1>4. queue' \in [IDs -> Seq(WellFormed)] /\ queue'["UI"] = queue["UI"] /\ main' \in Stages
  BY <1>1, <1>2, <1>3, IDFacts DEF Stages
<1>5. ThreadsTypeOK(WellFormed)'
  BY <1>3, <1>4 DEF ThreadsInv, ThreadsTypeOK
<1>6. StagesOK' /\ PostingOK'
  BY <1>3 DEF ThreadsInv, StagesOK, PostingOK, Idle, Outlives, BeforeIO, Up, Joined, Alone
<1>7. QuietOK'
  BY <1>3, <1>4 DEF ThreadsInv, StagesOK, QuietOK, Idle, Up, Joined, Alone
<1> QED
  BY <1>5, <1>6, <1>7 DEF ThreadsInv

LEMMA DestroyIOLoopKeepsThreads ==
  ASSUME ThreadsInv, NEW more \in Seq(Posts), DestroyIOLoop(more)
  PROVE  ThreadsInv'
<1>0. << >> \in Seq(WellFormed)
  OBVIOUS
<1>1. calls \in [Threads -> Seq(Posts)] /\ queue \in [IDs -> Seq(WellFormed)]
  BY DEF ThreadsInv, ThreadsTypeOK, Posts
<1>2. /\ io = "unregistered" /\ io' = "destroyed"
      /\ queue' = [queue EXCEPT !["IO"] = << >>]
      /\ calls' = [calls EXCEPT !["IO"] = more]
      /\ UNCHANGED <<states, task_runners, lock, posting, main>>
  BY DEF DestroyIOLoop
<1>3. /\ calls' \in [Threads -> Seq(Posts)] /\ queue' \in [IDs -> Seq(WellFormed)]
      /\ queue'["IO"] = << >> /\ queue'["UI"] = queue["UI"]
  BY <1>0, <1>1, <1>2, IDFacts
<1>4. ThreadsTypeOK(WellFormed)'
  BY <1>2, <1>3 DEF ThreadsInv, ThreadsTypeOK, Posts
<1>5. StagesOK'
  BY <1>2 DEF ThreadsInv, StagesOK, Up, Joined, Alone
<1>6. \A x \in Threads : x # "IO" => calls'[x] = calls[x] /\ (Idle(x)' <=> Idle(x))
  BY <1>1, <1>2 DEF Idle
<1>7. QuietOK'
  BY <1>2, <1>3, <1>6, IDFacts DEF ThreadsInv, QuietOK
<1>8. PostingOK'
  <2> SUFFICES ASSUME NEW x \in Threads
               PROVE  /\ posting'[x] # NoPost => ~Idle(x)'
                      /\ posting'[x] = "unlocked" => Outlives(x, Head(calls[x]).to)'
    BY DEF PostingOK
  <2>1. CASE x = "IO"
    <3>1. posting[x] = NoPost
      BY <1>2, <2>1 DEF ThreadsInv, PostingOK, QuietOK
    <3> QED
      BY <1>2, <3>1 DEF NoPost
  <2>2. CASE x # "IO"
    <3>1. calls'[x] = calls[x] /\ (Idle(x)' <=> Idle(x))
      BY <1>6, <2>2
    <3> QED
      BY <1>2, <3>1 DEF ThreadsInv, PostingOK, Outlives
  <2> QED
    BY <2>1, <2>2
<1> QED
  BY <1>4, <1>5, <1>7, <1>8 DEF ThreadsInv

LEMMA DestroyUILoopKeepsThreads ==
  ASSUME ThreadsInv, DestroyUILoop
  PROVE  ThreadsInv'
<1>1. queue \in [IDs -> Seq(WellFormed)] /\ << >> \in Seq(WellFormed)
  BY DEF ThreadsInv, ThreadsTypeOK
<1>2. /\ main = "unregistered" /\ main' = "exited"
      /\ queue' = [queue EXCEPT !["UI"] = << >>]
      /\ UNCHANGED <<states, task_runners, lock, calls, posting, io>>
  BY DEF DestroyUILoop
<1>3. /\ queue' \in [IDs -> Seq(WellFormed)] /\ main' \in Stages
      /\ queue'["UI"] = << >> /\ queue'["IO"] = queue["IO"]
  BY <1>1, <1>2, IDFacts DEF Stages
<1>4. ThreadsTypeOK(WellFormed)'
  BY <1>2, <1>3 DEF ThreadsInv, ThreadsTypeOK
<1>5. StagesOK' /\ PostingOK'
  BY <1>2 DEF ThreadsInv, StagesOK, PostingOK, Idle, Outlives, BeforeIO, Up, Joined, Alone
<1>6. QuietOK'
  BY <1>2, <1>3 DEF ThreadsInv, QuietOK, Idle, Up, Joined, Alone
<1> QED
  BY <1>4, <1>5, <1>6 DEF ThreadsInv
-----------------------------------------------------------------------------
(* What an action of the sources is for the threads.                           *)

LEMMA TaskFacts ==
  ASSUME NEW task \in WellFormed
  PROVE  /\ task \in [kind : Kinds, source : Sources \cup {None}, job : Jobs \cup {None}]
         /\ task.kind = "AddDataSourceOnIOThread" => task.source \in Sources
         /\ task.kind \in RequestKinds => task.source \in Sources /\ task.job \in Jobs
         /\ task.kind \in PlainKinds => task.source = None
<1>1. CASE task \in [kind : {"AddDataSourceOnIOThread"}, source : Sources, job : {None}]
  BY <1>1 DEF Kinds, RequestKinds, PlainKinds
<1>2. CASE task \in [kind : RequestKinds, source : Sources, job : Jobs]
  BY <1>2 DEF Kinds, RequestKinds, PlainKinds
<1>3. CASE task \in [kind : PlainKinds, source : {None}, job : {None}]
  BY <1>3 DEF Kinds, RequestKinds, PlainKinds
<1> QED
  BY <1>1, <1>2, <1>3 DEF WellFormed

LEMMA AnswerTasks ==
  ASSUME NEW task \in WellFormed, task.kind \in RequestKinds, NEW kind \in RequestKinds
  PROVE  [task EXCEPT !.kind = kind] \in WellFormed
<1>1. task \in [kind : RequestKinds, source : Sources, job : Jobs]
  BY DEF WellFormed, RequestKinds, PlainKinds
<1>2. [task EXCEPT !.kind = kind] \in [kind : RequestKinds, source : Sources, job : Jobs]
  BY <1>1
<1> QED
  BY <1>2 DEF WellFormed

LEMMA SinglePost ==
  ASSUME NEW to \in IDs, NEW task \in WellFormed
  PROVE  <<Post(to, task)>> \in Seq(Posts)
<1>1. Post(to, task) \in Posts
  BY DEF Post, Posts
<1> QED
  BY <1>1

LEMMA RequestPostsTyped ==
  ASSUME NEW s \in Sources, NEW j \in Jobs
  PROVE  RequestPosts(s, j) \in Seq(Posts)
<1>1. /\ Task("GetMimeTypeOnUI", s, j) \in WellFormed
      /\ Task("CallStartRequest", s, j) \in WellFormed
  BY DEF Task, WellFormed, RequestKinds
<1>2. /\ Post("UI", Task("GetMimeTypeOnUI", s, j)) \in Posts
      /\ Post("UI", Task("CallStartRequest", s, j)) \in Posts
  BY <1>1, IDFacts DEF Post, Posts
<1> QED
  BY <1>2 DEF RequestPosts

LEMMA DeletePostTyped ==
  ASSUME NEW t, NEW gone
  PROVE  DeletePost(t, gone) \in Seq(Posts)
<1>1. Task("DeleteDataSources", None, None) \in WellFormed
  BY PlainTasks DEF PlainKinds
<1>2. <<Post("UI", Task("DeleteDataSources", None, None))>> \in Seq(Posts)
  BY <1>1, SinglePost, IDFacts
<1>3. << >> \in Seq(Posts)
  OBVIOUS
<1> QED
  BY <1>2, <1>3 DEF DeletePost

(* A step of thread t that leaves the posts p, and those of a deletion, to     *)
(* make, q as the queues, r as the map and j as the requests.                  *)
Drop(t, q, p, r, j) ==
  LET gone == Released(r, j, q, [calls EXCEPT ![t] = p])
  IN /\ queue' = q
     /\ registered' = r /\ job' = j
     /\ DeleteDataSource(t, gone)
     /\ calls' = [calls EXCEPT ![t] = p \o DeletePost(t, gone)]

LEMMA HandledIsStep ==
  ASSUME NEW t \in IDs, NEW q, NEW p \in Seq(Posts), NEW r, NEW j,
         CanRun(t), q = queue \/ (queue[t] # << >> /\ q = Dequeued(t)),
         Handled(t, q, p, r, j)
  PROVE  /\ \E pp \in Seq(Posts) : HandlerStep(t, pp)
         /\ Drop(t, q, p, r, j)
         /\ UNCHANGED <<main, io>>
<1> DEFINE gone == Released(r, j, q, [calls EXCEPT ![t] = p])
           pp == p \o DeletePost(t, gone)
<1>1. pp \in Seq(Posts)
  BY DeletePostTyped, ConcatProperties
<1>2. /\ queue' = q /\ calls' = [calls EXCEPT ![t] = pp]
      /\ UNCHANGED <<states, task_runners, lock, posting, main, io>>
  BY DEF Handled
<1>3. Drop(t, q, p, r, j)
  BY DEF Handled, Drop
<1> HIDE DEF pp
<1>4. HandlerStep(t, pp)
  BY <1>2 DEF HandlerStep
<1> QED
  BY <1>1, <1>2, <1>3, <1>4
-----------------------------------------------------------------------------
(* Deletion of the sources whose last reference is gone.                       *)

LEMMA SetToSeqFacts ==
  ASSUME NEW S, IsFiniteSet(S)
  PROVE  SetToSeq(S) \in Seq(S) /\ IsInjective(SetToSeq(S)) /\ ToSet(SetToSeq(S)) = S
<1> DEFINE n == Cardinality(S)
           f == SetToSeq(S)
<1>1. n \in Nat /\ ExistsBijection(1..n, S)
  BY FS_CardinalityType
<1>2. PICK g : g \in Bijection(1..n, S)
  BY <1>1 DEF ExistsBijection
<1>3. g \in [1..n -> S] /\ IsInjective(g)
  BY <1>2 DEF Bijection, Injection
<1>4. f \in [1..n -> S] /\ IsInjective(f)
  BY <1>3 DEF SetToSeq
<1> HIDE DEF f
<1>5. f \in Injection(1..n, S)
  BY <1>4 DEF Injection
<1>6. IsFiniteSet(1..n) /\ Cardinality(1..n) = n
  BY <1>1, FS_Interval
<1>7. f \in Surjection(1..n, S)
  BY <1>5, <1>6, FS_Injection
<1>8. ToSet(f) = S
  BY <1>4, <1>7 DEF Surjection, ToSet
<1>9. f \in Seq(S)
  BY <1>1, <1>4
<1> QED
  BY <1>4, <1>8, <1>9 DEF f

LEMMA ConcatInjective ==
  ASSUME NEW S, NEW a \in Seq(S), NEW b \in Seq(S), IsInjective(a), IsInjective(b),
         \A x \in ToSet(a) : x \notin ToSet(b)
  PROVE  a \o b \in Seq(S) /\ IsInjective(a \o b) /\ ToSet(a \o b) = ToSet(a) \cup ToSet(b)
<1> DEFINE c == a \o b
<1>1. /\ Len(a) \in Nat /\ DOMAIN a = 1..Len(a) /\ Len(b) \in Nat /\ DOMAIN b = 1..Len(b)
  BY LenProperties
<1>2. /\ c \in Seq(S) /\ Len(c) = Len(a) + Len(b)
      /\ \A i \in 1..(Len(a) + Len(b)) : c[i] = IF i <= Len(a) THEN a[i] ELSE b[i - Len(a)]
  BY ConcatProperties
<1> HIDE DEF c
<1>3. DOMAIN c = 1..(Len(a) + Len(b))
  BY <1>2, LenProperties
<1>4. \A i \in DOMAIN c : \/ i \in DOMAIN a /\ c[i] = a[i]
                          \/ i > Len(a) /\ i - Len(a) \in DOMAIN b /\ c[i] = b[i - Len(a)]
  BY <1>1, <1>2, <1>3
<1>5. /\ \A i \in DOMAIN a : i \in DOMAIN c /\ c[i] = a[i]
      /\ \A i \in DOMAIN b : i + Len(a) \in DOMAIN c /\ c[i + Len(a)] = b[i]
  BY <1>1, <1>2, <1>3
<1>6. ToSet(c) = ToSet(a) \cup ToSet(b)
  <2>1. ToSet(c) \subseteq ToSet(a) \cup ToSet(b)
    BY <1>4 DEF ToSet
  <2>2. ToSet(a) \cup ToSet(b) \subseteq ToSet(c)
    BY <1>5 DEF ToSet
  <2> QED
    BY <2>1, <2>2
<1>7. IsInjective(c)
  <2> SUFFICES ASSUME NEW i \in DOMAIN c, NEW k \in DOMAIN c, c[i] = c[k]
               PROVE  i = k
    BY DEF IsInjective
  <2>1. CASE i \in DOMAIN a /\ c[i] = a[i] /\ k \in DOMAIN a /\ c[k] = a[k]
    BY <2>1 DEF IsInjective
  <2>2. CASE /\ i - Len(a) \in DOMAIN b /\ c[i] = b[i - Len(a)]
             /\ k - Len(a) \in DOMAIN b /\ c[k] = b[k - Len(a)]
    <3>1. i - Len(a) = k - Len(a)
      BY <2>2 DEF IsInjective
    <3> QED
      BY <1>1, <1>3, <3>1
  <2>3. CASE i \in DOMAIN a /\ c[i] = a[i] /\ k - Len(a) \in DOMAIN b /\ c[k] = b[k - Len(a)]
    <3>1. c[i] \in ToSet(a) /\ c[k] \in ToSet(b)
      BY <2>3 DEF ToSet
    <3> QED
      BY <3>1
  <2>4. CASE i - Len(a) \in DOMAIN b /\ c[i] = b[i - Len(a)] /\ k \in DOMAIN a /\ c[k] = a[k]
    <3>1. c[k] \in ToSet(a) /\ c[i] \in ToSet(b)
      BY <2>4 DEF ToSet
    <3> QED
      BY <3>1
  <2> QED
    BY <1>4, <2>1, <2>2, <2>3, <2>4
<1> QED
  BY <1>2, <1>6, <1>7 DEF c

(* The types of the list, and that it holds what was scheduled.                *)
ListTyped ==
  /\ source \in [Sources -> {"new", "alive", "scheduled", "deleted"}]
  /\ data_sources \in Seq(Sources) /\ IsInjective(data_sources)
  /\ ToSet(data_sources) = {s \in Sources : source[s] = "scheduled"}

LEMMA DeleteFacts ==
  ASSUME ListTyped, NEW t, NEW gone \in SUBSET {s \in Sources : source[s] = "alive"},
         DeleteDataSource(t, gone)
  PROVE  /\ ListTyped'
         /\ t = "UI" => data_sources' = data_sources
         /\ \A s \in Sources : source'[s] = "alive" => source[s] = "alive" /\ s \notin gone
<1>1. /\ source' = [s \in Sources |-> IF s \notin gone THEN source[s]
                                      ELSE IF t = "UI" THEN "deleted" ELSE "scheduled"]
      /\ data_sources' = IF t = "UI" THEN data_sources ELSE data_sources \o SetToSeq(gone)
  BY DEF DeleteDataSource
<1>2. source' \in [Sources -> {"new", "alive", "scheduled", "deleted"}]
  BY <1>1 DEF ListTyped
<1>3. \A s \in Sources : source'[s] = "alive" => source[s] = "alive" /\ s \notin gone
  BY <1>1
<1>4. CASE t = "UI"
  <2>1. {s \in Sources : source'[s] = "scheduled"} = {s \in Sources : source[s] = "scheduled"}
    BY <1>1, <1>4
  <2>2. ListTyped'
    BY <1>1, <1>2, <1>4, <2>1 DEF ListTyped
  <2> QED
    BY <1>1, <1>3, <1>4, <2>2
<1>5. CASE t # "UI"
  <2>1. IsFiniteSet(gone) /\ gone \subseteq Sources
    BY SourcesAssumption, FS_Subset
  <2> DEFINE b == SetToSeq(gone)
  <2>2. b \in Seq(gone) /\ IsInjective(b) /\ ToSet(b) = gone
    BY <2>1, SetToSeqFacts
  <2> HIDE DEF b
  <2>3. b \in Seq(Sources)
    BY <2>1, <2>2
  <2>4. data_sources' = data_sources \o b
    BY <1>1, <1>5 DEF b
  <2>5. \A x \in ToSet(data_sources) : x \notin ToSet(b)
    BY <2>2 DEF ListTyped
  <2>6. /\ data_sources' \in Seq(Sources) /\ IsInjective(data_sources')
        /\ ToSet(data_sources') = ToSet(data_sources) \cup gone
    BY <2>2, <2>3, <2>4, <2>5, ConcatInjective DEF ListTyped
  <2>7. {s \in Sources : source'[s] = "scheduled"}
          = {s \in Sources : source[s] = "scheduled"} \cup gone
    BY <1>1, <1>5, <2>1
  <2>8. ToSet(data_sources)' = {s \in Sources : source'[s] = "scheduled"}
    BY <2>6, <2>7 DEF ListTyped, ToSet
  <2>9. ListTyped'
    BY <1>2, <2>6, <2>8 DEF ListTyped
  <2> QED
    BY <1>3, <1>5, <2>9
<1> QED
  BY <1>4, <1>5

LEMMA TasksInFacts ==
  ASSUME NEW q, NEW c, NEW task
  PROVE  task \in TasksIn(q, c) <=>
           \/ \E id \in IDs : task \in ToSet(q[id])
           \/ \E t \in Threads : \E call \in ToSet(c[t]) : task = call.task
<1> DEFINE Of(t) == {call.task : call \in ToSet(c[t])}
<1>1. TasksIn(q, c) = (UNION {ToSet(q[id]) : id \in IDs}) \cup (UNION {Of(t) : t \in Threads})
  BY DEF TasksIn
<1>2. \A t \in Threads : task \in Of(t) <=> \E call \in ToSet(c[t]) : task = call.task
  OBVIOUS
<1> HIDE DEF Of
<1>3. task \in UNION {Of(t) : t \in Threads} <=> \E t \in Threads : task \in Of(t)
  OBVIOUS
<1>4. task \in UNION {ToSet(q[id]) : id \in IDs} <=> \E id \in IDs : task \in ToSet(q[id])
  OBVIOUS
<1> QED
  BY <1>1, <1>2, <1>3, <1>4

(* Further posts of a thread only add tasks.                                   *)
LEMMA TasksGrow ==
  ASSUME NEW t \in Threads, NEW q, NEW c \in [Threads -> Seq(Posts)],
         NEW p \in Seq(Posts), NEW more \in Seq(Posts)
  PROVE  TasksIn(q, [c EXCEPT ![t] = p]) \subseteq TasksIn(q, [c EXCEPT ![t] = p \o more])
<1> DEFINE c1 == [c EXCEPT ![t] = p]
           c2 == [c EXCEPT ![t] = p \o more]
<1>1. ASSUME NEW x \in Threads, NEW call \in ToSet(c1[x])
      PROVE  call \in ToSet(c2[x])
  <2>1. CASE x # t
    BY <1>1, <2>1
  <2>2. CASE x = t
    <3>1. c1[x] = p /\ c2[x] = p \o more
      BY <2>2
    <3>2. PICK i \in DOMAIN p : call = p[i]
      BY <1>1, <3>1 DEF ToSet
    <3>3. DOMAIN p = 1..Len(p) /\ Len(p) \in Nat /\ Len(more) \in Nat
      BY LenProperties
    <3>4. /\ p \o more \in Seq(Posts) /\ Len(p \o more) = Len(p) + Len(more)
          /\ (p \o more)[i] = p[i]
      BY <3>2, <3>3, ConcatProperties
    <3>5. i \in DOMAIN (p \o more)
      BY <3>2, <3>3, <3>4, LenProperties
    <3> QED
      BY <3>1, <3>2, <3>4, <3>5 DEF ToSet
  <2> QED
    BY <2>1, <2>2
<1> HIDE DEF c1, c2
<1>2. ASSUME NEW task \in TasksIn(q, c1)
      PROVE  task \in TasksIn(q, c2)
  <2>1. CASE \E id \in IDs : task \in ToSet(q[id])
    BY <2>1, TasksInFacts
  <2>2. ASSUME NEW x \in Threads, NEW call \in ToSet(c1[x]), task = call.task
        PROVE  task \in TasksIn(q, c2)
    <3>1. call \in ToSet(c2[x])
      BY <1>1, <2>2
    <3> QED
      BY <2>2, <3>1, TasksInFacts
  <2>3. \/ \E id \in IDs : task \in ToSet(q[id])
        \/ \E x \in Threads : \E call \in ToSet(c1[x]) : task = call.task
    BY <1>2, TasksInFacts
  <2> QED
    BY <2>1, <2>2, <2>3
<1> QED
  BY <1>2 DEF c1, c2

LEMMA DropKeeps ==
  ASSUME ListTyped, calls \in [Threads -> Seq(Posts)], NEW t \in Threads,
         NEW q, NEW p \in Seq(Posts), NEW r, NEW j, Drop(t, q, p, r, j)
  PROVE  ListTyped' /\ ReferencedOK' /\ (t = "UI" => data_sources' = data_sources)
<1> DEFINE c == [calls EXCEPT ![t] = p]
           gone == Released(r, j, q, c)
<1>1. /\ queue' = q /\ registered' = r /\ job' = j
      /\ DeleteDataSource(t, gone)
      /\ calls' = [calls EXCEPT ![t] = p \o DeletePost(t, gone)]
  BY DEF Drop
<1>2. gone \in SUBSET {s \in Sources : source[s] = "alive"}
  BY DEF Released
<1>3. \A s \in Sources : source[s] = "alive" /\ s \notin gone => Held(s, r, j, q, c)
  BY DEF Released, Held
<1>4. DeletePost(t, gone) \in Seq(Posts)
  BY DeletePostTyped
<1>5. TasksIn(q, c) \subseteq TasksIn(q, calls')
  BY <1>1, <1>4, TasksGrow
<1> HIDE DEF gone, c
<1>6. /\ ListTyped' /\ (t = "UI" => data_sources' = data_sources)
      /\ \A s \in Sources : source'[s] = "alive" => source[s] = "alive" /\ s \notin gone
  BY <1>1, <1>2, DeleteFacts
<1>7. \A s \in Sources : source'[s] = "alive" => Held(s, r, j, q, calls')
  BY <1>3, <1>5, <1>6 DEF Held
<1>8. ReferencedOK'
  BY <1>1, <1>7 DEF ReferencedOK, Held, TasksIn
<1> QED
  BY <1>6, <1>8
-----------------------------------------------------------------------------
(* The task that deletes the requests.                                         *)

LEMMA TailKeepsElement ==
  ASSUME NEW S, NEW q \in Seq(S), q # << >>, NEW i \in DOMAIN q, q[i] # Head(q)
  PROVE  \E k \in DOMAIN Tail(q) : Tail(q)[k] = q[i]
<1>1. /\ Len(q) \in Nat \ {0} /\ DOMAIN q = 1..Len(q)
  BY LenProperties, EmptySeq
<1>2. /\ Head(q) = q[1]
      /\ Tail(q) \in Seq(S) /\ Len(Tail(q)) = Len(q) - 1
      /\ \A k \in 1..(Len(q) - 1) : Tail(q)[k] = q[k + 1]
  BY <1>1, HeadTailProperties
<1>3. DOMAIN Tail(q) = 1..(Len(q) - 1)
  BY <1>2, LenProperties
<1>4. i # 1
  BY <1>2
<1>5. i - 1 \in 1..(Len(q) - 1) /\ (i - 1) + 1 = i
  BY <1>1, <1>4
<1>6. Tail(q)[i - 1] = q[i]
  BY <1>2, <1>5
<1> QED
  BY <1>3, <1>5, <1>6

LEMMA AppendKeepsElements ==
  ASSUME NEW S, NEW q \in Seq(S), NEW e \in S
  PROVE  /\ \A i \in DOMAIN q : i \in DOMAIN Append(q, e) /\ Append(q, e)[i] = q[i]
         /\ Len(q) + 1 \in DOMAIN Append(q, e) /\ Append(q, e)[Len(q) + 1] = e
<1>1. Len(q) \in Nat /\ DOMAIN q = 1..Len(q)
  BY LenProperties
<1>2. /\ DOMAIN Append(q, e) = 1..(Len(q) + 1)
      /\ \A i \in 1..Len(q) : Append(q, e)[i] = q[i]
      /\ Append(q, e)[Len(q) + 1] = e
  BY <1>1, AppendProperties, LenProperties
<1> QED
  BY <1>1, <1>2

LEMMA HandlerKeepsNetwork ==
  ASSUME ThreadsInv, NetworkOK, NEW t \in IDs, NEW p \in Seq(Posts), HandlerStep(t, p),
         JobsGone => JobsGone',
         \/ queue' = queue \/ t = "UI" \/ JobsGone'
         \/ ~IsContextTask(Head(queue["IO"]))
  PROVE  NetworkOK'
<1> SUFFICES ASSUME main' \in {"states_gone", "joining"} \cup Joined, ~JobsGone'
             PROVE  (ContextCalled \/ (ContextQueued /\ io \in {"running", "quitting"}))'
  BY DEF NetworkOK
<1>1. main' = main /\ io' = io /\ calls' = [calls EXCEPT ![t] = p]
  BY DEF HandlerStep
<1>2. t = "IO"
  <2>1. main # "running"
    BY <1>1 DEF Joined, Alone
  <2> QED
    BY <2>1, IDFacts DEF HandlerStep, CanRun
<1>3. calls'["UI"] = calls["UI"]
  BY <1>1, <1>2, IDFacts DEF ThreadsInv, ThreadsTypeOK
<1>4. ContextCalled \/ (ContextQueued /\ io \in {"running", "quitting"})
  BY <1>1 DEF NetworkOK
<1>5. CASE ContextCalled
  BY <1>3, <1>5 DEF ContextCalled
<1>6. CASE ContextQueued /\ io \in {"running", "quitting"}
  <2>1. CASE queue' = queue
    BY <1>1, <1>6, <2>1 DEF ContextQueued
  <2>2. CASE queue' # queue
    <3>1. /\ queue["IO"] # << >> /\ queue' = [queue EXCEPT !["IO"] = Tail(@)]
          /\ ~IsContextTask(Head(queue["IO"]))
      BY <1>2, <2>2, IDFacts DEF HandlerStep, Dequeued
    <3>2. queue["IO"] \in Seq(WellFormed) /\ queue'["IO"] = Tail(queue["IO"])
      BY <3>1, IDFacts DEF ThreadsInv, ThreadsTypeOK
    <3>3. PICK i \in DOMAIN queue["IO"] : IsContextTask(queue["IO"][i])
      BY <1>6 DEF ContextQueued
    <3>4. queue["IO"][i] # Head(queue["IO"])
      BY <3>1, <3>3
    <3>5. \E k \in DOMAIN Tail(queue["IO"]) : Tail(queue["IO"])[k] = queue["IO"][i]
      BY <3>1, <3>2, <3>4, TailKeepsElement
    <3>6. \E k \in DOMAIN queue'["IO"] : IsContextTask(queue'["IO"][k])
      BY <3>2, <3>3, <3>5
    <3> QED
      BY <1>1, <1>6, <3>6 DEF ContextQueued, IsContextTask
  <2> QED
    BY <2>1, <2>2
<1> QED
  BY <1>4, <1>5, <1>6

LEMMA PostKeepsNetwork ==
  ASSUME ThreadsInv, NetworkOK, NEW t \in Threads, NEW more \in Seq(Posts), EndPost(t, more),
         job' = job
  PROVE  NetworkOK'
<1> SUFFICES ASSUME main' \in {"states_gone", "joining"} \cup Joined, ~JobsGone'
             PROVE  (ContextCalled \/ (ContextQueued /\ io \in {"running", "quitting"}))'
  BY DEF NetworkOK
<1>1. /\ posting[t] # NoPost
      /\ main' = main /\ io' = io /\ calls' = [calls EXCEPT ![t] = Tail(@) \o more]
      /\ queue' = QueueAfterPost(t)
  BY DEF EndPost
<1>2. ~JobsGone
  BY DEF JobsGone
<1>3. ContextCalled \/ (ContextQueued /\ io \in {"running", "quitting"})
  BY <1>1, <1>2 DEF NetworkOK
<1>4. /\ calls \in [Threads -> Seq(Posts)] /\ queue \in [IDs -> Seq(WellFormed)]
      /\ queue["IO"] \in Seq(WellFormed)
  BY IDFacts DEF ThreadsInv, ThreadsTypeOK, Posts
<1> DEFINE task == Head(calls[t]).task
           to == Head(calls[t]).to
<1>5. /\ calls[t] # << >> /\ Tail(calls[t]) \in Seq(Posts) /\ Head(calls[t]) \in Posts
      /\ to \in IDs /\ task \in WellFormed
  BY <1>1, QueueAfterPostTyped
<1>6. CASE ContextQueued /\ io \in {"running", "quitting"}
  <2>1. PICK i \in DOMAIN queue["IO"] : IsContextTask(queue["IO"][i])
    BY <1>6 DEF ContextQueued
  <2>2. queue'["IO"] = queue["IO"] \/ queue'["IO"] = Append(queue["IO"], task)
    BY <1>1, QueueAfterPostTyped, IDFacts
  <2> HIDE DEF task
  <2>3. i \in DOMAIN queue'["IO"] /\ queue'["IO"][i] = queue["IO"][i]
    BY <1>4, <1>5, <2>1, <2>2, AppendKeepsElements
  <2>4. IsContextTask(queue'["IO"][i])
    BY <2>1, <2>3
  <2> QED
    BY <1>1, <1>6, <2>3, <2>4 DEF ContextQueued, IsContextTask
<1>7. CASE ContextCalled
  <2>1. PICK i \in DOMAIN calls["UI"] : calls["UI"][i].to = "IO" /\ IsContextTask(calls["UI"][i].task)
    BY <1>7 DEF ContextCalled
  <2>2. CASE t # "UI"
    <3>1. calls'["UI"] = calls["UI"]
      BY <1>1, <1>4, <2>2, IDFacts
    <3> QED
      BY <1>7, <3>1 DEF ContextCalled
  <2>3. CASE t = "UI"
    <3>0. calls["UI"] # << >> /\ calls["UI"] \in Seq(Posts)
      BY <1>4, <1>5, <2>3, IDFacts
    <3>1. CASE calls["UI"][i] # Head(calls["UI"])
      <4>1. PICK k \in DOMAIN Tail(calls["UI"]) : Tail(calls["UI"])[k] = calls["UI"][i]
        BY <2>1, <3>0, <3>1, TailKeepsElement
      <4> DEFINE tl == Tail(calls["UI"])
      <4>2. tl \in Seq(Posts)
        BY <3>0, SeqParts
      <4>3. calls'["UI"] = tl \o more
        BY <1>1, <1>4, <2>3, IDFacts
      <4> HIDE DEF tl
      <4>4. /\ Len(tl) \in Nat /\ DOMAIN tl = 1..Len(tl) /\ Len(more) \in Nat
            /\ DOMAIN (tl \o more) = 1..(Len(tl) + Len(more))
            /\ \A n \in 1..Len(tl) : (tl \o more)[n] = tl[n]
        BY <4>2, LenProperties, ConcatProperties
      <4>5. k \in DOMAIN calls'["UI"] /\ calls'["UI"][k] = calls["UI"][i]
        BY <4>1, <4>3, <4>4 DEF tl
      <4>6. calls'["UI"][k].to = "IO" /\ IsContextTask(calls'["UI"][k].task)
        BY <2>1, <4>5
      <4> QED
        BY <4>5, <4>6 DEF ContextCalled, IsContextTask
    <3>2. CASE calls["UI"][i] = Head(calls["UI"])
      <4>1. to = "IO" /\ IsContextTask(task)
        BY <2>1, <2>3, <3>2
      <4>2. ~Idle("UI")
        BY <3>0 DEF Idle
      <4>3. main = "states_gone"
        BY <1>1, <4>2 DEF ThreadsInv, QuietOK
      <4>4. io = "running" /\ states["IO"] = "RUNNING"
        BY <4>3 DEF ThreadsInv, StagesOK, Up, BeforeIO
      <4>5. queue'["IO"] = Append(queue["IO"], task)
        <5>1. queue' = IF states[to] = "RUNNING"
                         THEN [queue EXCEPT ![to] = Append(@, task)] ELSE queue
          BY <1>1 DEF QueueAfterPost
        <5>2. queue' = [queue EXCEPT !["IO"] = Append(@, task)]
          BY <4>1, <4>4, <5>1
        <5> HIDE DEF task
        <5> QED
          BY <1>4, <5>2, IDFacts
      <4> HIDE DEF task
      <4> DEFINE k == Len(queue["IO"]) + 1
      <4>6. k \in DOMAIN queue'["IO"] /\ queue'["IO"][k] = task
        <5>1. task \in WellFormed
          BY <1>5
        <5>2. k \in DOMAIN Append(queue["IO"], task) /\ Append(queue["IO"], task)[k] = task
          BY <1>4, <5>1, AppendKeepsElements
        <5> QED
          BY <4>5, <5>2
      <4> HIDE DEF k
      <4>7. IsContextTask(queue'["IO"][k])
        BY <4>1, <4>6
      <4> QED
        BY <1>1, <4>4, <4>6, <4>7 DEF ContextQueued, IsContextTask
    <3> QED
      BY <3>1, <3>2
  <2> QED
    BY <2>2, <2>3
<1> QED
  BY <1>3, <1>6, <1>7
-----------------------------------------------------------------------------
(* Every action keeps the invariant.                                           *)

SourceJobs == [Jobs -> [phase : {"idle", "pending", "answered", "failed", "killed"},
                        source : Sources \cup {None},
                        asked : Sources \cup {None}]]

Inv == ThreadsInv /\ SourcesInv

LEMMA InvFacts ==
  ASSUME Inv
  PROVE  /\ ThreadsInv /\ NetworkOK /\ BackendOK /\ ListTyped /\ ReferencedOK
         /\ calls \in [Threads -> Seq(Posts)] /\ queue \in [IDs -> Seq(WellFormed)]
         /\ registered \in Sources \cup {None} /\ attached \subseteq Sources
         /\ backend \in {"none", "live", "deleted"} /\ job \in SourceJobs
         /\ main \in {"sources_deleted", "unregistered", "exited"} => data_sources = << >>
<1>1. ThreadsInv /\ NetworkOK /\ BackendOK /\ ListTyped /\ ReferencedOK
  BY DEF Inv, SourcesInv, DataTypes, ListedOK, ListTyped
<1>2. calls \in [Threads -> Seq(Posts)] /\ queue \in [IDs -> Seq(WellFormed)]
  BY DEF Inv, ThreadsInv, ThreadsTypeOK, Posts
<1>3. /\ registered \in Sources \cup {None} /\ attached \subseteq Sources
      /\ backend \in {"none", "live", "deleted"} /\ job \in SourceJobs
      /\ main \in {"sources_deleted", "unregistered", "exited"} => data_sources = << >>
  BY DEF Inv, SourcesInv, DataTypes, ListedOK, SourceJobs
<1> QED
  BY <1>1, <1>2, <1>3

LEMMA HandledKeeps ==
  ASSUME Inv, NEW t \in IDs, NEW q, NEW p \in Seq(Posts), NEW r \in Sources \cup {None},
         NEW j \in SourceJobs, CanRun(t),
         q = queue \/ (queue[t] # << >> /\ q = Dequeued(t)),
         Handled(t, q, p, r, j),
         attached' \subseteq Sources, attached' \subseteq {r}, r # None => backend' = "live",
         backend' \in {"none", "live", "deleted"},
         JobsGone => JobsGone',
         q = queue \/ t = "UI" \/ JobsGone' \/ ~IsContextTask(Head(queue["IO"]))
  PROVE  Inv'
<1>1. /\ ThreadsInv /\ NetworkOK /\ ListTyped /\ calls \in [Threads -> Seq(Posts)]
      /\ main \in {"sources_deleted", "unregistered", "exited"} => data_sources = << >>
  BY InvFacts
<1>2. PICK pp \in Seq(Posts) : HandlerStep(t, pp)
  BY HandledIsStep
<1>3. Drop(t, q, p, r, j) /\ UNCHANGED <<main, io>>
  BY HandledIsStep
<1>4. queue' = q /\ registered' = r /\ job' = j
  BY <1>3 DEF Drop
<1>5. ThreadsInv'
  BY <1>1, <1>2, HandlerKeepsThreads
<1>6. NetworkOK'
  <2>1. queue' = queue \/ t = "UI" \/ JobsGone' \/ ~IsContextTask(Head(queue["IO"]))
    BY <1>4
  <2> QED
    BY <1>1, <1>2, <2>1, HandlerKeepsNetwork
<1>7. ListTyped' /\ ReferencedOK'
  BY <1>1, <1>3, DropKeeps, IDFacts
<1>8. main' \notin {"sources_deleted", "unregistered", "exited"}
  <2>1. CASE t = "UI"
    BY <1>3, <2>1 DEF CanRun
  <2>2. CASE t = "IO"
    <3>1. io \in {"running", "quitting"}
      BY <2>2 DEF CanRun
    <3> QED
      BY <1>1, <1>3, <3>1 DEF ThreadsInv, StagesOK, Joined, Alone
  <2> QED
    BY <2>1, <2>2, IDFacts
<1>9. DataTypes'
  BY <1>4, <1>7 DEF DataTypes, ListTyped, SourceJobs
<1>10. ListedOK' /\ BackendOK'
  BY <1>4, <1>7, <1>8 DEF ListedOK, ListTyped, BackendOK
<1> QED
  BY <1>5, <1>6, <1>7, <1>9, <1>10 DEF Inv, SourcesInv

LEMMA AddDataSourceOnIOThreadKeeps ==
  ASSUME Inv, AddDataSourceOnIOThread
  PROVE  Inv'
<1> DEFINE s == Head(queue["IO"]).source
           r == IF registered = None \/ s \in Replacing THEN s ELSE registered
<1>1. /\ CanRun("IO") /\ queue["IO"] # << >>
      /\ Head(queue["IO"]).kind = "AddDataSourceOnIOThread"
  BY DEF AddDataSourceOnIOThread, Next1
<1>2. Head(queue["IO"]) \in WellFormed
  BY <1>1, QueueTyped, IDFacts DEF Inv, ThreadsInv
<1>3. s \in Sources
  BY <1>1, <1>2, TaskFacts
<1>4. /\ attached' = IF registered = None \/ s \in Replacing
                       THEN AttachedAfterAdding(s) ELSE attached
      /\ Handled("IO", Dequeued("IO"), << >>, r, job)
      /\ backend' = "live"
  BY DEF AddDataSourceOnIOThread
<1> HIDE DEF s
<1>5. r \in Sources \cup {None} /\ attached' \subseteq Sources /\ attached' \subseteq {r}
  BY <1>3, <1>4, InvFacts DEF AttachedAfterAdding, BackendOK
<1>6. ~IsContextTask(Head(queue["IO"]))
  BY <1>1 DEF IsContextTask
<1>7. job' = job
  BY <1>4 DEF Handled
<1>8. JobsGone => JobsGone'
  BY <1>7 DEF JobsGone
<1>9. << >> \in Seq(Posts) /\ job \in SourceJobs
  BY InvFacts
<1> HIDE DEF r
<1> QED
  BY <1>1, <1>4, <1>5, <1>6, <1>8, <1>9, HandledKeeps, IDFacts

LEMMA PlainHandledKeeps ==
  ASSUME Inv, NEW t \in IDs, NEW q, NEW p \in Seq(Posts),
         NEW j \in SourceJobs, CanRun(t),
         q = queue \/ (queue[t] # << >> /\ q = Dequeued(t)),
         Handled(t, q, p, registered, j),
         UNCHANGED <<attached, backend>>,
         JobsGone => JobsGone',
         q = queue \/ t = "UI" \/ JobsGone' \/ ~IsContextTask(Head(queue["IO"]))
  PROVE  Inv'
<1>1. /\ registered \in Sources \cup {None} /\ attached' \subseteq Sources
      /\ attached' \subseteq {registered} /\ (registered # None => backend' = "live")
      /\ backend' \in {"none", "live", "deleted"}
  BY InvFacts DEF BackendOK
<1> QED
  BY <1>1, HandledKeeps

LEMMA HeadFacts ==
  ASSUME Inv, NEW t \in IDs, NEW kind, Next1(t, kind)
  PROVE  /\ CanRun(t) /\ queue[t] # << >> /\ Head(queue[t]) \in WellFormed
         /\ Head(queue[t]).kind = kind
         /\ kind # "DeleteNetworkContext" => ~IsContextTask(Head(queue[t]))
<1>1. CanRun(t) /\ queue[t] # << >> /\ Head(queue[t]).kind = kind
  BY DEF Next1
<1>2. Head(queue[t]) \in WellFormed
  BY <1>1, QueueTyped DEF Inv, ThreadsInv
<1> QED
  BY <1>1, <1>2 DEF IsContextTask

LEMMA NoPosts == << >> \in Seq(Posts)
  OBVIOUS

LEMMA RunNoopKeeps ==
  ASSUME Inv, NEW t \in IDs, RunNoop(t)
  PROVE  Inv'
<1>1. /\ Next1(t, "noop") /\ Handled(t, Dequeued(t), << >>, registered, job)
      /\ UNCHANGED <<attached, backend>>
  BY DEF RunNoop
<1>2. CanRun(t) /\ queue[t] # << >> /\ ~IsContextTask(Head(queue[t]))
  BY <1>1, HeadFacts
<1>3. t = "UI" \/ ~IsContextTask(Head(queue["IO"]))
  BY <1>2, IDFacts
<1>4. job \in SourceJobs
  BY InvFacts
<1>5. JobsGone => JobsGone'
  BY <1>1 DEF Handled, JobsGone
<1> QED
  BY <1>1, <1>2, <1>3, <1>4, <1>5, NoPosts, PlainHandledKeeps

LEMMA AnswerOnUIKeeps ==
  ASSUME Inv, GetMimeTypeOnUI \/ CallStartRequest
  PROVE  Inv'
<1> DEFINE task == Head(queue["UI"])
<1>1. PICK kind \in RequestKinds :
        /\ Next1("UI", "GetMimeTypeOnUI") \/ Next1("UI", "CallStartRequest")
        /\ Handled("UI", Dequeued("UI"), <<Post("IO", [task EXCEPT !.kind = kind])>>,
                   registered, job)
        /\ UNCHANGED <<attached, backend>>
  BY DEF GetMimeTypeOnUI, CallStartRequest, RequestKinds
<1>2. CanRun("UI") /\ queue["UI"] # << >> /\ task \in WellFormed /\ task.kind \in RequestKinds
  BY <1>1, HeadFacts, IDFacts DEF RequestKinds
<1>3. <<Post("IO", [task EXCEPT !.kind = kind])>> \in Seq(Posts)
  BY <1>2, AnswerTasks, SinglePost, IDFacts
<1>4. job \in SourceJobs
  BY InvFacts
<1>5. JobsGone => JobsGone'
  BY <1>1 DEF Handled, JobsGone
<1> HIDE DEF task
<1> QED
  BY <1>1, <1>2, <1>3, <1>4, <1>5, PlainHandledKeeps, IDFacts

LEMMA MimeTypeAvailableKeeps ==
  ASSUME Inv, MimeTypeAvailable
  PROVE  Inv'
<1> DEFINE task == Head(queue["IO"])
<1>1. /\ Next1("IO", "MimeTypeAvailable") /\ UNCHANGED <<attached, backend>>
      /\ \E html \in BOOLEAN :
           Handled("IO", Dequeued("IO"), << >>, registered,
             IF job[task.job].phase \in {"killed", "failed"} THEN job
             ELSE [job EXCEPT ![task.job].source = IF html THEN task.source ELSE @])
  BY DEF MimeTypeAvailable
<1>2. PICK html \in BOOLEAN :
        Handled("IO", Dequeued("IO"), << >>, registered,
          IF job[task.job].phase \in {"killed", "failed"} THEN job
          ELSE [job EXCEPT ![task.job].source = IF html THEN task.source ELSE @])
  BY <1>1
<1>3. /\ CanRun("IO") /\ queue["IO"] # << >> /\ task \in WellFormed
      /\ task.kind = "MimeTypeAvailable" /\ ~IsContextTask(task)
  BY <1>1, HeadFacts, IDFacts
<1>4. task.source \in Sources /\ task.job \in Jobs
  BY <1>3, TaskFacts DEF RequestKinds
<1> DEFINE j == IF job[task.job].phase \in {"killed", "failed"} THEN job
                ELSE [job EXCEPT ![task.job].source = IF html THEN task.source ELSE @]
<1>5. job \in SourceJobs
  BY InvFacts
<1>6. j \in SourceJobs
  BY <1>4, <1>5 DEF SourceJobs
<1>7. job' = j
  BY <1>2 DEF Handled
<1>8. JobsGone => JobsGone'
  <2>1. JobsGone => j = job
    BY <1>4 DEF JobsGone
  <2> QED
    BY <1>7, <2>1 DEF JobsGone
<1>9. Handled("IO", Dequeued("IO"), << >>, registered, j)
  BY <1>2
<1> HIDE DEF j
<1> QED
  BY <1>1, <1>3, <1>6, <1>8, <1>9, NoPosts, PlainHandledKeeps, IDFacts

LEMMA SendResponseKeeps ==
  ASSUME Inv, SendResponseOnIOThread
  PROVE  Inv'
<1> DEFINE task == Head(queue["IO"])
           j == IF Serves(task) THEN [job EXCEPT ![task.job].phase = "answered"] ELSE job
<1>1. /\ Next1("IO", "SendResponseOnIOThread") /\ UNCHANGED <<attached, backend>>
      /\ Handled("IO", Dequeued("IO"), << >>, registered, j)
  BY DEF SendResponseOnIOThread
<1>2. /\ CanRun("IO") /\ queue["IO"] # << >> /\ task \in WellFormed
      /\ task.kind = "SendResponseOnIOThread" /\ ~IsContextTask(task)
  BY <1>1, HeadFacts, IDFacts
<1>3. task.source \in Sources /\ task.job \in Jobs
  BY <1>2, TaskFacts DEF RequestKinds
<1>4. job \in SourceJobs
  BY InvFacts
<1>5. j \in SourceJobs
  BY <1>3, <1>4 DEF SourceJobs
<1>6. JobsGone => JobsGone'
  <2>1. JobsGone => j = job
    BY <1>3 DEF JobsGone, Serves
  <2>2. job' = j
    BY <1>1 DEF Handled
  <2> QED
    BY <2>1, <2>2 DEF JobsGone
<1> HIDE DEF j
<1> QED
  BY <1>1, <1>2, <1>5, <1>6, NoPosts, PlainHandledKeeps, IDFacts

LEMMA DeleteNetworkContextKeeps ==
  ASSUME Inv, DeleteNetworkContext
  PROVE  Inv'
<1> DEFINE j == [k \in Jobs |-> Gone(k)]
<1>1. /\ Next1("IO", "DeleteNetworkContext") /\ UNCHANGED <<attached, backend>>
      /\ Handled("IO", Dequeued("IO"), << >>, registered, j)
  BY DEF DeleteNetworkContext
<1>2. CanRun("IO") /\ queue["IO"] # << >>
  BY <1>1, HeadFacts, IDFacts
<1>3. job \in SourceJobs
  BY InvFacts
<1>4. j \in SourceJobs /\ \A k \in Jobs : j[k].phase = "killed" /\ j[k].source = None
  BY <1>3 DEF SourceJobs, Gone
<1>5. job' = j
  BY <1>1 DEF Handled
<1> HIDE DEF j
<1>6. JobsGone'
  BY <1>4, <1>5 DEF JobsGone
<1> QED
  BY <1>1, <1>2, <1>4, <1>6, NoPosts, PlainHandledKeeps, IDFacts

LEMMA DeleteBackendKeeps ==
  ASSUME Inv, DeleteBackend
  PROVE  Inv'
<1>1. /\ Next1("IO", "DeleteBackend") /\ backend' = "deleted"
      /\ attached' = attached \ {registered}
      /\ Handled("IO", Dequeued("IO"), << >>, None, job)
  BY DEF DeleteBackend
<1>2. CanRun("IO") /\ queue["IO"] # << >> /\ ~IsContextTask(Head(queue["IO"]))
  BY <1>1, HeadFacts, IDFacts
<1>3. attached' = {} /\ job \in SourceJobs
  BY <1>1, InvFacts DEF BackendOK
<1>4. JobsGone => JobsGone'
  BY <1>1 DEF Handled, JobsGone
<1>5. /\ attached' \subseteq Sources /\ attached' \subseteq {None}
      /\ None \in Sources \cup {None} /\ backend' \in {"none", "live", "deleted"}
  BY <1>1, <1>3
<1> QED
  BY <1>1, <1>2, <1>3, <1>4, <1>5, NoPosts, HandledKeeps, IDFacts

LEMMA StartKeeps ==
  ASSUME Inv, NEW k \in Jobs, Start(k)
  PROVE  Inv'
<1>1. /\ CanRun("IO") /\ job[k].phase = "idle" /\ backend' = "live" /\ attached' = attached
      /\ registered \in Sources \cup {None} /\ attached \subseteq Sources
      /\ attached \subseteq {registered} /\ job \in SourceJobs
  BY InvFacts DEF Start, BackendOK
<1>2. ~JobsGone
  BY <1>1 DEF JobsGone
<1>3. PICK p \in Seq(Posts), j \in SourceJobs : Handled("IO", queue, p, registered, j)
  <2>1. CASE registered = None
    <3>1. [job EXCEPT ![k].phase = "failed"] \in SourceJobs
      BY <1>1 DEF SourceJobs
    <3> QED
      BY <2>1, <3>1, NoPosts DEF Start
  <2>2. CASE registered # None
    <3>1. [job EXCEPT ![k].phase = "pending", ![k].asked = registered] \in SourceJobs
      BY <1>1 DEF SourceJobs
    <3>2. RequestPosts(registered, k) \in Seq(Posts)
      BY <1>1, <2>2, RequestPostsTyped
    <3> QED
      BY <2>2, <3>1, <3>2 DEF Start
  <2> QED
    BY <2>1, <2>2
<1> QED
  BY <1>1, <1>2, <1>3, HandledKeeps, IDFacts

LEMMA KillKeeps ==
  ASSUME Inv, NEW k \in Jobs, Kill(k)
  PROVE  Inv'
<1> DEFINE j == [job EXCEPT ![k] = Gone(k)]
<1>1. /\ CanRun("IO") /\ UNCHANGED <<attached, backend>>
      /\ Handled("IO", queue, << >>, registered, j)
      /\ job[k].phase \in {"pending", "answered", "failed"}
  BY DEF Kill
<1>2. job \in SourceJobs
  BY InvFacts
<1>3. j \in SourceJobs
  BY <1>2 DEF SourceJobs, Gone
<1>4. ~JobsGone
  BY <1>1 DEF JobsGone
<1> HIDE DEF j
<1> QED
  BY <1>1, <1>3, <1>4, NoPosts, PlainHandledKeeps, IDFacts

LEMMA IdleCalls ==
  ASSUME Inv, NEW t \in Threads, Idle(t)
  PROVE  [calls EXCEPT ![t] = << >>] = calls
<1>1. calls \in [Threads -> Seq(Posts)] /\ calls[t] = << >>
  BY InvFacts DEF Idle
<1> QED
  BY <1>1

LEMMA NothingBefore ==
  ASSUME NEW p \in Seq(Posts)
  PROVE  << >> \o p = p
  BY ConcatEmptySeq

(* A step that only adds tasks keeps what is referenced.                       *)
LEMMA MoreTasksKeepReferences ==
  ASSUME Inv, TasksIn(queue, calls) \subseteq TasksIn(queue', calls'),
         registered' = registered, job' = job,
         \A s \in Sources : source'[s] = "alive" =>
           source[s] = "alive" \/ \E task \in TasksIn(queue', calls') : task.source = s
  PROVE  ReferencedOK'
<1>1. ASSUME NEW s \in Sources, source'[s] = "alive"
      PROVE  Held(s, registered', job', queue', calls')
  BY <1>1, InvFacts DEF ReferencedOK, Held
<1> QED
  BY <1>1 DEF ReferencedOK, Held, TasksIn

LEMMA CallAddsTasks ==
  ASSUME Inv, NEW t \in Threads, Idle(t), NEW p \in Seq(Posts),
         calls' = [calls EXCEPT ![t] = p], queue' = queue
  PROVE  TasksIn(queue, calls) \subseteq TasksIn(queue', calls')
<1>1. [calls EXCEPT ![t] = << >>] = calls /\ << >> \o p = p
  BY IdleCalls, NothingBefore
<1>2. TasksIn(queue, [calls EXCEPT ![t] = << >>])
        \subseteq TasksIn(queue, [calls EXCEPT ![t] = << >> \o p])
  BY TasksGrow, NoPosts, InvFacts
<1> QED
  BY <1>1, <1>2

(* Steps of the threads alone.                                                 *)
LEMMA StageStepKeeps ==
  ASSUME Inv, StageStep, main' = "sources_deleted" => data_sources = << >>,
         UNCHANGED sourceVars
  PROVE  Inv'
<1>0. ThreadsInv /\ NetworkOK /\ main \in Stages
  BY InvFacts DEF ThreadsInv, ThreadsTypeOK
<1>1. ThreadsInv'
  BY <1>0, StageStepKeepsThreads
<1>2. UNCHANGED <<queue, calls>>
  BY DEF StageStep, InitializeMainThread, CreateThreads, RegisterAsWebThread, StopIOThread,
     IOLoopEnds, CleanUp, IOThreadExits, JoinIOThread, ShutdownThreadPool, DestroyMainThread
<1>3. ReferencedOK'
  BY <1>2, InvFacts DEF sourceVars, ReferencedOK, Held, TasksIn
<1>4. DataTypes' /\ BackendOK'
  BY DEF sourceVars, Inv, SourcesInv, DataTypes, BackendOK
<1>5. main' \in {"sources_deleted", "unregistered", "exited"} => data_sources = << >>
  BY InvFacts
  DEF StageStep, InitializeMainThread, CreateThreads, RegisterAsWebThread, StopIOThread,
      IOLoopEnds, CleanUp, IOThreadExits, JoinIOThread, ShutdownThreadPool, DestroyMainThread
<1>6. ListedOK'
  BY <1>5 DEF sourceVars, Inv, SourcesInv, ListedOK
<1>7. NetworkOK'
  <2>1. JobsGone' <=> JobsGone
    BY DEF sourceVars, JobsGone
  <2>2. (ContextCalled' <=> ContextCalled) /\ (ContextQueued' <=> ContextQueued)
    BY <1>2 DEF ContextCalled, ContextQueued
  <2>3. main' \in {"states_gone", "joining"} \cup Joined
          => main \in {"states_gone", "joining"} \cup Joined
    BY DEF StageStep, InitializeMainThread, CreateThreads, RegisterAsWebThread, StopIOThread,
       IOLoopEnds, CleanUp, IOThreadExits, JoinIOThread, ShutdownThreadPool, DestroyMainThread,
       Joined, Alone
  <2>4. ContextQueued /\ io \in {"running", "quitting"} => io' \in {"running", "quitting"}
    <3>1. CASE IOLoopEnds
      <4>1. DOMAIN queue["IO"] = {}
        BY <3>1 DEF IOLoopEnds
      <4> QED
        BY <4>1 DEF ContextQueued
    <3>2. CASE ~IOLoopEnds
      BY <1>0, <3>2
      DEF ThreadsInv, StagesOK, Joined, Alone,
          StageStep, InitializeMainThread, CreateThreads, RegisterAsWebThread, StopIOThread,
          CleanUp, IOThreadExits, JoinIOThread, ShutdownThreadPool, DestroyMainThread
    <3> QED
      BY <3>1, <3>2
  <2> QED
    BY <1>0, <2>1, <2>2, <2>3, <2>4 DEF NetworkOK
<1> QED
  BY <1>1, <1>3, <1>4, <1>6, <1>7 DEF Inv, SourcesInv

LEMMA CallStepKeeps ==
  ASSUME Inv, NEW t \in Threads, NEW p \in Seq(Posts), CallStep(t, p), UNCHANGED sourceVars,
         main' = "states_gone" /\ t = "UI" =>
           \E i \in DOMAIN p : p[i].to = "IO" /\ IsContextTask(p[i].task)
  PROVE  Inv'
<1>1. ThreadsInv'
  BY CallStepKeepsThreads DEF Inv
<1>2. Idle(t) /\ calls' = [calls EXCEPT ![t] = p] /\ UNCHANGED <<queue, io>>
  BY DEF CallStep
<1>3. ReferencedOK'
  BY <1>2, CallAddsTasks, MoreTasksKeepReferences DEF sourceVars
<1>4. DataTypes' /\ BackendOK'
  BY DEF sourceVars, Inv, SourcesInv, DataTypes, BackendOK
<1>5. ListedOK'
  BY DEF sourceVars, Inv, SourcesInv, ListedOK, CallStep, Alone
<1>6. NetworkOK'
  <2>1. JobsGone' <=> JobsGone
    BY DEF sourceVars, JobsGone
  <2>2. ContextQueued' <=> ContextQueued
    BY <1>2 DEF ContextQueued
  <2>3. calls \in [Threads -> Seq(Posts)] /\ NetworkOK
    BY InvFacts
  <2>4. CASE t = "UI" /\ main' = "states_gone"
    <3>1. calls'["UI"] = p
      BY <1>2, <2>3, <2>4, IDFacts
    <3>2. PICK i \in DOMAIN p : p[i].to = "IO" /\ IsContextTask(p[i].task)
      BY <2>4
    <3>3. /\ i \in DOMAIN calls'["UI"] /\ calls'["UI"][i].to = "IO"
          /\ IsContextTask(calls'["UI"][i].task)
      BY <3>1, <3>2
    <3>4. ContextCalled'
      BY <3>3 DEF ContextCalled, IsContextTask
    <3> QED
      BY <3>4 DEF NetworkOK
  <2>5. CASE t = "UI" /\ main' # "states_gone"
    BY <2>5, IDFacts DEF CallStep, NetworkOK, Joined, Alone
  <2>6. CASE t # "UI"
    <3>1. calls'["UI"] = calls["UI"] /\ main' = main
      BY <1>2, <2>3, <2>6, IDFacts DEF CallStep
    <3>2. ContextCalled' <=> ContextCalled
      BY <3>1 DEF ContextCalled
    <3> QED
      BY <1>2, <2>1, <2>2, <2>3, <3>1, <3>2 DEF NetworkOK
  <2> QED
    BY <2>4, <2>5, <2>6
<1> QED
  BY <1>1, <1>3, <1>4, <1>5, <1>6 DEF Inv, SourcesInv

LEMMA DestroyBrowserStateKeeps ==
  ASSUME Inv, DestroyBrowserState
  PROVE  Inv'
<1> DEFINE context == Post("IO", Task("DeleteNetworkContext", None, None))
           rest == IF backend = "live"
                     THEN <<Post("IO", Task("DeleteBackend", None, None))>> ELSE << >>
           p == <<context>> \o rest
<1>1. /\ main = "stopping" /\ main' = "states_gone" /\ Idle("UI")
      /\ calls' = [calls EXCEPT !["UI"] = p]
      /\ UNCHANGED <<states, task_runners, lock, queue, posting, io>>
      /\ UNCHANGED sourceVars
  BY DEF DestroyBrowserState, TearDown
<1>2. context \in Posts /\ context.to = "IO" /\ IsContextTask(context.task)
  <2>1. Task("DeleteNetworkContext", None, None) \in WellFormed
    BY PlainTasks DEF PlainKinds
  <2> QED
    BY <2>1, IDFacts DEF Post, Posts, IsContextTask, Task
<1>3. rest \in Seq(Posts)
  <2>1. Task("DeleteBackend", None, None) \in WellFormed
    BY PlainTasks DEF PlainKinds
  <2> QED
    BY <2>1, SinglePost, NoPosts, IDFacts
<1> HIDE DEF context, rest
<1>4. <<context>> \in Seq(Posts) /\ Len(<<context>>) = 1 /\ <<context>>[1] = context
  BY <1>2
<1>5. p \in Seq(Posts) /\ Len(p) = 1 + Len(rest) /\ p[1] = context /\ Len(rest) \in Nat
  <2>1. Len(rest) \in Nat
    BY <1>3, LenProperties
  <2> QED
    BY <1>3, <1>4, <2>1, ConcatProperties
<1>6. 1 \in DOMAIN p
  BY <1>5, LenProperties
<1> HIDE DEF p
<1>7. CallStep("UI", p)
  BY <1>1 DEF CallStep
<1>8. \E i \in DOMAIN p : p[i].to = "IO" /\ IsContextTask(p[i].task)
  BY <1>2, <1>5, <1>6
<1> QED
  BY <1>1, <1>5, <1>7, <1>8, CallStepKeeps, IDFacts

LEMMA AddDataSourceKeeps ==
  ASSUME Inv, NEW s \in Sources, AddDataSource(s)
  PROVE  Inv'
<1> DEFINE task == Task("AddDataSourceOnIOThread", s, None)
           p == <<Post("IO", task)>>
<1>1. /\ CanRun("UI") /\ source[s] = "new" /\ source' = [source EXCEPT ![s] = "alive"]
      /\ calls' = [calls EXCEPT !["UI"] = p]
      /\ UNCHANGED <<states, task_runners, lock, queue, posting, main, io,
                     registered, attached, backend, data_sources, job>>
  BY DEF AddDataSource
<1>2. task \in WellFormed /\ task.source = s
  BY DEF WellFormed, Task
<1>3. p \in Seq(Posts)
  BY <1>2, SinglePost, IDFacts
<1>4. /\ Idle("UI") /\ calls \in [Threads -> Seq(Posts)] /\ ThreadsInv /\ NetworkOK
      /\ ListTyped
  BY <1>1, InvFacts DEF CanRun
<1>5. \E x \in TasksIn(queue', calls') : x.source = s
  <2>1. calls'["UI"] = p
    BY <1>1, <1>4, IDFacts
  <2>2. Post("IO", task) \in ToSet(calls'["UI"]) /\ Post("IO", task).task = task
    BY <2>1 DEF ToSet, Post
  <2>3. task \in TasksIn(queue', calls')
    BY <2>2, TasksInFacts, IDFacts
  <2> QED
    BY <1>2, <2>3
<1> HIDE DEF p
<1>6. HandlerStep("UI", p)
  BY <1>1 DEF HandlerStep
<1>7. ThreadsInv'
  BY <1>3, <1>4, <1>6, HandlerKeepsThreads, IDFacts
<1>8. JobsGone => JobsGone'
  BY <1>1 DEF JobsGone
<1>9. NetworkOK'
  BY <1>1, <1>3, <1>4, <1>6, <1>8, HandlerKeepsNetwork, IDFacts
<1>10. \A x \in Sources : source'[x] = IF x = s THEN "alive" ELSE source[x]
  BY <1>1, <1>4 DEF ListTyped
<1>11. ReferencedOK'
  <2>1. TasksIn(queue, calls) \subseteq TasksIn(queue', calls')
    BY <1>1, <1>3, <1>4, CallAddsTasks, IDFacts
  <2>2. \A x \in Sources : source'[x] = "alive" =>
          source[x] = "alive" \/ \E y \in TasksIn(queue', calls') : y.source = x
    BY <1>5, <1>10
  <2> QED
    BY <1>1, <2>1, <2>2, MoreTasksKeepReferences
<1>12. {x \in Sources : source'[x] = "scheduled"} = {x \in Sources : source[x] = "scheduled"}
  BY <1>1, <1>10
<1>13. source' \in [Sources -> {"new", "alive", "scheduled", "deleted"}]
  BY <1>1, <1>4 DEF ListTyped
<1>14. DataTypes' /\ BackendOK'
  BY <1>1, <1>13 DEF Inv, SourcesInv, DataTypes, BackendOK
<1>15. ListedOK'
  BY <1>1, <1>12 DEF Inv, SourcesInv, ListedOK
<1> QED
  BY <1>7, <1>9, <1>11, <1>14, <1>15 DEF Inv, SourcesInv

(* Deletion of the whole list, on the UI thread.                               *)
LEMMA DeleteAllFacts ==
  ASSUME Inv, DeleteAllScheduled
  PROVE  /\ ListTyped' /\ data_sources' = << >>
         /\ \A s \in Sources : source'[s] = "alive" => source[s] = "alive"
<1>1. /\ source' = [s \in Sources |->
                      IF s \in ToSet(data_sources) THEN "deleted" ELSE source[s]]
      /\ data_sources' = << >>
  BY DEF DeleteAllScheduled
<1>2. ListTyped
  BY InvFacts
<1>3. source' \in [Sources -> {"new", "alive", "scheduled", "deleted"}]
  BY <1>1, <1>2 DEF ListTyped
<1>4. {s \in Sources : source'[s] = "scheduled"} = {}
  BY <1>1, <1>2 DEF ListTyped
<1>5. << >> \in Seq(Sources) /\ IsInjective(<< >>) /\ ToSet(<< >>) = {}
  BY DEF IsInjective, ToSet
<1>6. ListTyped'
  BY <1>1, <1>3, <1>4, <1>5 DEF ListTyped
<1> QED
  BY <1>1, <1>6

LEMMA DeleteDataSourcesKeeps ==
  ASSUME Inv, DeleteDataSources
  PROVE  Inv'
<1> DEFINE head == Head(queue["UI"])
<1>1. /\ Next1("UI", "DeleteDataSources") /\ queue' = Dequeued("UI") /\ DeleteAllScheduled
      /\ UNCHANGED <<states, task_runners, lock, posting, calls, main, io,
                     registered, attached, backend, job>>
  BY DEF DeleteDataSources
<1>2. /\ CanRun("UI") /\ queue["UI"] # << >> /\ head \in WellFormed
      /\ head.kind = "DeleteDataSources"
  BY <1>1, HeadFacts, IDFacts
<1>3. head.source = None
  BY <1>2, TaskFacts DEF PlainKinds
<1>4. HandlerStep("UI", << >>)
  <2>1. [calls EXCEPT !["UI"] = << >>] = calls
    BY <1>2, IdleCalls, IDFacts DEF CanRun
  <2> QED
    BY <1>1, <1>2, <2>1 DEF HandlerStep
<1>5. ThreadsInv'
  BY <1>4, NoPosts, HandlerKeepsThreads, IDFacts DEF Inv
<1>6. NetworkOK'
  <2>1. JobsGone => JobsGone'
    BY <1>1 DEF JobsGone
  <2> QED
    BY <1>4, <2>1, NoPosts, InvFacts, HandlerKeepsNetwork, IDFacts
<1>7. /\ ListTyped' /\ data_sources' = << >>
      /\ \A s \in Sources : source'[s] = "alive" => source[s] = "alive"
  BY <1>1, DeleteAllFacts
<1>8. ASSUME NEW task \in TasksIn(queue, calls), task # head
      PROVE  task \in TasksIn(queue', calls')
  <2>1. CASE \E t \in Threads : \E call \in ToSet(calls[t]) : task = call.task
    BY <1>1, <2>1, TasksInFacts
  <2>2. ASSUME NEW id \in IDs, task \in ToSet(queue[id])
        PROVE  task \in ToSet(queue'[id])
    <3>1. queue \in [IDs -> Seq(WellFormed)] /\ queue["UI"] \in Seq(WellFormed)
      BY InvFacts, IDFacts
    <3>2. CASE id # "UI"
      BY <1>1, <2>2, <3>1, <3>2 DEF Dequeued
    <3>3. CASE id = "UI"
      <4>1. PICK i \in DOMAIN queue["UI"] : queue["UI"][i] = task
        BY <2>2, <3>3 DEF ToSet
      <4>2. \E k \in DOMAIN Tail(queue["UI"]) : Tail(queue["UI"])[k] = task
        BY <1>2, <1>8, <3>1, <4>1, TailKeepsElement
      <4>3. queue'["UI"] = Tail(queue["UI"])
        BY <1>1, <3>1, IDFacts DEF Dequeued
      <4> QED
        BY <3>3, <4>2, <4>3 DEF ToSet
    <3> QED
      BY <3>2, <3>3
  <2> QED
    BY <1>8, <2>1, <2>2, TasksInFacts
<1> HIDE DEF head
<1>9. ASSUME NEW s \in Sources, source'[s] = "alive"
      PROVE  Held(s, registered', job', queue', calls')
  <2>1. Held(s, registered, job, queue, calls)
    BY <1>7, <1>9, InvFacts DEF ReferencedOK
  <2>2. s # None
    BY SourcesAssumption
  <2> QED
    BY <1>1, <1>3, <1>8, <2>1, <2>2 DEF Held
<1>10. ReferencedOK'
  BY <1>9 DEF ReferencedOK, Held, TasksIn
<1>11. DataTypes' /\ BackendOK' /\ ListedOK'
  BY <1>1, <1>7, InvFacts DEF DataTypes, BackendOK, ListedOK, ListTyped, SourceJobs
<1> QED
  BY <1>5, <1>6, <1>10, <1>11 DEF Inv, SourcesInv

LEMMA FinalDeleteKeeps ==
  ASSUME Inv, FinalDelete
  PROVE  Inv'
<1>1. /\ main = "pool_down" /\ main' = "sources_deleted" /\ DeleteAllScheduled
      /\ UNCHANGED <<states, task_runners, lock, queue, calls, posting, io,
                     registered, attached, backend, job>>
  BY DEF FinalDelete
<1>2. ThreadsInv'
  BY <1>1, StageStepKeepsThreads DEF StageStep, Inv
<1>3. /\ ListTyped' /\ data_sources' = << >>
      /\ \A s \in Sources : source'[s] = "alive" => source[s] = "alive"
  BY <1>1, DeleteAllFacts
<1>4. ReferencedOK'
  BY <1>1, <1>3, MoreTasksKeepReferences
<1>5. DataTypes' /\ BackendOK' /\ ListedOK'
  BY <1>1, <1>3, InvFacts DEF DataTypes, BackendOK, ListedOK, ListTyped, SourceJobs
<1>6. NetworkOK'
  BY <1>1, InvFacts DEF NetworkOK, JobsGone, ContextCalled, ContextQueued, Joined, Alone
<1> QED
  BY <1>2, <1>4, <1>5, <1>6 DEF Inv, SourcesInv

LEMMA PostTaskKeeps ==
  ASSUME Inv, NEW t \in Threads, PostTask(t)
  PROVE  Inv'
<1> DEFINE p == Tail(calls[t])
           gone == Released(registered, job, QueueAfterPost(t), [calls EXCEPT ![t] = p])
           more == DeletePost(t, gone)
<1>1. /\ EndPost(t, more) /\ DeleteDataSource(t, gone) /\ posting[t] # NoPost
      /\ UNCHANGED <<registered, attached, backend, job>>
  BY DEF PostTask
<1>2. more \in Seq(Posts)
  BY DeletePostTyped
<1>3. p \in Seq(Posts) /\ calls[t] # << >>
  BY <1>1, QueueAfterPostTyped, InvFacts
<1>4. /\ queue' = QueueAfterPost(t) /\ calls' = [calls EXCEPT ![t] = p \o more]
      /\ UNCHANGED <<main, io>>
  BY <1>1 DEF EndPost
<1>5. Drop(t, QueueAfterPost(t), p, registered, job)
  BY <1>1, <1>4 DEF Drop
<1> HIDE DEF p, gone, more
<1>6. ThreadsInv'
  BY <1>1, <1>2, EndPostKeepsThreads DEF Inv
<1>7. NetworkOK'
  BY <1>1, <1>2, InvFacts, PostKeepsNetwork
<1>8. ListTyped' /\ ReferencedOK' /\ (t = "UI" => data_sources' = data_sources)
  BY <1>3, <1>5, InvFacts, DropKeeps
<1>9. main' \notin {"sources_deleted", "unregistered", "exited"}
  <2>1. ~Idle(t)
    BY <1>3 DEF Idle
  <2>2. main \in {"sources_deleted", "unregistered", "exited"}
          => Idle("UI") /\ Idle("IO") /\ Idle("worker")
    BY DEF Inv, ThreadsInv, StagesOK, QuietOK, Joined, Alone
  <2> QED
    BY <1>4, <2>1, <2>2, IDFacts
<1>10. DataTypes' /\ BackendOK'
  BY <1>1, <1>8, InvFacts DEF DataTypes, BackendOK, ListTyped, SourceJobs
<1>11. ListedOK'
  BY <1>8, <1>9 DEF ListedOK, ListTyped
<1> QED
  BY <1>6, <1>7, <1>8, <1>10, <1>11 DEF Inv, SourcesInv

LEMMA DestroyLoopKeeps ==
  ASSUME Inv, NEW t \in IDs, DestroyLoop(t)
  PROVE  Inv'
<1> DEFINE q == [queue EXCEPT ![t] = << >>]
           gone == LostWithLoop(t)
           more == DeletePost(t, gone)
<1>1. /\ DeleteDataSource(t, gone) /\ UNCHANGED <<registered, attached, backend, job>>
      /\ \/ t = "IO" /\ DestroyIOLoop(more)
         \/ t = "UI" /\ DestroyUILoop
  BY DEF DestroyLoop
<1>2. Idle(t)
  BY <1>1, IDFacts
  DEF DestroyIOLoop, DestroyUILoop, Inv, ThreadsInv, QuietOK, Joined, Alone
<1>3. [calls EXCEPT ![t] = << >>] = calls
  BY <1>2, IdleCalls, IDFacts
<1>4. more \in Seq(Posts)
  BY DeletePostTyped
<1>5. << >> \o more = more
  BY <1>4, NothingBefore
<1>6. gone = Released(registered, job, q, [calls EXCEPT ![t] = << >>])
  BY <1>3 DEF LostWithLoop
<1>7. queue' = q /\ calls' = [calls EXCEPT ![t] = more]
  <2>1. t = "UI" => more = << >>
    BY DEF DeletePost
  <2> HIDE DEF more
  <2> QED
    BY <1>1, <1>3, <2>1, IDFacts DEF DestroyIOLoop, DestroyUILoop
<1>8. Drop(t, q, << >>, registered, job)
  BY <1>1, <1>5, <1>6, <1>7 DEF Drop
<1> HIDE DEF q, gone, more
<1>9. ThreadsInv'
  BY <1>1, <1>4, DestroyIOLoopKeepsThreads, DestroyUILoopKeepsThreads DEF Inv
<1>10. ListTyped' /\ ReferencedOK' /\ (t = "UI" => data_sources' = data_sources)
  BY <1>8, NoPosts, InvFacts, DropKeeps, IDFacts
<1>11. DataTypes' /\ BackendOK'
  BY <1>1, <1>10, InvFacts DEF DataTypes, BackendOK, ListTyped, SourceJobs
<1>12. ListedOK' /\ NetworkOK'
  <2>1. JobsGone' <=> JobsGone
    BY <1>1 DEF JobsGone
  <2>2. CASE t = "IO"
    <3>1. io = "unregistered" /\ main' = main /\ main = "joining"
      BY <1>1, <2>2, IDFacts
      DEF DestroyIOLoop, Inv, ThreadsInv, ThreadsTypeOK, Stages, StagesOK, Up, Joined, Alone
    <3>2. ListedOK'
      BY <1>10, <3>1 DEF ListedOK, ListTyped
    <3>3. ~ContextCalled
      BY <3>1 DEF Inv, ThreadsInv, QuietOK, Idle, ContextCalled
    <3>4. JobsGone
      BY <3>1, <3>3, InvFacts DEF NetworkOK
    <3> QED
      BY <2>1, <3>2, <3>4 DEF NetworkOK
  <2>3. CASE t = "UI"
    <3>1. main = "unregistered" /\ io' = io /\ io = "exited"
      BY <1>1, <2>3, IDFacts
      DEF DestroyUILoop, Inv, ThreadsInv, StagesOK, Joined, Alone
    <3>2. ListedOK'
      BY <1>10, <2>3, <3>1, InvFacts DEF ListedOK, ListTyped
    <3>3. ~ContextCalled
      BY <3>1 DEF Inv, ThreadsInv, QuietOK, Idle, ContextCalled, Joined, Alone
    <3>4. JobsGone
      BY <3>1, <3>3, InvFacts DEF NetworkOK, Joined, Alone
    <3> QED
      BY <2>1, <3>2, <3>4 DEF NetworkOK
  <2> QED
    BY <2>2, <2>3, IDFacts
<1> QED
  BY <1>9, <1>10, <1>11, <1>12 DEF Inv, SourcesInv

LEMMA BeginPostKeeps ==
  ASSUME Inv, NEW t \in Threads, BeginPost(t), UNCHANGED sourceVars
  PROVE  Inv'
<1>1. ThreadsInv'
  BY BeginPostKeepsThreads DEF Inv
<1>2. UNCHANGED <<queue, calls, main, io>>
  BY DEF BeginPost
<1>3. SourcesInv'
  BY <1>2
  DEF sourceVars, Inv, SourcesInv, DataTypes, ListedOK, ReferencedOK, Held, TasksIn, BackendOK,
      NetworkOK, JobsGone, ContextCalled, ContextQueued
<1> QED
  BY <1>1, <1>3 DEF Inv

LEMMA InitialPostKeeps ==
  ASSUME Inv, PostCompleteInitialization(Noop), UNCHANGED sourceVars
  PROVE  Inv'
<1>1. ThreadsInv'
  BY InitialPostKeepsThreads DEF Inv
<1>2. /\ main' = "running" /\ calls' = calls
      /\ queue' = [queue EXCEPT !["IO"] = Append(@, Noop)]
  BY DEF PostCompleteInitialization
<1>3. queue \in [IDs -> Seq(WellFormed)] /\ queue["IO"] \in Seq(WellFormed)
  BY InvFacts, IDFacts
<1>4. ASSUME NEW id \in IDs, NEW task \in ToSet(queue[id])
      PROVE  task \in ToSet(queue'[id])
  <2>1. CASE id # "IO"
    BY <1>2, <1>3, <1>4, <2>1
  <2>2. CASE id = "IO"
    <3>1. queue'["IO"] = Append(queue["IO"], Noop)
      BY <1>2, <1>3, IDFacts
    <3>2. PICK i \in DOMAIN queue["IO"] : task = queue["IO"][i]
      BY <1>4, <2>2 DEF ToSet
    <3>3. i \in DOMAIN queue'["IO"] /\ queue'["IO"][i] = task
      BY <1>3, <3>1, <3>2, PlainTasks, AppendKeepsElements
    <3> QED
      BY <2>2, <3>3 DEF ToSet
  <2> QED
    BY <2>1, <2>2
<1>5. ASSUME NEW task \in TasksIn(queue, calls)
      PROVE  task \in TasksIn(queue', calls')
  <2>1. \/ \E id \in IDs : task \in ToSet(queue[id])
        \/ \E t \in Threads : \E call \in ToSet(calls[t]) : task = call.task
    BY <1>5, TasksInFacts
  <2>2. \/ \E id \in IDs : task \in ToSet(queue'[id])
        \/ \E t \in Threads : \E call \in ToSet(calls'[t]) : task = call.task
    BY <1>2, <1>4, <2>1
  <2> QED
    BY <2>2, TasksInFacts
<1>6. ReferencedOK'
  BY <1>5, MoreTasksKeepReferences DEF sourceVars
<1>7. DataTypes' /\ BackendOK' /\ ListedOK' /\ NetworkOK'
  BY <1>2 DEF sourceVars, Inv, SourcesInv, DataTypes, BackendOK, ListedOK, NetworkOK,
     Joined, Alone
<1> QED
  BY <1>1, <1>6, <1>7 DEF Inv, SourcesInv
-----------------------------------------------------------------------------
(* The theorems.                                                               *)

LEMMA InitInv == Init => Inv
<1> SUFFICES ASSUME Init PROVE Inv
  OBVIOUS
<1>1. << >> \in Seq(WellFormed) /\ << >> \in Seq(Posts) /\ << >> \in Seq(Sources)
  OBVIOUS
<1>2. ThreadsTypeOK(WellFormed)
  <2>1. /\ states \in [IDs -> {"UNINITIALIZED", "RUNNING", "SHUTDOWN"}]
        /\ task_runners \subseteq IDs /\ lock \in Threads \cup {Free}
        /\ posting \in [Threads -> {NoPost, "locked", "unlocked"}]
        /\ main \in Stages
        /\ io \in {"off", "running", "quitting", "cleanup", "unregistered", "destroyed",
                   "exited"}
    BY DEF Init, ThreadsInit, Stages
  <2>2. queue \in [IDs -> Seq(WellFormed)] /\ calls \in [Threads -> Seq(Posts)]
    BY <1>1 DEF Init, ThreadsInit
  <2>3. \A t \in Threads : posting[t] = "locked" <=> lock = t
    BY IDFacts DEF Init, ThreadsInit, NoPost
  <2> QED
    BY <2>1, <2>2, <2>3 DEF ThreadsTypeOK, Posts
<1>3. StagesOK
  BY IDFacts DEF Init, ThreadsInit, StagesOK, BeforeIO, Up, Joined, Alone
<1>4. QuietOK
  BY IDFacts DEF Init, ThreadsInit, QuietOK, Idle, Joined, Alone
<1>5. PostingOK
  BY DEF Init, ThreadsInit, PostingOK, NoPost
<1>6. DataTypes
  <2>1. IsInjective(<< >>)
    BY DEF IsInjective
  <2> QED
    BY <1>1, <2>1 DEF Init, DataTypes
<1>7. ListedOK
  <2>1. ToSet(<< >>) = {}
    BY DEF ToSet
  <2> QED
    BY <2>1 DEF Init, ListedOK
<1>8. ReferencedOK /\ BackendOK
  BY DEF Init, ReferencedOK, BackendOK
<1>9. NetworkOK
  BY DEF Init, ThreadsInit, NetworkOK, Joined, Alone
<1> QED
  BY <1>2, <1>3, <1>4, <1>5, <1>6, <1>7, <1>8, <1>9 DEF Inv, ThreadsInv, SourcesInv

LEMMA StagesKeep ==
  ASSUME Inv, \/ InitializeMainThread \/ CreateThreads \/ RegisterAsWebThread
              \/ StopIOThread \/ IOLoopEnds \/ CleanUp \/ IOThreadExits \/ JoinIOThread
              \/ ShutdownThreadPool \/ DestroyMainThread,
         UNCHANGED sourceVars
  PROVE  Inv'
<1>1. StageStep
  BY DEF StageStep
<1>2. main' = "sources_deleted" => main = "sources_deleted"
  BY DEF InitializeMainThread, CreateThreads, RegisterAsWebThread, StopIOThread,
     IOLoopEnds, CleanUp, IOThreadExits, JoinIOThread, ShutdownThreadPool, DestroyMainThread
<1> QED
  BY <1>1, <1>2, InvFacts, StageStepKeeps

LEMMA NextInv == Inv /\ [Next]_vars => Inv'
<1> SUFFICES ASSUME Inv, [Next]_vars PROVE Inv'
  OBVIOUS
<1>1. CASE StartUp
  BY <1>1, StagesKeep, InitialPostKeeps DEF StartUp
<1>2. CASE ShutDown
  BY <1>2, StagesKeep, DestroyBrowserStateKeeps, FinalDeleteKeeps, DestroyLoopKeeps
  DEF ShutDown
<1>3. CASE Worker
  <2>1. PICK id \in IDs : WorkerCalls(id, Noop) /\ UNCHANGED sourceVars
    BY <1>3 DEF Worker
  <2> DEFINE p == <<Post(id, Noop)>>
  <2>2. p \in Seq(Posts)
    BY PlainTasks, SinglePost
  <2>3. CallStep("worker", p)
    BY <2>1 DEF WorkerCalls, CallStep, Alone
  <2> HIDE DEF p
  <2> QED
    BY <2>1, <2>2, <2>3, CallStepKeeps, IDFacts
<1>4. CASE StartShutdown(<<Post("IO", Noop)>>) /\ UNCHANGED sourceVars
  <2> DEFINE p == <<Post("IO", Noop)>>
  <2>1. p \in Seq(Posts)
    BY PlainTasks, SinglePost, IDFacts
  <2>2. CallStep("UI", p) /\ main' = "stopping"
    BY <1>4 DEF StartShutdown, CallStep
  <2> HIDE DEF p
  <2> QED
    BY <1>4, <2>1, <2>2, CallStepKeeps, IDFacts
<1>5. CASE \E t \in Threads : BeginPost(t) /\ UNCHANGED sourceVars
  BY <1>5, BeginPostKeeps
<1>6. CASE \E t \in Threads : PostTask(t)
  BY <1>6, PostTaskKeeps
<1>7. CASE \E t \in IDs : RunTask(t)
  BY <1>7, RunNoopKeeps, AddDataSourceOnIOThreadKeeps, MimeTypeAvailableKeeps,
     SendResponseKeeps, DeleteNetworkContextKeeps, DeleteBackendKeeps, AnswerOnUIKeeps,
     DeleteDataSourcesKeeps
  DEF RunTask
<1>8. CASE \E s \in Sources : AddDataSource(s)
  BY <1>8, AddDataSourceKeeps
<1>9. CASE \E j \in Jobs : Start(j) \/ Kill(j)
  BY <1>9, StartKeeps, KillKeeps
<1>10. CASE UNCHANGED vars
  <2>1. UNCHANGED <<states, task_runners, lock, queue, calls, posting, main, io>>
          /\ UNCHANGED sourceVars
    BY <1>10 DEF vars, threadVars
  <2>2. ThreadsInv'
    BY <2>1 DEF Inv, ThreadsInv, ThreadsTypeOK, StagesOK, QuietOK, PostingOK, Idle, Outlives
  <2>3. SourcesInv'
    BY <2>1
    DEF sourceVars, Inv, SourcesInv, DataTypes, ListedOK, ReferencedOK, Held, TasksIn,
        BackendOK, NetworkOK, JobsGone, ContextCalled, ContextQueued
  <2> QED
    BY <2>2, <2>3 DEF Inv
<1> QED
  BY <1>1, <1>2, <1>3, <1>4, <1>5, <1>6, <1>7, <1>8, <1>9, <1>10 DEF Next

LEMMA InvAlways == Spec => []Inv
  BY InitInv, NextInv, PTL DEF Spec

LEMMA SeqWiden ==
  ASSUME NEW S, NEW T, S \subseteq T, NEW q \in Seq(S)
  PROVE  q \in Seq(T)
  OBVIOUS

(* The types of the threads, the sources and the requests, and that no source  *)
(* is pushed twice onto the list of those to be deleted.                       *)
THEOREM DataSourcesTypes == Spec => []TypeOK
<1>1. Inv => TypeOK
  <2> SUFFICES ASSUME Inv PROVE TypeOK
    OBVIOUS
  <2> DEFINE WeakTask == [kind : Kinds, source : Sources \cup {None}, job : Jobs \cup {None}]
  <2>1. WellFormed \subseteq WeakTask
    BY TaskFacts
  <2>2. [to : IDs, task : WellFormed] \subseteq [to : IDs, task : WeakTask]
    BY <2>1
  <2> HIDE DEF WeakTask
  <2>3. \A q \in Seq(WellFormed) : q \in Seq(WeakTask)
    BY <2>1, SeqWiden
  <2>4. \A c \in Seq([to : IDs, task : WellFormed]) : c \in Seq([to : IDs, task : WeakTask])
    BY <2>2, SeqWiden
  <2>5. queue \in [IDs -> Seq(WeakTask)] /\ calls \in [Threads -> Seq([to : IDs, task : WeakTask])]
    BY <2>3, <2>4 DEF Inv, ThreadsInv, ThreadsTypeOK
  <2>6. ThreadsTypeOK(WeakTask)
    BY <2>5 DEF Inv, ThreadsInv, ThreadsTypeOK
  <2> QED
    BY <2>6 DEF TypeOK, WeakTask, Inv, SourcesInv, DataTypes
<1> QED
  BY <1>1, InvAlways, PTL

(* No source, replaced ones included, points to a backend that was deleted.    *)
THEOREM BackendPointerAlwaysValid == Spec => []BackendPointerIsValid
<1>1. Inv => BackendPointerIsValid
  <2> SUFFICES ASSUME Inv, backend = "deleted" PROVE attached = {}
    BY DEF BackendPointerIsValid
  <2>1. registered = None
    BY InvFacts DEF BackendOK
  <2>2. attached \subseteq {None} /\ attached \subseteq Sources /\ None \notin Sources
    BY <2>1, InvFacts, SourcesAssumption DEF BackendOK
  <2> QED
    BY <2>2
<1> QED
  BY <1>1, InvAlways, PTL

(* At the end of the process every source that was added is deleted, except    *)
(* one in a backend that was created too late.                                 *)
THEOREM SourcesAreNotLeaked == Spec => []NoSourceIsLeaked
<1>1. Inv => NoSourceIsLeaked
  <2> SUFFICES ASSUME Inv, Terminated, NEW s \in Sources
               PROVE  source[s] \in {"new", "deleted"} \/ (backend = "live" /\ registered = s)
    BY DEF NoSourceIsLeaked
  <2>1. /\ main = "exited" /\ io = "exited"
        /\ Idle("UI") /\ Idle("IO") /\ Idle("worker")
        /\ queue["UI"] = << >> /\ queue["IO"] = << >>
    BY DEF Terminated, Inv, ThreadsInv, StagesOK, QuietOK, Joined, Alone
  <2>2. \A task : task \notin TasksIn(queue, calls)
    <3>1. ToSet(<< >>) = {}
      BY DEF ToSet
    <3>2. \A t \in Threads : ToSet(calls[t]) = {}
      BY <2>1, <3>1, IDFacts DEF Idle
    <3>3. \A id \in IDs : ToSet(queue[id]) = {}
      BY <2>1, <3>1, IDFacts
    <3> QED
      BY <3>2, <3>3, TasksInFacts
  <2>3. JobsGone
    <3>1. ~ContextCalled
      BY <2>1 DEF ContextCalled, Idle
    <3> QED
      BY <2>1, <3>1, InvFacts DEF NetworkOK, Joined, Alone
  <2>4. source[s] # "scheduled"
    <3>1. data_sources = << >>
      BY <2>1, InvFacts
    <3>2. ToSet(data_sources) = {}
      BY <3>1 DEF ToSet
    <3> QED
      BY <3>2, InvFacts DEF ListTyped
  <2>5. source[s] = "alive" => registered = s
    <3>1. s # None
      BY SourcesAssumption
    <3> QED
      BY <2>2, <2>3, <3>1, InvFacts DEF ReferencedOK, Held, JobsGone
  <2>6. registered = s => backend = "live"
    BY InvFacts, SourcesAssumption DEF BackendOK
  <2> QED
    BY <2>4, <2>5, <2>6, InvFacts DEF ListTyped
<1> QED
  BY <1>1, InvAlways, PTL

(* The steps that change the state of an identifier.                           *)
LEMMA StatesChange ==
  ASSUME Inv, [Next]_vars
  PROVE  \/ states' = states
         \/ InitializeMainThread \/ RegisterAsWebThread \/ CleanUp \/ DestroyMainThread
<1>1. CASE StartUp
  BY <1>1 DEF StartUp, CreateThreads, PostCompleteInitialization
<1>2. CASE ShutDown
  BY <1>2
  DEF ShutDown, StopIOThread, IOLoopEnds, IOThreadExits, JoinIOThread, ShutdownThreadPool,
      DestroyBrowserState, TearDown, FinalDelete, DestroyLoop, DestroyIOLoop, DestroyUILoop
<1>3. CASE Worker \/ (StartShutdown(<<Post("IO", Noop)>>) /\ UNCHANGED sourceVars)
  BY <1>3 DEF Worker, WorkerCalls, StartShutdown
<1>4. CASE \/ \E t \in Threads : BeginPost(t) /\ UNCHANGED sourceVars
           \/ \E t \in Threads : PostTask(t)
  BY <1>4 DEF BeginPost, PostTask, EndPost
<1>5. CASE \E t \in IDs : RunTask(t)
  BY <1>5
  DEF RunTask, RunNoop, AddDataSourceOnIOThread, MimeTypeAvailable, SendResponseOnIOThread,
      DeleteNetworkContext, DeleteBackend, GetMimeTypeOnUI, CallStartRequest,
      DeleteDataSources, Handled
<1>6. CASE (\E s \in Sources : AddDataSource(s)) \/ (\E j \in Jobs : Start(j) \/ Kill(j))
  BY <1>6 DEF AddDataSource, Start, Kill, Handled
<1>7. CASE UNCHANGED vars
  BY <1>7 DEF vars, threadVars
<1> QED
  BY <1>1, <1>2, <1>3, <1>4, <1>5, <1>6, <1>7 DEF Next

(* PostTaskHelper may leave out the lock when the target outlives the caller:  *)
(* no thread changes the state of the target meanwhile.                        *)
THEOREM UnlockedPostsNeverRace == Spec => UnlockedPostsDontRace
<1> DEFINE Kept == \A t \in Threads :
             posting[t] = "unlocked" => states'[Head(calls[t]).to] = states[Head(calls[t]).to]
<1>1. Inv /\ [Next]_vars => Kept
  <2> SUFFICES ASSUME Inv, [Next]_vars, NEW t \in Threads, posting[t] = "unlocked"
               PROVE  states'[Head(calls[t]).to] = states[Head(calls[t]).to]
    OBVIOUS
  <2> DEFINE to == Head(calls[t]).to
  <2>1. ~Idle(t) /\ Outlives(t, to)
    BY DEF Inv, ThreadsInv, PostingOK, NoPost
  <2>2. t \in task_runners /\ t \in IDs /\ to \in IDs
    BY <2>1, QueueAfterPostTyped DEF Outlives, Inv, NoPost
  <2>3. to = "UI" \/ t = "IO"
    BY <2>1, <2>2, IDFacts DEF Outlives, Rank
  <2> HIDE DEF to
  <2>4. CASE states' = states
    BY <2>4 DEF to
  <2>5. CASE InitializeMainThread
    BY <2>2, <2>5, IDFacts DEF InitializeMainThread, Inv, ThreadsInv, StagesOK, BeforeIO
  <2>6. CASE RegisterAsWebThread
    <3>1. t = "UI"
      BY <2>2, <2>6, IDFacts DEF RegisterAsWebThread, Inv, ThreadsInv, StagesOK, BeforeIO
    <3>2. to = "UI" /\ states' = [states EXCEPT !["IO"] = "RUNNING"]
      BY <2>3, <2>6, <3>1 DEF RegisterAsWebThread, Register
    <3> QED
      BY <3>2, IDFacts DEF to, Inv, ThreadsInv, ThreadsTypeOK
  <2>7. CASE CleanUp
    <3>1. t = "UI"
      BY <2>1, <2>2, <2>7, IDFacts DEF CleanUp, Inv, ThreadsInv, QuietOK
    <3>2. to = "UI" /\ states' = [states EXCEPT !["IO"] = "SHUTDOWN"]
      BY <2>3, <2>7, <3>1 DEF CleanUp, Unregister
    <3> QED
      BY <3>2, IDFacts DEF to, Inv, ThreadsInv, ThreadsTypeOK
  <2>8. CASE DestroyMainThread
    BY <2>1, <2>2, <2>8, IDFacts
    DEF DestroyMainThread, Inv, ThreadsInv, StagesOK, QuietOK, Joined, Alone
  <2> QED
    BY <2>4, <2>5, <2>6, <2>7, <2>8, StatesChange
<1> QED
  BY <1>1, InvAlways, PTL DEF Spec, UnlockedPostsDontRace
=============================================================================
