----------------------------- MODULE WebThreads -----------------------------
(* The two named threads of //ios/web (WebThread::UI, the main thread, and     *)
(* WebThread::IO), how tasks are posted to them and how WebMainLoop starts and *)
(* stops them.  A third thread stands for the workers of base::ThreadPool.     *)
(*                                                                             *)
(* PostTaskHelper takes two steps, because it reads `states' without the lock  *)
(* when the target is known to outlive the caller: other threads may act in    *)
(* between.  What the tasks do is left to the modules that extend this one.    *)
EXTENDS Sequences, Naturals

IDs     == {"UI", "IO"}
Threads == IDs \cup {"worker"}
Rank    == [UI |-> 0, IO |-> 1]     \* the order of enum WebThread::ID

NoPost == "none"
Free   == "free"

VARIABLES
  states,        \* WebThreadGlobals::states
  task_runners,  \* identifiers whose task runner is set; it is never cleared
  lock,          \* holder of WebThreadGlobals::lock, or Free
  queue,         \* identifier -> tasks of its message loop
  calls,         \* thread -> posts its current handler still has to make
  posting,       \* thread -> NoPost, or how it is inside PostTaskHelper
  main,          \* how far WebMainLoop has come
  io             \* life of the IO thread

threadVars == <<states, task_runners, lock, queue, calls, posting, main, io>>

(* The steps of WebMainLoop, in their order.                                   *)
Stages == {"boot", "ui_registered", "io_started", "io_registered", "running",
           "stopping", "states_gone", "joining", "joined", "pool_down",
           "sources_deleted", "unregistered", "exited"}

Post(to, task) == [to |-> to, task |-> task]

Idle(t) == calls[t] = << >>
-----------------------------------------------------------------------------
\* Mutant: a thread without an identifier keeps ID_COUNT and compares it.
OutlivesOnAnyThread(t, to) == t \notin IDs \/ Rank[t] >= Rank[to]

(* target_thread_outlives_current.                                             *)
Outlives(t, to) == t \in IDs /\ t \in task_runners /\ Rank[t] >= Rank[to]

(* PostTaskHelper, first half: GetCurrentThreadIdentifier takes and releases   *)
(* the lock, which is taken again unless the target outlives the caller.       *)
BeginPost(t) ==
  /\ ~Idle(t) /\ posting[t] = NoPost /\ lock = Free
  /\ LET unlocked == Outlives(t, Head(calls[t]).to)
     IN /\ posting' = [posting EXCEPT ![t] = IF unlocked THEN "unlocked" ELSE "locked"]
        /\ lock' = IF unlocked THEN Free ELSE t
  /\ UNCHANGED <<states, task_runners, queue, calls, main, io>>

(* Second half: the task is accepted if the target is RUNNING, and destroyed   *)
(* on the calling thread otherwise; `more' are the posts its destruction makes.*)
QueueAfterPost(t) ==
  LET call == Head(calls[t])
  IN IF states[call.to] = "RUNNING"
       THEN [queue EXCEPT ![call.to] = Append(@, call.task)] ELSE queue

\* Mutant: returns early, with the lock held, when the task is refused.
EndPostKeepsLock(t, more) ==
  /\ posting[t] # NoPost
  /\ queue' = QueueAfterPost(t)
  /\ calls' = [calls EXCEPT ![t] = Tail(@) \o more]
  /\ posting' = [posting EXCEPT ![t] = NoPost]
  /\ lock' = IF lock = t /\ queue' # queue THEN Free ELSE lock
  /\ UNCHANGED <<states, task_runners, main, io>>

EndPost(t, more) ==
  /\ posting[t] # NoPost
  /\ queue' = QueueAfterPost(t)
  /\ calls' = [calls EXCEPT ![t] = Tail(@) \o more]
  /\ posting' = [posting EXCEPT ![t] = NoPost]
  /\ lock' = IF lock = t THEN Free ELSE lock
  /\ UNCHANGED <<states, task_runners, main, io>>

(* Constructor and destructor of WebThreadImpl, under the lock.                *)
Register(id) ==
  /\ lock = Free
  /\ states' = [states EXCEPT ![id] = "RUNNING"]
  /\ task_runners' = task_runners \cup {id}

Unregister(id) ==
  /\ lock = Free
  /\ states' = [states EXCEPT ![id] = "SHUTDOWN"]
  /\ task_runners' = task_runners
-----------------------------------------------------------------------------
(* The main thread starts.                                                     *)

InitializeMainThread ==
  /\ main = "boot" /\ main' = "ui_registered"
  /\ Register("UI")
  /\ UNCHANGED <<lock, queue, calls, posting, io>>

(* CreateThreads starts the thread pool and the IO thread; then                *)
(* RegisterAsWebThread makes the thread known,                                 *)
CreateThreads ==
  /\ main = "ui_registered" /\ main' = "io_started"
  /\ io' = "running"
  /\ UNCHANGED <<states, task_runners, lock, queue, calls, posting>>

RegisterAsWebThread ==
  /\ main = "io_started" /\ main' = "io_registered"
  /\ Register("IO")
  /\ UNCHANGED <<lock, queue, calls, posting, io>>

(* and posts CompleteInitializationOnWebThread to its own task runner.         *)
PostCompleteInitialization(init) ==
  /\ main = "io_registered" /\ main' = "running"
  /\ queue' = [queue EXCEPT !["IO"] = Append(@, init)]
  /\ UNCHANGED <<states, task_runners, lock, calls, posting, io>>

(* A worker posts a task.                                                      *)
WorkerCalls(to, task) ==
  /\ main \notin {"boot", "ui_registered", "pool_down", "sources_deleted",
                  "unregistered", "exited"}
  /\ Idle("worker")
  /\ calls' = [calls EXCEPT !["worker"] = <<Post(to, task)>>]
  /\ UNCHANGED <<states, task_runners, lock, queue, posting, main, io>>
-----------------------------------------------------------------------------
(* ShutdownThreadsAndCleanUp: the UI message loop has stopped.                 *)

(* its posts to the IO thread, then PostMainMessageLoopRun tears down the      *)
(* application and with it the BrowserStates,                                  *)
StartShutdown(posts) ==
  /\ main = "running" /\ main' = "stopping"
  /\ Idle("UI")
  /\ calls' = [calls EXCEPT !["UI"] = posts]
  /\ UNCHANGED <<states, task_runners, lock, queue, posting, io>>

TearDown(posts) ==
  /\ main = "stopping" /\ main' = "states_gone"
  /\ Idle("UI")
  /\ calls' = [calls EXCEPT !["UI"] = posts]
  /\ UNCHANGED <<states, task_runners, lock, queue, posting, io>>

(* io_thread_.reset(): asks the loop to quit when it is idle, and joins.       *)
StopIOThread ==
  /\ main = "states_gone" /\ main' = "joining"
  /\ Idle("UI")
  /\ io' = "quitting"
  /\ UNCHANGED <<states, task_runners, lock, queue, calls, posting>>

IOLoopEnds ==
  /\ io = "quitting" /\ io' = "cleanup"
  /\ Idle("IO") /\ queue["IO"] = << >>
  /\ UNCHANGED <<states, task_runners, lock, queue, calls, posting, main>>

(* CleanUp(): the delegate's, then web_thread_.reset().                        *)
CleanUp ==
  /\ io = "cleanup" /\ io' = "unregistered"
  /\ Unregister("IO")
  /\ UNCHANGED <<lock, queue, calls, posting, main>>

(* The message loop is destroyed with the tasks it accepted after it ended.    *)
DestroyIOLoop(more) ==
  /\ io = "unregistered" /\ io' = "destroyed"
  /\ queue' = [queue EXCEPT !["IO"] = << >>]
  /\ calls' = [calls EXCEPT !["IO"] = more]
  /\ UNCHANGED <<states, task_runners, lock, posting, main>>

IOThreadExits ==
  /\ io = "destroyed" /\ io' = "exited"
  /\ Idle("IO")
  /\ UNCHANGED <<states, task_runners, lock, queue, calls, posting, main>>

JoinIOThread ==
  /\ main = "joining" /\ main' = "joined"
  /\ io = "exited"
  /\ UNCHANGED <<states, task_runners, lock, queue, calls, posting, io>>

ShutdownThreadPool ==
  /\ main = "joined" /\ main' = "pool_down"
  /\ Idle("worker")
  /\ UNCHANGED <<states, task_runners, lock, queue, calls, posting, io>>

(* The WebMainLoop is destroyed: main_thread_, then the main thread's executor *)
(* with the tasks that never ran.                                              *)
DestroyMainThread ==
  /\ main = "sources_deleted" /\ main' = "unregistered"
  /\ Idle("UI")
  /\ Unregister("UI")
  /\ UNCHANGED <<lock, queue, calls, posting, io>>

DestroyUILoop ==
  /\ main = "unregistered" /\ main' = "exited"
  /\ queue' = [queue EXCEPT !["UI"] = << >>]
  /\ UNCHANGED <<states, task_runners, lock, calls, posting, io>>

Terminated == main = "exited"
-----------------------------------------------------------------------------
ThreadsInit ==
  /\ states = [id \in IDs |-> "UNINITIALIZED"]
  /\ task_runners = {}
  /\ lock = Free
  /\ queue = [id \in IDs |-> << >>]
  /\ calls = [t \in Threads |-> << >>]
  /\ posting = [t \in Threads |-> NoPost]
  /\ main = "boot" /\ io = "off"

ThreadsTypeOK(Task) ==
  /\ states \in [IDs -> {"UNINITIALIZED", "RUNNING", "SHUTDOWN"}]
  /\ task_runners \subseteq IDs
  /\ lock \in Threads \cup {Free}
  /\ queue \in [IDs -> Seq(Task)]
  /\ calls \in [Threads -> Seq([to : IDs, task : Task])]
  /\ posting \in [Threads -> {NoPost, "locked", "unlocked"}]
  /\ main \in Stages
  /\ io \in {"off", "running", "quitting", "cleanup", "unregistered", "destroyed",
             "exited"}
  /\ \A t \in Threads : posting[t] = "locked" <=> lock = t
=============================================================================
