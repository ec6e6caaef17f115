--------------------------- MODULE URLDataSources ---------------------------
(* The data sources of chrome:// pages on the threads of WebThreads: the UI    *)
(* thread adds reference-counted sources, the backend of a BrowserState keeps  *)
(* them on the IO thread by name and starts requests, sources answer on the UI *)
(* thread, and URLDataManagerIOS deletes a source on the UI thread wherever    *)
(* its last reference was dropped.                                             *)
(*                                                                             *)
(* One BrowserState, and sources of one name: only they replace each other.    *)
(* References are counted from where they are kept: the backend's map, tasks   *)
(* and requests.  BrowserState frees itself while AddDataSourceOnIOThread may  *)
(* be queued with an unretained pointer to it: the freed object still reads as *)
(* it was.                                                                     *)
EXTENDS WebThreads, SequencesExt, FiniteSets

CONSTANTS
  Sources,   \* URLDataSourceIOSImpl objects, all with the same name
  Replacing, \* those with ShouldReplaceExistingSource()
  Jobs,      \* URLRequestChromeJob objects, whose URLs have that name
  None       \* no source, no request

ASSUME SourcesAssumption ==
  Replacing \subseteq Sources /\ IsFiniteSet(Sources) /\ None \notin Sources \cup Jobs

VARIABLES
  source,           \* source -> "new", "alive", "scheduled" or "deleted"
  registered,       \* the backend's data_sources_: the source of the name, or None
  attached,         \* sources whose backend_ is set
  backend,          \* BrowserState's backend: "none", "live" or "deleted"
  data_sources,     \* URLDataManagerIOS::data_sources_, to be deleted
  job               \* request -> its phase, source_ and (history) whom it asked

sourceVars == <<source, registered, attached, backend, data_sources, job>>
vars       == <<threadVars, sourceVars>>

Kinds == {"noop", "AddDataSourceOnIOThread", "GetMimeTypeOnUI", "CallStartRequest",
          "MimeTypeAvailable", "SendResponseOnIOThread", "DeleteDataSources",
          "DeleteNetworkContext", "DeleteBackend"}

Task(kind, s, j) == [kind |-> kind, source |-> s, job |-> j]

Noop == Task("noop", None, None)
-----------------------------------------------------------------------------
(* References.                                                                 *)

TasksIn(q, c) ==
  (UNION {ToSet(q[id]) : id \in IDs})
    \cup (UNION {{call.task : call \in ToSet(c[t])} : t \in Threads})

(* Sources whose last reference is gone once the map holds r, the requests are *)
(* j and the tasks are those of q and c.                                       *)
Released(r, j, q, c) ==
  {s \in Sources : /\ source[s] = "alive" /\ r # s
                   /\ \A k \in Jobs : j[k].source # s
                   /\ \A task \in TasksIn(q, c) : task.source # s}

\* Mutant: asks whether the list is empty after the source was pushed.
DeletePostAfterPush(t, gone) == << >>

(* DeleteDataSource on thread t: at once on the UI thread; otherwise the source*)
(* is pushed under the delete lock, and a task posted if it is the first.      *)
DeletePost(t, gone) ==
  IF t # "UI" /\ gone # {} /\ data_sources = << >>
    THEN <<Post("UI", Task("DeleteDataSources", None, None))>> ELSE << >>

DeleteDataSource(t, gone) ==
  /\ source' = [s \in Sources |->
                  IF s \notin gone THEN source[s]
                  ELSE IF t = "UI" THEN "deleted" ELSE "scheduled"]
  /\ data_sources' = IF t = "UI" THEN data_sources ELSE data_sources \o SetToSeq(gone)

(* The end of a handler of thread t that leaves q as the queues, makes `posts',*)
(* and leaves the map and the requests as r and j.                             *)
Handled(t, q, posts, r, j) ==
  LET gone == Released(r, j, q, [calls EXCEPT ![t] = posts])
  IN /\ queue' = q
     /\ registered' = r /\ job' = j
     /\ DeleteDataSource(t, gone)
     /\ calls' = [calls EXCEPT ![t] = posts \o DeletePost(t, gone)]
     /\ UNCHANGED <<states, task_runners, lock, posting, main, io>>

CanRun(t) ==
  /\ Idle(t)
  /\ IF t = "UI" THEN main = "running" ELSE io \in {"running", "quitting"}

(* The next task of t's message loop is of the given kind.                     *)
Next1(t, kind) == CanRun(t) /\ queue[t] # << >> /\ Head(queue[t]).kind = kind

Dequeued(t) == [queue EXCEPT ![t] = Tail(@)]
-----------------------------------------------------------------------------
(* Adding a source.                                                            *)

AddDataSource(s) ==
  /\ CanRun("UI") /\ source[s] = "new"
  /\ source' = [source EXCEPT ![s] = "alive"]
  /\ calls' = [calls EXCEPT !["UI"] =
                 <<Post("IO", Task("AddDataSourceOnIOThread", s, None))>>]
  /\ UNCHANGED <<states, task_runners, lock, queue, posting, main, io,
                 registered, attached, backend, data_sources, job>>

\* Mutant: the source that is replaced keeps its backend_.
AttachedKeepingOld(s) == attached \cup {s}

(* The replaced source loses its backend_.                                     *)
AttachedAfterAdding(s) == (attached \ {registered}) \cup {s}

AddDataSourceOnIOThread ==
  /\ Next1("IO", "AddDataSourceOnIOThread")
  /\ LET s == Head(queue["IO"]).source
         added == registered = None \/ s \in Replacing
     IN /\ attached' = IF added THEN AttachedAfterAdding(s) ELSE attached
        /\ Handled("IO", Dequeued("IO"), << >>, IF added THEN s ELSE registered, job)
  /\ backend' = "live"
-----------------------------------------------------------------------------
(* A request.                                                                  *)

(* The tasks StartRequest posts, in this order.                                *)
RequestPosts(s, j) ==
  <<Post("UI", Task("GetMimeTypeOnUI", s, j)), Post("UI", Task("CallStartRequest", s, j))>>

(* URLRequestChromeJob::Start creates the backend if need be; without a source *)
(* of the name the request fails.                                              *)
Start(j) ==
  /\ CanRun("IO") /\ job[j].phase = "idle" /\ states["IO"] = "RUNNING"
  /\ backend' = "live"
  /\ IF registered = None
       THEN Handled("IO", queue, << >>, registered, [job EXCEPT ![j].phase = "failed"])
       ELSE Handled("IO", queue, RequestPosts(registered, j), registered,
                    [job EXCEPT ![j].phase = "pending", ![j].asked = registered])
  /\ UNCHANGED attached

GetMimeTypeOnUI ==
  /\ Next1("UI", "GetMimeTypeOnUI")
  /\ LET task == Head(queue["UI"])
     IN Handled("UI", Dequeued("UI"),
                <<Post("IO", [task EXCEPT !.kind = "MimeTypeAvailable"])>>, registered, job)
  /\ UNCHANGED <<attached, backend>>

(* Every source calls SendResponse within StartDataRequest.                    *)
CallStartRequest ==
  /\ Next1("UI", "CallStartRequest")
  /\ LET task == Head(queue["UI"])
     IN Handled("UI", Dequeued("UI"),
                <<Post("IO", [task EXCEPT !.kind = "SendResponseOnIOThread"])>>,
                registered, job)
  /\ UNCHANGED <<attached, backend>>

(* Bound to a weak pointer of the request; an HTML response keeps the source.  *)
MimeTypeAvailable ==
  /\ Next1("IO", "MimeTypeAvailable")
  /\ LET task == Head(queue["IO"])
         j == task.job
     IN \E html \in BOOLEAN :
          Handled("IO", Dequeued("IO"), << >>, registered,
            IF job[j].phase \in {"killed", "failed"} THEN job
            ELSE [job EXCEPT ![j].source = IF html THEN task.source ELSE @])
  /\ UNCHANGED <<attached, backend>>

\* Mutant: the request must have kept the source, as an HTML one does.
ServesKeptSource(task) == job[task.job].source = task.source

(* The source has not been detached, and the request is in pending_requests_.  *)
Serves(task) == task.source \in attached /\ job[task.job].phase = "pending"

(* DataAvailable, or the data is thrown away.                                  *)
SendResponseOnIOThread ==
  /\ Next1("IO", "SendResponseOnIOThread")
  /\ LET task == Head(queue["IO"])
     IN Handled("IO", Dequeued("IO"), << >>, registered,
                IF Serves(task) THEN [job EXCEPT ![task.job].phase = "answered"] ELSE job)
  /\ UNCHANGED <<attached, backend>>

Gone(j) == [job[j] EXCEPT !.phase = "killed", !.source = None]

(* The URLRequest is destroyed: Kill() removes the request and drops its weak  *)
(* pointers, and the job's references go with it.                              *)
Kill(j) ==
  /\ CanRun("IO") /\ job[j].phase \in {"pending", "answered", "failed"}
  /\ Handled("IO", queue, << >>, registered, [job EXCEPT ![j] = Gone(j)])
  /\ UNCHANGED <<attached, backend>>
-----------------------------------------------------------------------------
(* Deletion and shutdown.                                                      *)

(* DeleteDataSources: takes the list under the delete lock.                    *)
DeleteAllScheduled ==
  /\ source' = [s \in Sources |-> IF s \in ToSet(data_sources) THEN "deleted" ELSE source[s]]
  /\ data_sources' = << >>

DeleteDataSources ==
  /\ Next1("UI", "DeleteDataSources")
  /\ queue' = Dequeued("UI")
  /\ DeleteAllScheduled
  /\ UNCHANGED <<states, task_runners, lock, posting, calls, main, io,
                 registered, attached, backend, job>>

RunNoop(t) ==
  /\ Next1(t, "noop")
  /\ Handled(t, Dequeued(t), << >>, registered, job)
  /\ UNCHANGED <<attached, backend>>

(* ~BrowserState deletes the network context on the IO thread, and with it its *)
(* requests, and the backend if it sees one.                                   *)
DestroyBrowserState ==
  /\ TearDown(<<Post("IO", Task("DeleteNetworkContext", None, None))>>
               \o IF backend = "live"
                    THEN <<Post("IO", Task("DeleteBackend", None, None))>> ELSE << >>)
  /\ UNCHANGED sourceVars

DeleteNetworkContext ==
  /\ Next1("IO", "DeleteNetworkContext")
  /\ Handled("IO", Dequeued("IO"), << >>, registered, [j \in Jobs |-> Gone(j)])
  /\ UNCHANGED <<attached, backend>>

DeleteBackend ==
  /\ Next1("IO", "DeleteBackend")
  /\ backend' = "deleted"
  /\ attached' = attached \ {registered}
  /\ Handled("IO", Dequeued("IO"), << >>, None, job)

\* Mutant: relies on the task that was posted to the UI thread.
FinalDeleteLeftOut ==
  /\ main = "pool_down" /\ main' = "sources_deleted"
  /\ UNCHANGED <<states, task_runners, lock, queue, calls, posting, io, sourceVars>>

(* The last step of ShutdownThreadsAndCleanUp.                                 *)
FinalDelete ==
  /\ main = "pool_down" /\ main' = "sources_deleted"
  /\ DeleteAllScheduled
  /\ UNCHANGED <<states, task_runners, lock, queue, calls, posting, io,
                 registered, attached, backend, job>>

(* Posts that are refused, and loops that are destroyed, drop references too.  *)
PostTask(t) ==
  LET gone == Released(registered, job, QueueAfterPost(t), [calls EXCEPT ![t] = Tail(@)])
  IN /\ posting[t] # NoPost
     /\ EndPost(t, DeletePost(t, gone))
     /\ DeleteDataSource(t, gone)
     /\ UNCHANGED <<registered, attached, backend, job>>

LostWithLoop(t) == Released(registered, job, [queue EXCEPT ![t] = << >>], calls)

DestroyLoop(t) ==
  /\ \/ t = "IO" /\ DestroyIOLoop(DeletePost(t, LostWithLoop(t)))
     \/ t = "UI" /\ DestroyUILoop
  /\ DeleteDataSource(t, LostWithLoop(t))
  /\ UNCHANGED <<registered, attached, backend, job>>
-----------------------------------------------------------------------------
Init ==
  /\ ThreadsInit
  /\ source = [s \in Sources |-> "new"]
  /\ registered = None
  /\ attached = {}
  /\ backend = "none"
  /\ data_sources = << >>
  /\ job = [j \in Jobs |-> [phase |-> "idle", source |-> None, asked |-> None]]

RunTask(t) ==
  \/ RunNoop(t)
  \/ /\ t = "IO"
     /\ \/ AddDataSourceOnIOThread \/ MimeTypeAvailable \/ SendResponseOnIOThread
        \/ DeleteNetworkContext \/ DeleteBackend
  \/ /\ t = "UI"
     /\ GetMimeTypeOnUI \/ CallStartRequest \/ DeleteDataSources

StartUp ==
  /\ InitializeMainThread \/ CreateThreads \/ RegisterAsWebThread
       \/ PostCompleteInitialization(Noop)
  /\ UNCHANGED sourceVars

(* The steps of the shutdown once it has begun, one after the other.           *)
ShutDown ==
  \/ /\ StopIOThread \/ IOLoopEnds \/ CleanUp \/ IOThreadExits \/ JoinIOThread
          \/ ShutdownThreadPool \/ DestroyMainThread
     /\ UNCHANGED sourceVars
  \/ DestroyBrowserState
  \/ FinalDelete
  \/ \E t \in IDs : DestroyLoop(t)

(* At most one task of a worker is under way.                                  *)
Worker ==
  /\ Noop \notin TasksIn(queue, calls)
  /\ \E id \in IDs : WorkerCalls(id, Noop)
  /\ UNCHANGED sourceVars

Next ==
  \/ StartUp \/ ShutDown \/ Worker
  \/ StartShutdown(<<Post("IO", Noop)>>) /\ UNCHANGED sourceVars
  \/ \E t \in Threads : BeginPost(t) /\ UNCHANGED sourceVars
  \/ \E t \in Threads : PostTask(t)
  \/ \E t \in IDs : RunTask(t)
  \/ \E s \in Sources : AddDataSource(s)
  \/ \E j \in Jobs : Start(j) \/ Kill(j)
  \/ Terminated /\ UNCHANGED vars

Spec == Init /\ [][Next]_vars

(* Threads run: a post that was begun is finished, loops run their tasks, and  *)
(* the shutdown goes on.  The lock is strongly fair: a thread that waits for   *)
(* it gets it.  Whether the app starts requests, or shuts down, is open.       *)
Fairness ==
  /\ \A t \in Threads : /\ SF_vars(BeginPost(t) /\ UNCHANGED sourceVars)
                        /\ WF_vars(PostTask(t))
  /\ \A t \in IDs : WF_vars(RunTask(t))
  /\ SF_vars(StartUp) /\ SF_vars(ShutDown)

FairSpec == Spec /\ Fairness
-----------------------------------------------------------------------------
TypeOK ==
  /\ ThreadsTypeOK([kind : Kinds, source : Sources \cup {None}, job : Jobs \cup {None}])
  /\ source \in [Sources -> {"new", "alive", "scheduled", "deleted"}]
  /\ registered \in Sources \cup {None}
  /\ attached \subseteq Sources
  /\ backend \in {"none", "live", "deleted"}
  /\ data_sources \in Seq(Sources) /\ IsInjective(data_sources)
  /\ job \in [Jobs -> [phase : {"idle", "pending", "answered", "failed", "killed"},
                       source : Sources \cup {None},
                       asked : Sources \cup {None}]]

(* PostTaskHelper may leave out the lock: no thread changes the state of an    *)
(* identifier while another reads it without the lock.                         *)
UnlockedPostsDontRace ==
  [][\A t \in Threads :
       posting[t] = "unlocked" => LET id == Head(calls[t]).to IN states'[id] = states[id]]_vars

(* The raw pointer backend_ never dangles: no source, replaced ones included,  *)
(* still points to a backend that was deleted.                                 *)
BackendPointerIsValid == backend = "deleted" => attached = {}

(* At the end of the process every source that was added has been deleted,     *)
(* except one added to a backend that was created when the BrowserState had    *)
(* already looked for it.                                                      *)
NoSourceIsLeaked ==
  Terminated => \A s \in Sources :
    source[s] \in {"new", "deleted"} \/ (backend = "live" /\ registered = s)

(* A source whose last reference went away on another thread is deleted on the *)
(* UI thread in the end, however many join the list meanwhile.                 *)
ScheduledSourcesAreDeleted ==
  \A s \in Sources : source[s] = "scheduled" ~> source[s] = "deleted"

(* A request gets its data or is cancelled, unless its source was detached:    *)
(* SendResponseOnIOThread throws the data of a replaced source away.           *)
RequestIsServedUnlessDetached ==
  \A j \in Jobs :
    job[j].phase = "pending" ~> (job[j].phase # "pending" \/ job[j].asked \notin attached)
=============================================================================
