-------------------------- MODULE PipelineManager --------------------------
(***************************************************************************)
(* DxvkPipelineManager: the compiler threads, the threads that give them    *)
(* jobs (the application, and the worker thread of DxvkStateCache), and     *)
(* what ~DxvkDevice does to stop them all.                                  *)
(***************************************************************************)
EXTENDS PipelineWorkers

CONSTANT MaxItems    \* bound: shaders registered that the state cache knows

ASSUME ManagerAssumption == MaxItems \in Nat

VARIABLES
  items,         \* length of DxvkStateCache::m_workerQueue
  cache,         \* its worker: "none", "loop", "wait", "notified", "item", "exited"
  stopThreads,   \* m_stopThreads
  registered,    \* items ever queued
  restarted,     \* history: its worker started compiler threads after they were stopped
  device         \* "alive", or how far ~DxvkDevice is: "stop", "join", "cache",
                 \* "cacheJoin", "objects", "joinAgain", "gone"; or "undefined"

cacheVars == <<items, cache, stopThreads, registered, restarted>>
vars      == <<poolVars, cacheVars, device>>

Init ==
  /\ PoolInit
  /\ items = 0 /\ cache = "none" /\ stopThreads = FALSE /\ registered = 0
  /\ restarted = FALSE
  /\ device = "alive"

-----------------------------------------------------------------------------
(* Shaders: the application and the CS thread                              *)

\* registerShader: the library of the shader is compiled ...
RegisterShader ==
  /\ device = "alive"
  /\ Compile(Normal, FALSE)
  /\ UNCHANGED <<cacheVars, device>>

\* ... and pipelines that the state cache has of it are, by its worker.
CacheRegisterShader ==
  /\ device = "alive"
  /\ registered < MaxItems
  /\ registered' = registered + 1
  /\ items' = items + 1
  /\ cache' = CASE cache = "none" -> "loop" [] cache = "wait" -> "notified" [] OTHER -> cache
  /\ UNCHANGED <<poolVars, stopThreads, restarted, device>>

\* requestCompileShader: the shader is about to be used.
RequestCompileShader ==
  /\ device = "alive"
  /\ Compile(High, FALSE)
  /\ UNCHANGED <<cacheVars, device>>

\* getPipelineHandle: an optimized variant replaces one linked from libraries.
CompileOptimized ==
  /\ device = "alive"
  /\ Gpl
  /\ Compile(Low, TRUE)
  /\ UNCHANGED <<cacheVars, device>>

-----------------------------------------------------------------------------
(* DxvkStateCache::workerFunc                                              *)

\* Mutant: the worker does not look at m_stopThreads before it waits.
CacheLoopLate ==
  /\ cache \in {"loop", "notified"}
  /\ IF items > 0 THEN cache' = "item" /\ items' = items - 1
     ELSE cache' = (IF stopThreads /\ cache = "notified" THEN "exited" ELSE "wait")
          /\ UNCHANGED items
  /\ UNCHANGED <<poolVars, stopThreads, registered, restarted, device>>

\* The loop and the wait: the worker takes an item, waits, or exits.
CacheLoop ==
  /\ cache \in {"loop", "notified"}
  /\ IF stopThreads /\ (cache = "loop" \/ items = 0) THEN cache' = "exited" /\ UNCHANGED items
     ELSE IF items > 0 THEN cache' = "item" /\ items' = items - 1
     ELSE cache' = "wait" /\ UNCHANGED items
  /\ UNCHANGED <<poolVars, stopThreads, registered, restarted, device>>

Joining == device \in {"join", "joinAgain"}

\* compilePipelines: a job for an entry of the item, also when the compiler threads
\* have been stopped. To start them while stopWorkers joins the old ones adds to the
\* vector that it iterates over without a lock, which is undefined: the new threads
\* are destroyed joinable (std::terminate), or joined although they run on.
CacheCompile ==
  /\ cache = "item"
  /\ IF Joining /\ ~running
     THEN device' = "undefined" /\ UNCHANGED poolVars
     ELSE /\ \E pipeline \in BOOLEAN : Compile(Normal, pipeline)
          /\ UNCHANGED device
  /\ restarted' = (restarted \/ (~running /\ device \notin {"alive", "stop"}))
  /\ UNCHANGED <<items, cache, stopThreads, registered>>

\* The item has no more entries.
CacheItemDone ==
  /\ cache = "item"
  /\ cache' = "loop"
  /\ UNCHANGED <<poolVars, items, stopThreads, registered, restarted, device>>

-----------------------------------------------------------------------------
(* ~DxvkDevice: stopWorkerThreads, then the members are destroyed.  The      *)
(* state cache worker may be in the middle of an item, or have some left.    *)

Destroy ==
  /\ device = "alive"
  /\ device' = "stop"
  /\ UNCHANGED <<poolVars, cacheVars>>

StopWorkers ==
  /\ device = "stop"
  /\ IF running THEN Stop /\ device' = "join" ELSE UNCHANGED poolVars /\ device' = "cache"
  /\ UNCHANGED cacheVars

JoinWorkers ==
  /\ device = "join"
  /\ Join
  /\ device' = "cache"
  /\ UNCHANGED cacheVars

\* DxvkStateCache::stopWorkers
StopCache ==
  /\ device = "cache"
  /\ stopThreads' = TRUE
  /\ cache' = IF cache = "wait" THEN "notified" ELSE cache
  /\ device' = "cacheJoin"
  /\ UNCHANGED <<poolVars, items, registered, restarted>>

JoinCache ==
  /\ device = "cacheJoin"
  /\ cache \in {"none", "exited"}
  /\ device' = "objects"
  /\ UNCHANGED <<poolVars, cacheVars>>

\* ~DxvkPipelineManager: pipelines and libraries go first, then DxvkStateCache, and at last
\* ~DxvkPipelineWorkers stops the threads once more.
StopAgain ==
  /\ device = "objects"
  /\ IF running THEN Stop /\ device' = "joinAgain" ELSE UNCHANGED poolVars /\ device' = "gone"
  /\ UNCHANGED cacheVars

JoinAgain ==
  /\ device = "joinAgain"
  /\ Join
  /\ device' = "gone"
  /\ UNCHANGED cacheVars

-----------------------------------------------------------------------------
CacheWorker == CacheLoop \/ CacheCompile \/ CacheItemDone

Teardown == StopWorkers \/ JoinWorkers \/ StopCache \/ JoinCache \/ StopAgain \/ JoinAgain

Worker(w) ==
  /\ Begin(w) \/ Sleep(w) \/ WakeUp(w) \/ SleepAgain(w) \/ Finish(w)
  /\ UNCHANGED <<cacheVars, device>>

Next ==
  /\ device # "undefined"
  /\ \/ RegisterShader
     \/ CacheRegisterShader
     \/ RequestCompileShader
     \/ CompileOptimized
     \/ CacheWorker
     \/ Destroy
     \/ Teardown
     \/ \E w \in Workers : Worker(w)

\* Threads run, a notified thread wakes up, and compiling a shader takes
\* finitely long; nothing makes a thread wake up that was not notified.
Fairness ==
  /\ \A w \in Workers : WF_vars((worker[w] = "wait" => w \in notified) /\ Worker(w))
  /\ WF_vars(CacheLoop) /\ WF_vars(CacheItemDone)
  /\ WF_vars(Teardown)

Spec == Init /\ [][Next]_vars

FairSpec == Spec /\ Fairness

-----------------------------------------------------------------------------
(* Properties                                                              *)

TypeOK ==
  /\ queue \in [Priorities -> Seq(Entries)]
  /\ idleWorkers \in [Priorities -> 0 .. NumWorkers]
  /\ running \in BOOLEAN
  /\ worker \in [Workers -> {"none", "start", "wait", "compile", "exited"}]
  /\ notified \subseteq {w \in Workers : worker[w] = "wait"}
  /\ entry \in [Workers -> Entries \cup {NoEntry}]
  /\ {tasksTotal, tasksCompleted, useCount, items, registered} \subseteq Nat
  /\ cache \in {"none", "loop", "wait", "notified", "item", "exited"}
  /\ stopThreads \in BOOLEAN /\ restarted \in BOOLEAN
  /\ device \in {"alive", "stop", "join", "cache", "cacheJoin", "objects", "joinAgain", "gone",
                 "undefined"}

\* A job that waits in a queue never waits for another job to be queued: some
\* worker that serves its queue is awake or will be.
PendingIsServed ==
  \A p \in Priorities : running /\ queue[p] # <<>> =>
    \E w \in Workers : MaxPriority(w) >= p /\ (worker[w] \in {"start", "compile"} \/ w \in notified)

Queued == UNION {{<<p, i>> : i \in 1 .. Len(queue[p])} : p \in Priorities}

Compiling == {w \in Workers : worker[w] = "compile"}

\* The progress that is shown is exact, and pipelines in queues and in
\* compilation are held so that nothing is destroyed under a compiler thread.
\* (TypeOK is its first part.)
JobsAccounted ==
  /\ TypeOK
  /\ device = "alive" =>
    /\ tasksTotal - tasksCompleted = Cardinality(Queued) + Cardinality(Compiling)
    /\ useCount = Cardinality({x \in Queued : queue[x[1]][x[2]].pipeline})
                  + Cardinality({w \in Compiling : entry[w].pipeline})

\* Every job gets its turn unless the device is destroyed first, whatever its
\* priority.
EveryJobCompiles ==
  \A id \in 1 .. MaxTasks :
    (\E x \in Queued : queue[x[1]][x[2]].id = id)
      ~> ((\E w \in Workers : entry[w].id = id) \/ device # "alive")

\* The comment at dxvk_device.cpp:39, as far as the code keeps it: unless the state cache
\* worker has started compiler threads after they were stopped, none of them is left
\* when the state cache is stopped and when shaders and pipelines are destroyed. Even if it has,
\* none is left, and none joinable, in the end, unless it did so while they were joined.
TornDown ==
  /\ device \in {"cache", "cacheJoin", "objects", "joinAgain"} /\ ~restarted =>
       \A w \in Workers : worker[w] = "none"
  /\ device = "gone" => /\ \A w \in Workers : worker[w] = "none"
                        /\ cache \in {"none", "exited"}

\* Destroying the device terminates, and leaves nothing behind, whatever the state
\* cache worker is doing: threads that it starts late are stopped once more.
DestroyReturns ==
  /\ device = "stop" ~> device \in {"gone", "undefined"}
  /\ []TornDown

=============================================================================
