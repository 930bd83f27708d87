-------------------------- MODULE PipelineWorkers --------------------------
(***************************************************************************)
(* DxvkPipelineWorkers (src/dxvk/dxvk_pipemanager.cpp): threads compile     *)
(* shader pipelines from three queues.  Each worker has a lowest priority   *)
(* that it serves and sleeps on the condition variable of that priority;    *)
(* a critical section of m_lock is one action.  The actions here are used   *)
(* by PipelineManager, where the callers are.                              *)
(***************************************************************************)
EXTENDS Integers, Sequences, FiniteSets, FiniteSetsExt

CONSTANTS
  NumWorkers,   \* workerCount
  Gpl,          \* canUseGraphicsPipelineLibrary
  MaxTasks      \* bound: compile jobs ever queued

ASSUME WorkersAssumption ==
  /\ NumWorkers \in Nat \ {0}
  /\ Gpl \in BOOLEAN
  /\ MaxTasks \in Nat

VARIABLES
  queue,           \* queue[p]: the entries of bucket p, high priority first
  idleWorkers,     \* idleWorkers[p] of bucket p
  running,         \* m_workersRunning
  worker,          \* what worker w does: "none", "start", "wait", "compile", "exited"
  notified,        \* the waiting workers whose condition variable was notified
  entry,           \* entry[w]: what worker w compiles
  tasksTotal,      \* m_tasksTotal
  tasksCompleted,  \* m_tasksCompleted
  useCount         \* what the queues and workers add to m_useCount of pipelines

poolVars == <<queue, idleWorkers, running, worker, notified, entry,
              tasksTotal, tasksCompleted, useCount>>

Workers == 0 .. NumWorkers - 1

High == 0
Normal == 1
Low == 2

Priorities == {High, Normal, Low}

\* A job: pipelines are counted references, shader libraries are not.
Entries == [id : 1 .. MaxTasks, pipeline : BOOLEAN]

NoEntry == [id |-> 0, pipeline |-> FALSE]

\* Mutant: with few workers, none serves the last queue.
MaxPriorityNoMin(w) ==
  LET np == Max({((NumWorkers - 1) * 5) \div 7, 1})
      lp == ((NumWorkers - 1) * 2) \div 7
  IN IF ~Gpl THEN Normal ELSE IF w >= np THEN High ELSE IF w < lp THEN Low ELSE Normal

\* startWorkers: a few workers serve all queues, and some the first one only.
MaxPriority(w) ==
  LET np == Max({((NumWorkers - 1) * 5) \div 7, 1})
      lp == Max({((NumWorkers - 1) * 2) \div 7, 1})
  IN IF ~Gpl THEN Normal ELSE IF w >= np THEN High ELSE IF w < lp THEN Low ELSE Normal

PoolInit ==
  /\ queue = [p \in Priorities |-> <<>>]
  /\ idleWorkers = [p \in Priorities |-> 0]
  /\ running = FALSE
  /\ worker = [w \in Workers |-> "none"]
  /\ notified = {}
  /\ entry = [w \in Workers |-> NoEntry]
  /\ tasksTotal = 0 /\ tasksCompleted = 0 /\ useCount = 0

-----------------------------------------------------------------------------
(* Jobs                                                                    *)

\* Those that notify_one for bucket p may wake.
Waiting(p) == {w \in Workers : MaxPriority(w) = p /\ worker[w] = "wait" /\ w \notin notified}

\* notifyWorkers: the first bucket with idle workers gets one notification,
\* which is lost when they have all been notified already.
NotifyWorkers(p) ==
  LET idle == {i \in p .. Low : idleWorkers[i] > 0}
  IN IF idle = {} \/ Waiting(Min(idle)) = {} THEN UNCHANGED notified
     ELSE \E w \in Waiting(Min(idle)) : notified' = notified \cup {w}

\* compilePipelineLibrary and compileGraphicsPipeline: workers are started
\* unless they run.
Compile(p, pipeline) ==
  /\ tasksTotal < MaxTasks
  /\ tasksTotal' = tasksTotal + 1
  /\ running' = TRUE
  /\ worker' = IF running THEN worker ELSE [w \in Workers |-> "start"]
  /\ useCount' = IF pipeline THEN useCount + 1 ELSE useCount
  /\ queue' = [queue EXCEPT ![p] = Append(@, [id |-> tasksTotal + 1, pipeline |-> pipeline])]
  /\ NotifyWorkers(p)
  /\ UNCHANGED <<idleWorkers, entry, tasksCompleted>>

-----------------------------------------------------------------------------
(* Workers                                                                 *)

\* The queues that worker w finds something in.
Pending(w) == {p \in 0 .. MaxPriority(w) : queue[p] # <<>>}

\* The worker takes an entry, and drops it if the workers are to stop.
TakeEntry(w) ==
  LET p == Min(Pending(w))
  IN /\ queue' = [queue EXCEPT ![p] = Tail(@)]
     /\ entry' = [entry EXCEPT ![w] = IF running THEN Head(queue[p]) ELSE NoEntry]

\* The predicate of the wait: true once an entry has been taken, or at a stop.
Fetch(w) ==
  IF Pending(w) # {} THEN TakeEntry(w) ELSE ~running /\ UNCHANGED <<queue, entry>>

Proceed(w) == worker' = [worker EXCEPT ![w] = IF running THEN "compile" ELSE "exited"]

\* The worker locks m_lock and finds an entry, or has to stop ...
Begin(w) ==
  /\ worker[w] = "start"
  /\ Fetch(w)
  /\ Proceed(w)
  /\ UNCHANGED <<idleWorkers, running, notified, tasksTotal, tasksCompleted, useCount>>

\* Mutant: the worker waits for a notification before it looks at the queues.
SleepBlind(w) ==
  /\ worker[w] = "start" /\ running
  /\ worker' = [worker EXCEPT ![w] = "wait"]
  /\ idleWorkers' = [idleWorkers EXCEPT ![MaxPriority(w)] = @ + 1]
  /\ UNCHANGED <<queue, running, notified, entry, tasksTotal, tasksCompleted, useCount>>

\* ... or waits for a notification, ...
Sleep(w) ==
  /\ worker[w] = "start"
  /\ Pending(w) = {} /\ running
  /\ worker' = [worker EXCEPT ![w] = "wait"]
  /\ idleWorkers' = [idleWorkers EXCEPT ![MaxPriority(w)] = @ + 1]
  /\ UNCHANGED <<queue, running, notified, entry, tasksTotal, tasksCompleted, useCount>>

\* ... after which it looks again.  A wakeup may be spurious.
WakeUp(w) ==
  /\ worker[w] = "wait"
  /\ Fetch(w)
  /\ Proceed(w)
  /\ notified' = notified \ {w}
  /\ idleWorkers' = [idleWorkers EXCEPT ![MaxPriority(w)] = @ - 1]
  /\ UNCHANGED <<running, tasksTotal, tasksCompleted, useCount>>

\* Another worker was faster.
SleepAgain(w) ==
  /\ worker[w] = "wait" /\ w \in notified
  /\ Pending(w) = {} /\ running
  /\ notified' = notified \ {w}
  /\ UNCHANGED <<queue, idleWorkers, running, worker, entry, tasksTotal, tasksCompleted,
                 useCount>>

\* Mutant: a pipeline is not released.
FinishHeld(w) ==
  /\ worker[w] = "compile"
  /\ worker' = [worker EXCEPT ![w] = "start"]
  /\ entry' = [entry EXCEPT ![w] = NoEntry]
  /\ tasksCompleted' = tasksCompleted + 1
  /\ UNCHANGED <<queue, idleWorkers, running, notified, tasksTotal, useCount>>

\* The entry is compiled and, if it is a pipeline, released.
Finish(w) ==
  /\ worker[w] = "compile"
  /\ worker' = [worker EXCEPT ![w] = "start"]
  /\ useCount' = IF entry[w].pipeline THEN useCount - 1 ELSE useCount
  /\ entry' = [entry EXCEPT ![w] = NoEntry]
  /\ tasksCompleted' = tasksCompleted + 1
  /\ UNCHANGED <<queue, idleWorkers, running, notified, tasksTotal>>

-----------------------------------------------------------------------------
(* stopWorkers                                                             *)

\* The workers are told to stop; the queues stay as they are.
Stop ==
  /\ running' = FALSE
  /\ notified' = {w \in Workers : worker[w] = "wait"}
  /\ UNCHANGED <<queue, idleWorkers, worker, entry, tasksTotal, tasksCompleted, useCount>>

\* Every worker has exited.
Join ==
  /\ \A w \in Workers : worker[w] = "exited"
  /\ worker' = [w \in Workers |-> "none"]
  /\ UNCHANGED <<queue, idleWorkers, running, notified, entry, tasksTotal, tasksCompleted,
                 useCount>>

=============================================================================
