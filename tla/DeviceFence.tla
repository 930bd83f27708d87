---------------------------- MODULE DeviceFence ----------------------------
(***************************************************************************)
(* DxvkFence (src/dxvk/dxvk_fence.cpp): a timeline semaphore with events    *)
(* that a helper thread fires when the semaphore reaches their values.  The *)
(* thread is started by the first event that has to wait, and polls the     *)
(* semaphore with a timeout.  m_mutex is held by the helper thread for as   *)
(* long as it drains the queue; elsewhere a critical section is one step.   *)
(***************************************************************************)
EXTENDS Naturals, FiniteSets

CONSTANTS
  Events,      \* calls of enqueueWait, each with an event of its own
  MaxValue,    \* bound on the semaphore's value
  MayFail      \* TRUE: a Vulkan call on the helper thread may fail

ASSUME FenceAssumption == MaxValue \in Nat /\ MayFail \in BOOLEAN

VARIABLES
  semaphore,   \* the counter of m_semaphore
  value,       \* value[e]: what event e waits for
  enqueuePc,          \* enqueuePc[e]: how far the call enqueueWait for e has come
  queue,       \* m_queue: events that wait
  fired,       \* fired[e]: how often event e has been signalled
  running,     \* m_running
  threadPc,    \* where run() stands
  seen,        \* run()'s `value`
  failed,      \* history: a Vulkan call of run() has failed
  ownerPc      \* the owner of the last reference: alive, in ~DxvkFence, gone

enqueueVars   == <<value, enqueuePc>>
threadVars == <<threadPc, seen, failed>>
fenceVars == <<semaphore, enqueueVars, queue, fired, running, threadVars, ownerPc>>

EnqueuePcs   == {"new", "push", "returned"}
ThreadPcs == {"none", "wait", "asleep", "drain", "poll", "exit"}

FenceInit ==
  /\ semaphore = 0
  /\ value \in [Events -> 1 .. MaxValue]
  /\ enqueuePc = [e \in Events |-> "new"]
  /\ queue = {} /\ fired = [e \in Events |-> 0]
  /\ running = FALSE /\ threadPc = "none" /\ seen = 0 /\ failed = FALSE
  /\ ownerPc = "alive"

MutexFree == threadPc # "drain"

Fire(e) == fired' = [fired EXCEPT ![e] = @ + 1]

\* m_condVar.notify_one: only the helper thread waits on it.
Notify == threadPc' = IF threadPc = "asleep" THEN "wait" ELSE threadPc

-----------------------------------------------------------------------------
\* enqueueWait: an event whose value has been reached is signalled at once.
EnqueueReached(e) ==
  /\ ownerPc = "alive"
  /\ enqueuePc[e] = "new" /\ value[e] <= semaphore
  /\ Fire(e)
  /\ enqueuePc' = [enqueuePc EXCEPT ![e] = "returned"]
  /\ UNCHANGED <<semaphore, value, queue, running, threadVars, ownerPc>>

EnqueueLater(e) ==
  /\ ownerPc = "alive"
  /\ enqueuePc[e] = "new" /\ value[e] > semaphore
  /\ enqueuePc' = [enqueuePc EXCEPT ![e] = "push"]
  /\ UNCHANGED <<semaphore, value, queue, fired, running, threadVars, ownerPc>>

\* Mutant: the thread is started once and never notified.
EnqueuePushQuietly(e) ==
  /\ enqueuePc[e] = "push" /\ MutexFree
  /\ queue' = queue \cup {e}
  /\ running' = TRUE
  /\ threadPc' = IF running THEN threadPc ELSE "wait"
  /\ enqueuePc' = [enqueuePc EXCEPT ![e] = "returned"]
  /\ UNCHANGED <<semaphore, value, fired, seen, failed, ownerPc>>

EnqueuePush(e) ==
  /\ enqueuePc[e] = "push" /\ MutexFree
  /\ queue' = queue \cup {e}
  /\ running' = TRUE
  /\ IF running THEN Notify ELSE threadPc' = "wait"
  /\ enqueuePc' = [enqueuePc EXCEPT ![e] = "returned"]
  /\ UNCHANGED <<semaphore, value, fired, seen, failed, ownerPc>>

\* The semaphore is signalled, by the GPU or by another process.
Signal ==
  /\ semaphore' \in semaphore + 1 .. MaxValue
  /\ UNCHANGED <<enqueueVars, queue, fired, running, threadVars, ownerPc>>

-----------------------------------------------------------------------------
(* run()                                                                   *)

ThreadSleep ==
  /\ threadPc = "wait"
  /\ queue = {} /\ running
  /\ threadPc' = "asleep"
  /\ UNCHANGED <<semaphore, enqueueVars, queue, fired, running, seen, failed, ownerPc>>

SpuriousThreadWake ==
  /\ threadPc = "asleep"
  /\ threadPc' = "wait"
  /\ UNCHANGED <<semaphore, enqueueVars, queue, fired, running, seen, failed, ownerPc>>

\* The predicate holds: read the semaphore and start to drain.
ThreadQuery ==
  /\ threadPc = "wait"
  /\ queue # {} \/ ~running
  /\ seen' = semaphore
  /\ threadPc' = "drain"
  /\ UNCHANGED <<semaphore, enqueueVars, queue, fired, running, failed, ownerPc>>

\* m_queue is a std::priority_queue ordered by value: top() is the largest.
IsTop(e) == e \in queue /\ \A f \in queue : value[f] <= value[e]

\* Mutant: the event is signalled and not popped.
ThreadFireAgain ==
  /\ threadPc = "drain"
  /\ \E e \in queue : IsTop(e) /\ value[e] <= seen /\ fired[e] < 2 /\ Fire(e)
  /\ UNCHANGED <<semaphore, enqueueVars, queue, running, threadVars, ownerPc>>

ThreadFire ==
  /\ threadPc = "drain"
  /\ \E e \in queue : IsTop(e) /\ value[e] <= seen /\ Fire(e) /\ queue' = queue \ {e}
  /\ UNCHANGED <<semaphore, enqueueVars, running, threadVars, ownerPc>>

DrainStops == \A e \in queue : IsTop(e) => value[e] > seen

\* Mutant: the thread does not look at m_running.
ThreadDrainedForever ==
  /\ threadPc = "drain"
  /\ DrainStops
  /\ threadPc' = IF queue = {} THEN "wait" ELSE "poll"
  /\ seen' = seen + 1
  /\ UNCHANGED <<semaphore, enqueueVars, queue, fired, running, failed, ownerPc>>

\* Nothing more to fire: stop, wait for an event, or for the next value.
ThreadDrained ==
  /\ threadPc = "drain"
  /\ DrainStops
  /\ threadPc' = IF ~running THEN "exit" ELSE IF queue = {} THEN "wait" ELSE "poll"
  /\ seen' = IF running /\ queue # {} THEN seen + 1 ELSE seen
  /\ UNCHANGED <<semaphore, enqueueVars, queue, fired, running, failed, ownerPc>>

\* vkWaitSemaphores returns because the value is reached or after 10 ms.
ThreadPolled ==
  /\ threadPc = "poll"
  /\ threadPc' = "wait"
  /\ UNCHANGED <<semaphore, enqueueVars, queue, fired, running, seen, failed, ownerPc>>

\* A Vulkan call fails: the thread ends, and m_running stays TRUE.
ThreadFail ==
  /\ MayFail
  /\ \/ threadPc = "wait" /\ (queue # {} \/ ~running)
     \/ threadPc = "poll"
  /\ threadPc' = "exit" /\ failed' = TRUE
  /\ UNCHANGED <<semaphore, enqueueVars, queue, fired, running, seen, ownerPc>>

-----------------------------------------------------------------------------
\* ~DxvkFence, once the last reference is gone: no call is running.
Destroy ==
  /\ ownerPc = "alive"
  /\ \A e \in Events : enqueuePc[e] # "push"
  /\ IF threadPc = "none"
     THEN ownerPc' = "gone" /\ UNCHANGED <<running, threadPc>>
     ELSE MutexFree /\ running' = FALSE /\ Notify /\ ownerPc' = "join"
  /\ UNCHANGED <<semaphore, enqueueVars, queue, fired, seen, failed>>

JoinThread ==
  /\ ownerPc = "join" /\ threadPc = "exit"
  /\ ownerPc' = "gone"
  /\ UNCHANGED <<semaphore, enqueueVars, queue, fired, running, threadVars>>

Thread == \/ ThreadSleep \/ ThreadQuery \/ ThreadFire \/ ThreadDrained
          \/ ThreadPolled \/ ThreadFail

FenceNext ==
  \/ Thread
  \/ SpuriousThreadWake
  \/ Signal
  \/ \E e \in Events : EnqueueReached(e) \/ EnqueueLater(e) \/ EnqueuePush(e)
  \/ Destroy \/ JoinThread

FenceSpec == FenceInit /\ [][FenceNext]_fenceVars

\* The helper thread and callers of enqueueWait run; nothing has to signal the
\* semaphore or to drop the fence.
FenceFairness ==
  /\ WF_fenceVars(Thread)
  /\ WF_fenceVars(JoinThread)
  /\ \A e \in Events : SF_fenceVars(EnqueuePush(e))

FairFenceSpec == FenceSpec /\ FenceFairness

-----------------------------------------------------------------------------
(* Properties                                                              *)

FenceTypeOK ==
  /\ semaphore \in 0 .. MaxValue /\ seen \in 0 .. MaxValue
  /\ value \in [Events -> 1 .. MaxValue]
  /\ enqueuePc \in [Events -> EnqueuePcs]
  /\ queue \subseteq {e \in Events : enqueuePc[e] = "returned"}
  /\ fired \in [Events -> Nat]
  /\ running \in BOOLEAN /\ failed \in BOOLEAN
  /\ threadPc \in ThreadPcs
  /\ ownerPc \in {"alive", "join", "gone"}

\* An event is signalled at most once, never before the semaphore has reached
\* its value, and not while it is still queued. (FenceTypeOK is its first part.)
FiredOnceReached ==
  /\ FenceTypeOK
  /\ \A e \in Events : /\ fired[e] <= 1
                       /\ fired[e] > 0 => value[e] <= semaphore /\ e \notin queue

\* An event is signalled when every queued value has been reached, unless a
\* Vulkan call fails.
FiresWhenAllReached ==
  \A e \in Events :
    enqueuePc[e] = "returned" /\ (\A f \in Events : value[f] <= semaphore)
      ~> fired[e] = 1 \/ ownerPc # "alive" \/ failed

\* The destructor gets past join() although nothing wakes vkWaitSemaphores.
DestroyTerminates == ownerPc = "join" ~> ownerPc = "gone"

=============================================================================
