------------------------------ MODULE CsThread ------------------------------
(***************************************************************************)
(* DxvkCsThread (src/dxvk/dxvk_cs.cpp): front-end threads hand chunks of    *)
(* recorded commands to one worker thread, which runs them on the context   *)
(* in dispatch order.  m_mutex protects the queue and m_condOnAdd wakes the *)
(* worker; m_counterMutex protects the executed counter and m_condOnSync    *)
(* wakes callers of synchronize().                                          *)
(*                                                                         *)
(* A critical section with no wait in it is one step whose guard is that    *)
(* the mutex is free.  The mutexes are variables because a wait is not:     *)
(* the predicate is tested in one step and the thread falls asleep in the   *)
(* next, with the mutex held in between, and a notification that arrives    *)
(* before the sleeper sleeps is lost.                                       *)
(***************************************************************************)
EXTENDS Integers, Sequences

CONSTANTS
  Callers,         \* front-end threads that use the stream
  Serialized,      \* TRUE: callers hold the device lock around every call
  MayThrow,        \* TRUE: a chunk may throw a DxvkError while it runs
  MaxChunks,       \* bound: chunks dispatched in a behaviour
  SynchronizeAll   \* the sequence number ~0ull

ASSUME CsAssumption ==
  /\ Serialized \in BOOLEAN
  /\ MayThrow \in BOOLEAN
  /\ MaxChunks \in Nat
  /\ SynchronizeAll \in Nat /\ SynchronizeAll > MaxChunks
  /\ "none" \notin Callers

VARIABLES
  queued,       \* m_chunksQueued: numbers of the queued chunks
  dispatched,   \* m_chunksDispatched
  executed,     \* m_chunksExecuted
  stopped,      \* m_stopped
  mutex,        \* m_mutex: TRUE while the worker holds it across two steps
  counter,      \* m_counterMutex: the caller that holds it, or "none"
  csPc,         \* where the worker stands in threadFunc
  local,        \* the worker's local vector `chunks`, minus those released
  ran,          \* history: chunks in the order their commands ran
  pc,           \* pc[c]: where caller c stands
  arg,          \* arg[c]: `seq` in caller c's synchronize()
  floor         \* history: the chunk caller c's synchronize() must wait for

csVars     == <<csPc, local, ran, executed>>
callVars   == <<pc, arg, floor>>
sharedVars == <<queued, dispatched, stopped, mutex, counter>>
vars       == <<csVars, callVars, sharedVars>>

CsPcs   == {"test", "lock", "block", "sleep", "exec", "count", "release",
            "exit", "dead"}
CallPcs == {"idle", "notify", "load", "resolve", "lock", "block", "sleep",
            "done", "stopNotify", "join", "gone"}

Init ==
  /\ queued = <<>> /\ dispatched = 0 /\ executed = 0
  /\ stopped = FALSE /\ mutex = FALSE /\ counter = "none"
  /\ csPc = "test" /\ local = <<>> /\ ran = <<>>
  /\ pc = [c \in Callers |-> "idle"]
  /\ arg = [c \in Callers |-> 0]
  /\ floor = [c \in Callers |-> 0]

Goto(c, label) == pc' = [pc EXCEPT ![c] = label]

\* m_condOnAdd.notify_one(): the worker is the only thread that waits on it.
NotifyWorker == csPc' = IF csPc = "sleep" THEN "lock" ELSE csPc

-----------------------------------------------------------------------------
(* Front-end threads                                                       *)

\* Mutant: callers without the device lock.
MayCallUnserialized(c) ==
  /\ pc[c] = "idle"
  /\ \A d \in Callers : pc[d] \notin {"stopNotify", "join", "gone"}

\* A caller may enter the stream: the object is still alive, and if callers
\* are serialised (D3D10DeviceLock, D3D9DeviceLock) no other call is running.
MayCall(c) ==
  /\ pc[c] = "idle"
  /\ \A d \in Callers : pc[d] \notin {"stopNotify", "join", "gone"}
  /\ Serialized => \A d \in Callers : pc[d] = "idle"

\* Mutant: the chunk is queued without m_mutex.
DispatchUnlocked(c) ==
  /\ MayCall(c)
  /\ dispatched < MaxChunks
  /\ dispatched' = dispatched + 1
  /\ queued' = Append(queued, dispatched + 1)
  /\ Goto(c, "notify")
  /\ UNCHANGED <<csVars, arg, floor, stopped, mutex, counter>>

\* dispatchChunk(): number the chunk and queue it, under m_mutex ...
Dispatch(c) ==
  /\ MayCall(c)
  /\ ~mutex
  /\ dispatched < MaxChunks
  /\ dispatched' = dispatched + 1
  /\ queued' = Append(queued, dispatched + 1)
  /\ Goto(c, "notify")
  /\ UNCHANGED <<csVars, arg, floor, stopped, mutex, counter>>

\* ... and notify after the mutex has been released.
DispatchNotify(c) ==
  /\ pc[c] = "notify"
  /\ NotifyWorker
  /\ Goto(c, "idle")
  /\ UNCHANGED <<local, ran, executed, arg, floor, sharedVars>>

\* synchronize(seq) is called with a number returned by dispatchChunk, with
\* SynchronizeAll, or with 0, the number of a resource that was never recorded,
\* which returns at once (dxvk_cs.h:406 promises a wait for all chunks instead).
Synchronize(c, seq) ==
  /\ MayCall(c)
  /\ arg' = [arg EXCEPT ![c] = seq]
  /\ floor' = [floor EXCEPT ![c] = IF seq = SynchronizeAll THEN dispatched ELSE seq]
  /\ Goto(c, "load")
  /\ UNCHANGED <<csVars, sharedVars>>

\* The early-out that takes no lock.
SyncLoad(c) ==
  /\ pc[c] = "load"
  /\ Goto(c, IF arg[c] > executed THEN "resolve" ELSE "done")
  /\ UNCHANGED <<csVars, arg, floor, sharedVars>>

\* SynchronizeAll is replaced by the dispatch counter, again without a lock.
SyncResolve(c) ==
  /\ pc[c] = "resolve"
  /\ arg' = [arg EXCEPT ![c] = IF @ = SynchronizeAll THEN dispatched ELSE @]
  /\ Goto(c, "lock")
  /\ UNCHANGED <<csVars, floor, sharedVars>>

\* Mutant: wait until the chunk before the requested one is done.
SyncPassEarly(c) ==
  /\ pc[c] = "lock"
  /\ counter = "none"
  /\ executed + 1 >= arg[c]
  /\ Goto(c, "done")
  /\ UNCHANGED <<csVars, arg, floor, sharedVars>>

\* The predicate of m_condOnSync.wait holds: leave, unlocking ...
SyncPass(c) ==
  /\ pc[c] = "lock"
  /\ counter = "none"
  /\ executed >= arg[c]
  /\ Goto(c, "done")
  /\ UNCHANGED <<csVars, arg, floor, sharedVars>>

\* ... or it does not, and the caller keeps m_counterMutex until it sleeps.
SyncBlock(c) ==
  /\ pc[c] = "lock"
  /\ counter = "none"
  /\ executed < arg[c]
  /\ counter' = c
  /\ Goto(c, "block")
  /\ UNCHANGED <<csVars, arg, floor, queued, dispatched, stopped, mutex>>

SyncSleep(c) ==
  /\ pc[c] = "block"
  /\ counter' = "none"
  /\ Goto(c, "sleep")
  /\ UNCHANGED <<csVars, arg, floor, queued, dispatched, stopped, mutex>>

SyncReturn(c) ==
  /\ pc[c] = "done"
  /\ Goto(c, "idle")
  /\ UNCHANGED <<csVars, arg, floor, sharedVars>>

\* A condition variable may wake up unasked.
SpuriousWake(c) ==
  /\ pc[c] = "sleep"
  /\ Goto(c, "lock")
  /\ UNCHANGED <<csVars, arg, floor, sharedVars>>

\* ~DxvkCsThread: m_stopped is set under m_mutex, no other call is running ...
Stop(c) ==
  /\ \A d \in Callers : pc[d] = "idle"
  /\ ~stopped
  /\ ~mutex
  /\ stopped' = TRUE
  /\ Goto(c, "stopNotify")
  /\ UNCHANGED <<csVars, arg, floor, queued, dispatched, mutex, counter>>

StopNotify(c) ==
  /\ pc[c] = "stopNotify"
  /\ NotifyWorker
  /\ Goto(c, "join")
  /\ UNCHANGED <<local, ran, executed, arg, floor, sharedVars>>

\* ... and the destructor joins; the members, queued chunks included, go.
Join(c) ==
  /\ pc[c] = "join"
  /\ csPc \in {"exit", "dead"}
  /\ queued' = <<>>
  /\ Goto(c, "gone")
  /\ UNCHANGED <<csVars, arg, floor, dispatched, stopped, mutex, counter>>

-----------------------------------------------------------------------------
(* The worker: DxvkCsThread::threadFunc                                    *)

CsTest ==
  /\ csPc = "test"
  /\ csPc' = IF stopped THEN "exit" ELSE "lock"
  /\ UNCHANGED <<local, ran, executed, callVars, sharedVars>>

\* Mutant: the queue is copied and not emptied.
CsCopy ==
  /\ csPc = "lock"
  /\ ~mutex
  /\ queued # <<>> \/ stopped
  /\ local' = queued
  /\ csPc' = "exec"
  /\ UNCHANGED <<ran, executed, callVars, sharedVars>>

\* The predicate of m_condOnAdd.wait holds: swap the (empty) local vector with
\* the queue and unlock ...
CsSwap ==
  /\ csPc = "lock"
  /\ ~mutex
  /\ queued # <<>> \/ stopped
  /\ local' = queued
  /\ queued' = local
  /\ csPc' = "exec"
  /\ UNCHANGED <<ran, executed, callVars, dispatched, stopped, mutex, counter>>

\* ... or it does not, and the worker keeps m_mutex until it sleeps.
CsBlock ==
  /\ csPc = "lock"
  /\ ~mutex
  /\ queued = <<>> /\ ~stopped
  /\ mutex' = TRUE
  /\ csPc' = "block"
  /\ UNCHANGED <<local, ran, executed, callVars, queued, dispatched, stopped, counter>>

CsSleep ==
  /\ csPc = "block"
  /\ mutex' = FALSE
  /\ csPc' = "sleep"
  /\ UNCHANGED <<local, ran, executed, callVars, queued, dispatched, stopped, counter>>

CsSpuriousWake ==
  /\ csPc = "sleep"
  /\ csPc' = "lock"
  /\ UNCHANGED <<local, ran, executed, callVars, sharedVars>>

\* chunk->executeAll(ctx)
CsExec ==
  /\ csPc = "exec"
  /\ local # <<>>
  /\ ran' = Append(ran, Head(local))
  /\ csPc' = "count"
  /\ UNCHANGED <<local, executed, callVars, sharedVars>>

\* A DxvkError ends the thread; the local chunks are destroyed with it.
CsThrow ==
  /\ MayThrow
  /\ csPc = "exec"
  /\ local # <<>>
  /\ local' = <<>>
  /\ csPc' = "dead"
  /\ UNCHANGED <<ran, executed, callVars, sharedVars>>

\* Mutant: the whole batch is counted when its first chunk is done.
CsCountBatch ==
  /\ csPc = "count"
  /\ counter = "none"
  /\ executed' = executed + Len(local)
  /\ IF \E c \in Callers : pc[c] = "sleep"
     THEN \E c \in Callers : pc[c] = "sleep" /\ Goto(c, "lock")
     ELSE UNCHANGED pc
  /\ csPc' = "release"
  /\ UNCHANGED <<local, ran, arg, floor, sharedVars>>

\* m_chunksExecuted += 1 and m_condOnSync.notify_one(), under m_counterMutex.
CsCount ==
  /\ csPc = "count"
  /\ counter = "none"
  /\ executed' = executed + 1
  /\ IF \E c \in Callers : pc[c] = "sleep"
     THEN \E c \in Callers : pc[c] = "sleep" /\ Goto(c, "lock")
     ELSE UNCHANGED pc
  /\ csPc' = "release"
  /\ UNCHANGED <<local, ran, arg, floor, sharedVars>>

\* chunk = DxvkCsChunkRef(): drop the reference, go on with the next chunk.
CsRelease ==
  /\ csPc = "release"
  /\ local' = Tail(local)
  /\ csPc' = "exec"
  /\ UNCHANGED <<ran, executed, callVars, sharedVars>>

CsBatchDone ==
  /\ csPc = "exec"
  /\ local = <<>>
  /\ csPc' = "test"
  /\ UNCHANGED <<local, ran, executed, callVars, sharedVars>>

-----------------------------------------------------------------------------
Worker == \/ CsTest \/ CsSwap \/ CsBlock \/ CsSleep \/ CsExec \/ CsThrow
          \/ CsCount \/ CsRelease \/ CsBatchDone

\* The steps a caller owes once it has entered a call.
CallStep(c) == \/ DispatchNotify(c) \/ SyncLoad(c) \/ SyncResolve(c)
               \/ SyncPass(c) \/ SyncBlock(c) \/ SyncSleep(c)
               \/ SyncReturn(c) \/ StopNotify(c) \/ Join(c)

Next == \/ Worker
        \/ CsSpuriousWake
        \/ \E c \in Callers :
              \/ Dispatch(c)
              \/ \E seq \in 0 .. dispatched \cup {SynchronizeAll} : Synchronize(c, seq)
              \/ Stop(c)
              \/ SpuriousWake(c)
              \/ CallStep(c)

Spec == Init /\ [][Next]_vars

\* Threads that can run do run; a thread that asks for a mutex that is freed
\* again and again gets it.  No thread has to start a call or to stop.
Fairness ==
  /\ WF_vars(Worker)
  /\ SF_vars(CsCount)
  /\ \A c \in Callers : WF_vars(CallStep(c)) /\ SF_vars(SyncPass(c) \/ SyncBlock(c))

FairSpec == Spec /\ Fairness

-----------------------------------------------------------------------------
(* Properties                                                              *)

TypeOK ==
  /\ queued \in Seq(Nat) /\ local \in Seq(Nat) /\ ran \in Seq(Nat)
  /\ dispatched \in 0 .. MaxChunks
  /\ executed \in 0 .. MaxChunks
  /\ stopped \in BOOLEAN /\ mutex \in BOOLEAN
  /\ counter \in Callers \cup {"none"}
  /\ csPc \in CsPcs
  /\ pc \in [Callers -> CallPcs]
  /\ arg \in [Callers -> Nat]
  /\ floor \in [Callers -> Nat]

\* Chunks run in the order dispatchChunk numbered them, each once, and the
\* counter callers trust never runs ahead of the commands. (TypeOK is its first
\* part.)
ExecutionOrder ==
  /\ TypeOK
  /\ \A i \in 1 .. Len(ran) : ran[i] = i
  /\ executed <= Len(ran)
  /\ Len(ran) <= dispatched

\* A call of synchronize() that is about to return has waited for its chunk;
\* with SynchronizeAll, for every chunk dispatched before the call, although
\* both counters are read without the lock of their writers. Nothing is said of
\* synchronize(0), which waits for no chunk.
SynchronizeSound ==
  \A c \in Callers : pc[c] = "done" /\ arg[c] # 0 => floor[c] <= Len(ran)

\* Every dispatched chunk runs, unless the thread is told to stop or a chunk
\* throws.
EveryChunkRuns ==
  \A n \in 1 .. MaxChunks :
    dispatched >= n ~> (Len(ran) >= n \/ stopped \/ csPc = "dead")

\* synchronize() returns, unless a chunk throws: notify_one is enough when calls
\* are serialised. The destructor gets past join(), whatever the worker was doing.
CallsReturn ==
  \A c \in Callers : /\ pc[c] = "load" ~> pc[c] = "idle" \/ csPc = "dead"
                     /\ pc[c] = "stopNotify" ~> pc[c] = "gone"

\* The chunk that each caller waits for in synchronize(), -1 outside of it.
Target == [c \in Callers |->
             IF pc[c] \in {"load", "resolve", "lock", "block", "sleep", "done"}
             THEN floor[c] ELSE -1]

\* The command stream that the front end sees: a chunk completes when it is
\* counted, and a wait ends where synchronize() returns.
Stream == INSTANCE CommandStream WITH completed <- executed, target <- Target

StreamSpec == Stream!Spec

=============================================================================
