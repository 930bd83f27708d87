-------------------------- MODULE SubmissionQueue --------------------------
(***************************************************************************)
(* DxvkSubmissionQueue (src/dxvk/dxvk_queue.cpp) and the DxvkDevice calls   *)
(* that forward to it.  One thread hands command lists and presents to the  *)
(* Vulkan queue, a second one waits for them to complete on the GPU,        *)
(* releases what they used and recycles them.                               *)
(*                                                                         *)
(* Notifications are given after m_mutex has been taken to make or to       *)
(* publish the change, so testing a predicate and falling asleep is one     *)
(* step.  m_mutex is a variable because one path waits while it holds it.   *)
(***************************************************************************)
EXTENDS Integers, Sequences, FiniteSets

CONSTANTS
  Callers,      \* threads that use the queue
  MaxQueued,    \* MaxNumQueuedCommandBuffers
  MaxEntries,   \* bound: command lists and presents in a behaviour
  Failures      \* "lost": the device may be lost; "error": any other VkResult

ASSUME QueueAssumption ==
  /\ MaxQueued \in Nat
  /\ MaxEntries \in Nat
  /\ Failures \subseteq {"lost", "error"}
  /\ IsFiniteSet(Callers)
  /\ Callers \cap {"submit thread", "finish thread", "none"} = {}

VARIABLES
  kind,          \* kind[e] of every entry queued so far, cmdlist or present
  result,        \* result[e]: what entry e's status->result holds
  submitQueue,   \* m_submitQueue; the front stays until it has been submitted
  finishQueue,   \* m_finishQueue; likewise
  lastError,     \* m_lastError
  stopped,       \* m_stopped
  mutex,         \* m_mutex: TRUE while the submit thread waits with it held
  queueOwner,    \* the caller that holds m_mutexQueue, or "none"
  submitPc,      \* where submitCmdLists stands
  outcome,       \* entry.result in submitCmdLists, "success" between two entries
  finishPc,      \* where finishCmdLists stands
  entry,         \* the entry in the hands of finishCmdLists, 0 between two
  onGpu,         \* command lists that the GPU has not completed
  gpuLost,       \* the Vulkan device is lost
  inUse,         \* entries whose resources or presenter are still referenced
  retired,       \* entries that left the queues, in that order
  recycled,      \* command lists returned to m_recycledCommandLists
  pc,            \* pc[c]: the call that caller c is in
  arg,           \* arg[c]: the entry that the call is about
  closing,       \* ~DxvkDevice has begun
  asleep         \* threads that sleep on the condition variable of their pc

queueVars  == <<kind, result, submitQueue, finishQueue, lastError, stopped, mutex>>
gpuVars    == <<onGpu, gpuLost, inUse, retired, recycled>>
submitVars == <<submitPc, outcome>>
finishVars == <<finishPc, entry>>
callVars   == <<pc, arg, closing>>
vars == <<queueVars, queueOwner, gpuVars, submitVars, finishVars, callVars, asleep>>

SubmitPcs == {"wait", "submit", "queue", "status", "relock", "wait idle", "exit"}
FinishPcs == {"wait", "fence", "present", "notify", "pop", "recycle", "wait idle", "exit"}
CallPcs == {"idle", "submit", "poll status", "status", "poll resource", "resource",
            "synchronize", "lock queue", "queue locked", "idle submit",
            "idle finish", "idle lock", "idle gpu", "stop", "join", "gone"}

Init ==
  /\ kind = <<>> /\ result = <<>> /\ submitQueue = <<>> /\ finishQueue = <<>>
  /\ lastError = "success" /\ stopped = FALSE /\ mutex = FALSE
  /\ queueOwner = "none"
  /\ submitPc = "wait" /\ outcome = "success" /\ finishPc = "wait" /\ entry = 0
  /\ onGpu = {} /\ gpuLost = FALSE /\ inUse = {} /\ retired = <<>> /\ recycled = {}
  /\ pc = [c \in Callers |-> "idle"] /\ arg = [c \in Callers |-> 0]
  /\ closing = FALSE
  /\ asleep = {}

\* Caller c goes on at label; a call that returns forgets its argument.
Goto(c, label) ==
  /\ pc' = [pc EXCEPT ![c] = label]
  /\ arg' = IF label = "idle" THEN [arg EXCEPT ![c] = 0] ELSE arg

\* The condition variable that thread w sleeps on.
CondOf(w) ==
  CASE w = "submit thread" -> "append"
    [] w = "finish thread" -> "submit"
    [] OTHER -> IF pc[w] \in {"status", "synchronize", "idle submit"}
                THEN "submit" ELSE "finish"

\* notify_all on the condition variable cond.
NotifyAll(cond) == asleep' = {w \in asleep : CondOf(w) # cond}

\* Mutant: command lists on the GPU are not counted.
SomeRoomToSubmit == Len(submitQueue) <= MaxQueued

SomeRoom == Len(submitQueue) + Len(finishQueue) <= MaxQueued

\* Thread w is at a wait() that it entered or was woken from, with m_mutex.
AtWait(w) == w \notin asleep /\ ~mutex

FallAsleep(w) ==
  /\ asleep' = asleep \cup {w}
  /\ UNCHANGED <<queueVars, queueOwner, gpuVars, submitVars, finishVars, callVars>>

-----------------------------------------------------------------------------
(* Calls.  The object is alive until ~DxvkDevice begins.                    *)

MayCall(c) == pc[c] = "idle" /\ ~closing

\* The bound MaxEntries, with the calls of submit() that are still waiting.
BelowBound == Len(kind) + Cardinality({c \in Callers : pc[c] = "submit"}) < MaxEntries

\* Mutant: the submit thread is not notified.
PushQuietly(k) ==
  /\ kind' = Append(kind, k)
  /\ result' = Append(result, "not ready")
  /\ submitQueue' = Append(submitQueue, Len(kind) + 1)
  /\ inUse' = inUse \cup {Len(kind) + 1}
  /\ UNCHANGED <<finishQueue, lastError, stopped, mutex, queueOwner, onGpu, gpuLost,
                 retired, recycled, submitVars, finishVars, closing, asleep>>

\* A new entry at the back of m_submitQueue; m_appendCond.notify_all.
Push(k) ==
  /\ kind' = Append(kind, k)
  /\ result' = Append(result, "not ready")
  /\ submitQueue' = Append(submitQueue, Len(kind) + 1)
  /\ inUse' = inUse \cup {Len(kind) + 1}
  /\ NotifyAll("append")
  /\ UNCHANGED <<finishQueue, lastError, stopped, mutex, queueOwner, onGpu, gpuLost,
                 retired, recycled, submitVars, finishVars, closing>>

\* A call that may wait begins: submitCommandList, lockSubmission, waitForIdle,
\* or waitForSubmission and waitForResource of an entry queued before.
Call(c, op) ==
  /\ MayCall(c)
  /\ op = "submit" => BelowBound
  /\ pc' = [pc EXCEPT ![c] = op]
  /\ \E e \in IF op \in {"poll status", "poll resource"} THEN 1 .. Len(kind) ELSE {Len(kind)} :
        arg' = [arg EXCEPT ![c] = e]
  /\ UNCHANGED <<queueVars, queueOwner, gpuVars, submitVars, finishVars, closing, asleep>>

\* DxvkDevice::presentImage: queue the present and return.
Present(c) ==
  /\ MayCall(c)
  /\ BelowBound
  /\ ~mutex
  /\ Push("present")
  /\ UNCHANGED <<pc, arg>>

\* submit(): wait for room, queue the command list and return.
Submit(c) ==
  /\ pc[c] = "submit" /\ AtWait(c)
  /\ SomeRoom
  /\ Push("cmdlist")
  /\ Goto(c, "idle")

SubmitFull(c) ==
  /\ pc[c] = "submit" /\ AtWait(c)
  /\ ~SomeRoom
  /\ FallAsleep(c)

Move(c, from, to) ==
  /\ pc[c] = from
  /\ Goto(c, to)
  /\ UNCHANGED <<queueVars, queueOwner, gpuVars, submitVars, finishVars, closing, asleep>>

\* waitForSubmission: the first look at the result takes no lock ...
PollStatus(c) ==
  Move(c, "poll status", IF result[arg[c]] # "not ready" THEN "idle" ELSE "status")

\* ... synchronizeSubmission does.
StatusReady(c) ==
  /\ pc[c] = "status" /\ AtWait(c) /\ result[arg[c]] # "not ready"
  /\ Move(c, "status", "idle")

StatusNotReady(c) ==
  /\ pc[c] = "status" /\ AtWait(c) /\ result[arg[c]] = "not ready"
  /\ FallAsleep(c)

\* waitForResource: again the first look takes no lock, synchronizeUntil does.
PollResource(c) ==
  Move(c, "poll resource", IF arg[c] \notin inUse THEN "idle" ELSE "resource")

ResourceFree(c) ==
  /\ pc[c] = "resource" /\ AtWait(c) /\ arg[c] \notin inUse
  /\ Move(c, "resource", "idle")

ResourceBusy(c) ==
  /\ pc[c] = "resource" /\ AtWait(c) /\ arg[c] \in inUse
  /\ FallAsleep(c)

\* lockSubmission: synchronize() and then lock the Vulkan queue.
Synchronize(c) ==
  /\ AtWait(c) /\ submitQueue = <<>>
  /\ Move(c, "synchronize", "lock queue")

SynchronizeBusy(c) ==
  /\ pc[c] \in {"synchronize", "idle submit"} /\ AtWait(c) /\ submitQueue # <<>>
  /\ FallAsleep(c)

LockDeviceQueue(c) ==
  /\ pc[c] \in {"lock queue", "idle lock"}
  /\ queueOwner = "none"
  /\ queueOwner' = c
  /\ Goto(c, IF pc[c] = "lock queue" THEN "queue locked" ELSE "idle gpu")
  /\ UNCHANGED <<queueVars, gpuVars, submitVars, finishVars, closing, asleep>>

UnlockDeviceQueue(c) ==
  /\ pc[c] = "queue locked"
  /\ queueOwner' = "none"
  /\ Goto(c, "idle")
  /\ UNCHANGED <<queueVars, gpuVars, submitVars, finishVars, closing, asleep>>

\* Mutant: waitForIdle does not wait for m_finishQueue.
IdleOnceSubmitted(c) ==
  /\ AtWait(c) /\ submitQueue = <<>>
  /\ Move(c, "idle submit", "idle lock")

\* waitForIdle: m_submitQueue empties, then m_finishQueue, under one lock ...
IdleSubmitted(c) ==
  /\ pc[c] = "idle submit" /\ AtWait(c)
  /\ submitQueue = <<>>
  /\ Goto(c, IF finishQueue = <<>> THEN "idle lock" ELSE "idle finish")
  /\ asleep' = IF finishQueue = <<>> THEN asleep ELSE asleep \cup {c}
  /\ UNCHANGED <<queueVars, queueOwner, gpuVars, submitVars, finishVars, closing>>

IdleFinished(c) ==
  /\ AtWait(c) /\ finishQueue = <<>>
  /\ Move(c, "idle finish", "idle lock")

IdleBusy(c) ==
  /\ pc[c] = "idle finish" /\ AtWait(c) /\ finishQueue # <<>>
  /\ FallAsleep(c)

\* ... then vkDeviceWaitIdle with the Vulkan queue locked.
IdleGpu(c) ==
  /\ pc[c] = "idle gpu"
  /\ onGpu = {} \/ gpuLost
  /\ queueOwner' = "none"
  /\ Goto(c, IF closing THEN "stop" ELSE "idle")
  /\ UNCHANGED <<queueVars, gpuVars, submitVars, finishVars, closing, asleep>>

\* ~DxvkDevice: waitForIdle, stop both threads, join them; no call is running.
Close(c) ==
  /\ \A d \in Callers : MayCall(d)
  /\ closing' = TRUE
  /\ pc' = [pc EXCEPT ![c] = "idle submit"]
  /\ arg' = [arg EXCEPT ![c] = Len(kind)]
  /\ UNCHANGED <<queueVars, queueOwner, gpuVars, submitVars, finishVars, asleep>>

Stop(c) ==
  /\ pc[c] = "stop"
  /\ ~mutex
  /\ stopped' = TRUE
  /\ asleep' = {w \in asleep : CondOf(w) \notin {"append", "submit"}}
  /\ Goto(c, "join")
  /\ UNCHANGED <<kind, result, submitQueue, finishQueue, lastError, mutex, queueOwner,
                 gpuVars, submitVars, finishVars, closing>>

Join(c) ==
  /\ submitPc = "exit" /\ finishPc = "exit"
  /\ Move(c, "join", "gone")

-----------------------------------------------------------------------------
(* submitCmdLists                                                          *)

SubmitTake ==
  /\ submitPc = "wait" /\ AtWait("submit thread")
  /\ ~stopped /\ submitQueue # <<>>
  /\ submitPc' = "submit"
  /\ UNCHANGED <<queueVars, queueOwner, gpuVars, outcome, finishVars, callVars, asleep>>

SubmitWait ==
  /\ submitPc = "wait" /\ AtWait("submit thread")
  /\ ~stopped /\ submitQueue = <<>>
  /\ FallAsleep("submit thread")

SubmitExit ==
  /\ submitPc = "wait" /\ AtWait("submit thread")
  /\ stopped
  /\ submitPc' = "exit"
  /\ UNCHANGED <<queueVars, queueOwner, gpuVars, outcome, finishVars, callVars, asleep>>

\* Nothing is submitted any more once m_lastError says that the device is lost.
SubmitCheck ==
  /\ submitPc = "submit"
  /\ submitPc' = IF lastError # "lost" THEN "queue" ELSE "status"
  /\ outcome' = IF lastError # "lost" THEN outcome ELSE "lost"
  /\ UNCHANGED <<queueVars, queueOwner, gpuVars, finishVars, callVars, asleep>>

\* vkQueueSubmit2, or vkQueuePresentKHR, which may also find the swap chain out
\* of date, with m_mutexQueue.
SubmitToGpu ==
  /\ submitPc = "queue"
  /\ queueOwner = "none"
  /\ outcome' \in IF gpuLost THEN {"lost"}
                 ELSE IF kind[Head(submitQueue)] = "present" THEN {"success", "error"}
                 ELSE {"success"} \cup (Failures \ {"lost"})
  /\ onGpu' = IF outcome' = "success" /\ kind[Head(submitQueue)] = "cmdlist"
              THEN onGpu \cup {Head(submitQueue)} ELSE onGpu
  /\ submitPc' = "status"
  /\ UNCHANGED <<queueVars, queueOwner, gpuLost, inUse, retired, recycled, finishVars,
                 callVars, asleep>>

\* entry.status->result = entry.result, with no lock held.
SubmitStatus ==
  /\ submitPc = "status"
  /\ result' = [result EXCEPT ![Head(submitQueue)] = outcome]
  /\ submitPc' = "relock"
  /\ UNCHANGED <<kind, submitQueue, finishQueue, lastError, stopped, mutex, queueOwner,
                 gpuVars, outcome, finishVars, callVars, asleep>>

\* A failed present is still handed on, unless the device is lost.
Forwarded == outcome = "success" \/ (kind[Head(submitQueue)] = "present" /\ outcome # "lost")

\* Mutant: the entry is handed on and stays in m_submitQueue.
SubmitForwardTwice ==
  /\ submitPc = "relock" /\ ~mutex
  /\ Forwarded
  /\ finishQueue' = Append(finishQueue, Head(submitQueue))
  /\ NotifyAll("submit")
  /\ submitPc' = "wait" /\ outcome' = "success"
  /\ UNCHANGED <<kind, result, submitQueue, lastError, stopped, mutex, queueOwner, gpuVars,
                 finishVars, callVars>>

SubmitForward ==
  /\ submitPc = "relock" /\ ~mutex
  /\ Forwarded
  /\ finishQueue' = Append(finishQueue, Head(submitQueue))
  /\ submitQueue' = Tail(submitQueue)
  /\ NotifyAll("submit")
  /\ submitPc' = "wait" /\ outcome' = "success"
  /\ UNCHANGED <<kind, result, lastError, stopped, mutex, queueOwner, gpuVars,
                 finishVars, callVars>>

\* Device loss: the entry is destroyed at the end of the iteration.
SubmitDrop ==
  /\ submitPc = "relock" /\ ~mutex
  /\ ~Forwarded /\ outcome = "lost"
  /\ lastError' = "lost"
  /\ submitQueue' = Tail(submitQueue)
  /\ inUse' = inUse \ {Head(submitQueue)}
  /\ retired' = Append(retired, Head(submitQueue))
  /\ NotifyAll("submit")
  /\ submitPc' = "wait" /\ outcome' = "success"
  /\ UNCHANGED <<kind, result, finishQueue, stopped, mutex, queueOwner, onGpu, gpuLost,
                 recycled, finishVars, callVars>>

\* Any other failure of a command list: m_device->waitForIdle() with m_mutex
\* held.  It locks m_mutex first, so no step leads out of "wait idle".
SubmitFail ==
  /\ submitPc = "relock" /\ ~mutex
  /\ ~Forwarded /\ outcome # "lost"
  /\ lastError' = outcome
  /\ mutex' = TRUE
  /\ submitPc' = "wait idle"
  /\ UNCHANGED <<kind, result, submitQueue, finishQueue, stopped, queueOwner, gpuVars,
                 outcome, finishVars, callVars, asleep>>

-----------------------------------------------------------------------------
(* finishCmdLists                                                          *)

\* A command list waits for its fence, unless m_lastError says the device is lost.
FinishTake ==
  /\ finishPc = "wait" /\ AtWait("finish thread")
  /\ ~stopped /\ finishQueue # <<>>
  /\ entry' = Head(finishQueue)
  /\ finishPc' = IF kind[entry'] = "present" THEN "present"
                 ELSE IF lastError = "lost" THEN "notify" ELSE "fence"
  /\ UNCHANGED <<queueVars, queueOwner, gpuVars, submitVars, callVars, asleep>>

FinishWait ==
  /\ finishPc = "wait" /\ AtWait("finish thread")
  /\ ~stopped /\ finishQueue = <<>>
  /\ FallAsleep("finish thread")

FinishExit ==
  /\ finishPc = "wait" /\ AtWait("finish thread")
  /\ stopped
  /\ finishPc' = "exit"
  /\ UNCHANGED <<queueVars, queueOwner, gpuVars, submitVars, entry, callVars, asleep>>

Finish(label) ==
  /\ finishPc' = label
  /\ UNCHANGED <<kind, result, submitQueue, finishQueue, stopped, mutex, queueOwner,
                 gpuVars, submitVars, entry, callVars, asleep>>

\* Mutant: the fence is not waited for.
FinishNoFence ==
  /\ finishPc = "fence"
  /\ Finish("notify")
  /\ UNCHANGED lastError

FinishFence ==
  /\ finishPc = "fence"
  /\ entry \notin onGpu
  /\ Finish("notify")
  /\ UNCHANGED lastError

FinishLost ==
  /\ finishPc = "fence"
  /\ gpuLost
  /\ lastError' = "lost"
  /\ Finish("notify")

\* Any other failure: m_device->waitForIdle() waits for m_finishQueue to empty,
\* but this thread's own entry is still in it; no step leads out of "wait idle".
FinishFail ==
  /\ finishPc = "fence"
  /\ "error" \in Failures
  /\ lastError' = "error"
  /\ Finish("wait idle")

\* signalFrame, or notifyObjects: release what the entry used, fire its signals.
FinishNotify ==
  /\ finishPc \in {"present", "notify"}
  /\ inUse' = inUse \ {entry}
  /\ finishPc' = "pop"
  /\ UNCHANGED <<queueVars, queueOwner, onGpu, gpuLost, retired, recycled, submitVars,
                 entry, callVars, asleep>>

\* Mutant: the wrong condition variable is notified.
FinishPopWrongCond ==
  /\ finishPc = "pop" /\ ~mutex
  /\ finishQueue' = Tail(finishQueue)
  /\ retired' = Append(retired, entry)
  /\ NotifyAll("submit")
  /\ finishPc' = IF kind[entry] = "cmdlist" THEN "recycle" ELSE "wait"
  /\ entry' = IF kind[entry] = "cmdlist" THEN entry ELSE 0
  /\ UNCHANGED <<kind, result, submitQueue, lastError, stopped, mutex, queueOwner, onGpu,
                 gpuLost, inUse, recycled, submitVars, callVars>>

FinishPop ==
  /\ finishPc = "pop" /\ ~mutex
  /\ finishQueue' = Tail(finishQueue)
  /\ retired' = Append(retired, entry)
  /\ NotifyAll("finish")
  /\ finishPc' = IF kind[entry] = "cmdlist" THEN "recycle" ELSE "wait"
  /\ entry' = IF kind[entry] = "cmdlist" THEN entry ELSE 0
  /\ UNCHANGED <<kind, result, submitQueue, lastError, stopped, mutex, queueOwner, onGpu,
                 gpuLost, inUse, recycled, submitVars, callVars>>

FinishRecycle ==
  /\ finishPc = "recycle"
  /\ recycled' = recycled \cup {entry}
  /\ finishPc' = "wait" /\ entry' = 0
  /\ UNCHANGED <<queueVars, queueOwner, onGpu, gpuLost, inUse, retired, submitVars,
                 callVars, asleep>>

-----------------------------------------------------------------------------
(* The GPU completes command lists in the order of their submission.        *)

GpuComplete ==
  /\ \E e \in onGpu : (\A f \in onGpu : e <= f) /\ onGpu' = onGpu \ {e}
  /\ UNCHANGED <<queueVars, queueOwner, gpuLost, inUse, retired, recycled, submitVars,
                 finishVars, callVars, asleep>>

GpuLose ==
  /\ "lost" \in Failures
  /\ gpuLost' = TRUE
  /\ UNCHANGED <<queueVars, queueOwner, onGpu, inUse, retired, recycled, submitVars,
                 finishVars, callVars, asleep>>

SpuriousWake(w) ==
  /\ w \in asleep
  /\ asleep' = asleep \ {w}
  /\ UNCHANGED <<queueVars, queueOwner, gpuVars, submitVars, finishVars, callVars>>

-----------------------------------------------------------------------------
SubmitThread == \/ SubmitTake \/ SubmitWait \/ SubmitExit \/ SubmitCheck \/ SubmitToGpu
                \/ SubmitStatus \/ SubmitForward \/ SubmitDrop \/ SubmitFail

FinishThread == \/ FinishTake \/ FinishWait \/ FinishExit \/ FinishFence \/ FinishLost
                \/ FinishFail \/ FinishNotify \/ FinishPop \/ FinishRecycle

\* The steps a caller owes once it is in a call.
CallStep(c) ==
  \/ Submit(c) \/ SubmitFull(c)
  \/ PollStatus(c) \/ StatusReady(c) \/ StatusNotReady(c)
  \/ PollResource(c) \/ ResourceFree(c) \/ ResourceBusy(c)
  \/ Synchronize(c) \/ SynchronizeBusy(c) \/ LockDeviceQueue(c) \/ UnlockDeviceQueue(c)
  \/ IdleSubmitted(c) \/ IdleFinished(c) \/ IdleBusy(c) \/ IdleGpu(c)
  \/ Stop(c) \/ Join(c)

Next ==
  \/ SubmitThread
  \/ FinishThread
  \/ GpuComplete \/ GpuLose
  \/ \E w \in Callers \cup {"submit thread", "finish thread"} : SpuriousWake(w)
  \/ \E c \in Callers :
        \/ \E op \in {"submit", "poll status", "poll resource", "synchronize", "idle submit"} :
              Call(c, op)
        \/ Present(c)
        \/ Close(c)
        \/ CallStep(c)

Spec == Init /\ [][Next]_vars

\* Threads that can run do run, the GPU makes progress, an application unlocks
\* the queue it has locked, and a thread that asks for m_mutexQueue gets it.
Fairness ==
  /\ WF_vars(SubmitThread) /\ SF_vars(SubmitToGpu)
  /\ WF_vars(FinishThread)
  /\ WF_vars(GpuComplete)
  /\ \A c \in Callers : WF_vars(CallStep(c)) /\ SF_vars(LockDeviceQueue(c))

FairSpec == Spec /\ Fairness

-----------------------------------------------------------------------------
(* What this implements                                                    *)

\* vkQueueSubmit2 has returned for the front of m_submitQueue.
FrontGiven == submitPc \in {"status", "relock", "wait idle"}

\* Entries up to this one have been given to the Vulkan queue.
Given == IF FrontGiven THEN Len(kind) - Len(submitQueue) + 1 ELSE Len(kind) - Len(submitQueue)

\* The status of the front is its outcome, written to status->result or not yet.
Status == [e \in 1 .. Given |-> IF submitPc = "status" /\ e = Given THEN outcome ELSE result[e]]

ForSubmission == {"poll status", "status", "synchronize", "lock queue"}
ForRelease == {"poll resource", "resource"}
ForIdle == {"idle submit", "idle finish", "idle lock", "idle gpu"}

\* What a call that stands at label with argument e waits for.
WaitOf(label, e) ==
  CASE label \in ForSubmission -> [for |-> "submission", entry |-> e]
    [] label \in ForRelease    -> [for |-> "release", entry |-> e]
    [] label \in ForIdle       -> [for |-> "idle", entry |-> e]
    [] OTHER                   -> [for |-> "nothing", entry |-> 0]

WaitsFor == [c \in Callers |-> WaitOf(pc[c], arg[c])]

Contract == INSTANCE DeviceQueue WITH
  status <- Status, executing <- onGpu, lost <- gpuLost, held <- inUse,
  reusable <- recycled, waits <- WaitsFor

-----------------------------------------------------------------------------
(* Properties                                                              *)

Queued == 1 .. Len(kind)

Elems(q) == {q[i] : i \in DOMAIN q}

CmdLists == {e \in Queued : kind[e] = "cmdlist"}

Results == {"not ready", "success", "lost", "error"}

TypeOK ==
  /\ kind \in Seq({"cmdlist", "present"}) /\ Len(kind) <= MaxEntries
  /\ result \in [Queued -> Results]
  /\ submitQueue \in Seq(Queued) /\ finishQueue \in Seq(Queued) /\ retired \in Seq(Queued)
  /\ lastError \in Results \ {"not ready"} /\ outcome \in Results \ {"not ready"}
  /\ stopped \in BOOLEAN /\ mutex \in BOOLEAN /\ gpuLost \in BOOLEAN /\ closing \in BOOLEAN
  /\ queueOwner \in Callers \cup {"none"}
  /\ submitPc \in SubmitPcs /\ finishPc \in FinishPcs
  /\ entry \in Queued \cup {0}
  /\ onGpu \subseteq CmdLists /\ inUse \subseteq Queued /\ recycled \subseteq CmdLists
  /\ pc \in [Callers -> CallPcs]
  /\ arg \in [Callers -> Queued \cup {0}]
  /\ asleep \subseteq Callers \cup {"submit thread", "finish thread"}

\* What an entry uses stays referenced until the GPU is done with the entry,
\* unless the device is lost.  A command list that may be recorded again is not
\* queued and holds no resources of its last use, thus the GPU is done with it.
ReleasedAfterGpu ==
  /\ \A e \in onGpu : e \in inUse \/ gpuLost
  /\ \A e \in recycled : e \notin inUse \cup Elems(submitQueue) \cup Elems(finishQueue)

\* The front of a queue stays in it while a thread works on it: still every
\* entry is in exactly one place, in order, and none is lost or handled twice.
\* (TypeOK is its first part.)
EntriesConserved ==
  /\ TypeOK
  /\ \A e \in Queued : Cardinality({i \in DOMAIN submitQueue : submitQueue[i] = e})
                      + Cardinality({i \in DOMAIN finishQueue : finishQueue[i] = e})
                      + Cardinality({i \in DOMAIN retired : retired[i] = e}) = 1
  /\ \A i, j \in DOMAIN submitQueue : i < j => submitQueue[i] < submitQueue[j]
  /\ \A i, j \in DOMAIN finishQueue : i < j => finishQueue[i] < finishQueue[j]

\* submit() keeps at most MaxQueued + 1 command lists in flight, whatever the
\* number of callers; presents do not count.
InFlightBounded ==
  Cardinality({e \in CmdLists : e \notin Elems(retired)}) <= MaxQueued + 1

\* Once waitForIdle has seen both queues empty, every entry that was queued when
\* it was called has left them, although others are queued meanwhile; and so the
\* threads are stopped with nothing queued and nothing on the GPU.
IdleMeansRetired ==
  /\ \A c \in Callers : pc[c] \in {"idle lock", "idle gpu", "stop", "join", "gone"}
                            => 1 .. arg[c] \subseteq Elems(retired)
  /\ stopped => /\ submitQueue = <<>> /\ finishQueue = <<>>
                /\ onGpu = {} \/ gpuLost

\* Every sleeper is woken on the condition variable it sleeps on: waitForSubmission,
\* waitForIdle and the destructor, which begins with it, return; submit() and
\* waitForResource return unless the device is lost.
CallsReturn ==
  \A c \in Callers : /\ pc[c] = "poll status" ~> pc[c] = "idle"
                     /\ pc[c] = "idle submit" ~> pc[c] \in {"idle", "gone"}
                     /\ pc[c] \in {"submit", "poll resource"} ~> pc[c] = "idle" \/ gpuLost

\* Everything that is queued is handled.
EveryEntryRetires ==
  \A n \in 1 .. MaxEntries : Len(kind) >= n ~> n \in Elems(retired)

\* Whatever the threads and callers do, entries are submitted, released and
\* recycled in the order and at the times that DeviceQueue.tla promises, and no
\* wait ends early.
QueueSpec == Contract!Spec

=============================================================================
