---------------------------- MODULE Presentation ----------------------------
(***************************************************************************)
(* Presentation of a D3D11 swap chain: D3D11SwapChain::Present on the      *)
(* application's thread, the CS thread that queues the present, the submit *)
(* and the finish thread of DxvkSubmissionQueue, the Presenter's frame     *)
(* thread, and the CallbackFence that counts finished frames. The swap     *)
(* chain is recreated at any time; the Presenter has no lock, its users    *)
(* keep apart by m_presentStatus, by waitForIdle and by the frame signal.  *)
(*                                                                         *)
(* Command lists are left out; of the queue's entries only presents are    *)
(* modelled. Images, formats and modes are not told apart.                 *)
(***************************************************************************)
EXTENDS Integers, Sequences

CONSTANTS
  PresentWait,   \* may VK_KHR_present_wait be supported, or not: a set of BOOLEAN
  Latencies,     \* values of GetActualFrameLatency
  MaxInterval,   \* largest SyncInterval
  MaxCalls,      \* bound: calls of Present
  MaxFaults      \* bound: failures of the window system, minimized windows included

ASSUME PresentationAssumption ==
  /\ PresentWait \subseteq BOOLEAN
  /\ Latencies \subseteq Nat \ {0}
  /\ {MaxInterval, MaxCalls, MaxFaults} \subseteq Nat

VARIABLES
  \* The application's thread in D3D11SwapChain
  pc, ret,       \* where it is, and where RecreateSwapChain returns to
  call,          \* number, interval, repeat, dirty and test of the call of Present
  frameId,       \* m_frameId, less the 16 that it starts from
  \* Presenter
  chain,         \* there is a swap chain
  acquire,       \* m_acquireStatus
  lastFrame,     \* m_lastFrameId
  frameQueue,    \* m_frameQueue
  frame,         \* the frame thread, and the frame it works on
  \* CS thread and submission queue
  csQueue,       \* presents in CS chunks: their frameId, 0 for a repeat
  submitQueue, submitter,
  finishQueue, finisher,
  status,        \* m_presentStatus.result
  lastError,     \* m_lastError is VK_ERROR_DEVICE_LOST
  \* CallbackFence
  value, callbacks,
  presentCount,  \* m_frameStatistics.PresentCount, the frame of the last callback
  \* Environment and history
  config,        \* present_wait and frame latency
  lost,          \* the Vulkan device is lost
  faults,
  fired          \* how often the callback of each call has run

appVars   == <<pc, ret, call, frameId>>
frameVars == <<frameQueue, frame>>
queueVars == <<csQueue, submitQueue, submitter, finishQueue, finisher, status, lastError>>
fenceVars == <<value, callbacks, presentCount, fired>>
envVars   == <<config, lost, faults>>
vars == <<appVars, chain, acquire, lastFrame, frameVars, queueVars, fenceVars, envVars>>

Calls == 1 .. MaxCalls

Init ==
  /\ pc = "idle" /\ ret = "check" /\ frameId = 0
  /\ call = [n |-> 0, interval |-> 1, repeat |-> 0, dirty |-> FALSE, test |-> FALSE]
  /\ chain = FALSE /\ acquire = "not ready" /\ lastFrame = 0
  /\ frameQueue = <<>> /\ frame = [pc |-> "idle", id |-> 0]
  /\ csQueue = <<>> /\ submitQueue = <<>> /\ finishQueue = <<>>
  /\ submitter = [pc |-> "idle", result |-> "success"] /\ finisher = "idle"
  /\ status = "success" /\ lastError = FALSE
  /\ value = 0 /\ callbacks = {} /\ presentCount = 0 /\ fired = [n \in Calls |-> 0]
  /\ config \in [wait : PresentWait, latency : Latencies]
  /\ lost = FALSE /\ faults = 0

\* Something of the window system fails.
Fault == faults < MaxFaults /\ faults' = faults + 1

-----------------------------------------------------------------------------
(* CallbackFence                                                           *)

\* signal() holds the mutex while it runs callbacks.
Signalling == finisher = "signal" \/ frame.pc = "signal"

SignalValue(id) == value' = id /\ UNCHANGED <<callbacks, presentCount, fired>>

\* In the order of the list, which is the order of the calls.
RunCallbacks ==
  LET due == {c \in callbacks : c.frame <= value}
  IN /\ fired' = [n \in Calls |-> IF \E c \in due : c.n = n THEN fired[n] + 1 ELSE fired[n]]
     /\ IF due = {} THEN UNCHANGED presentCount
        ELSE presentCount' = (CHOOSE c \in due : \A d \in due : d.n <= c.n).frame
     /\ callbacks' = callbacks \ due
     /\ UNCHANGED value

-----------------------------------------------------------------------------
(* The application's thread                                                *)

Goto(p) == pc' = p

Recreate(next) == pc' = "recreate" /\ ret' = next

\* Present begins. Without a swap chain it tries to make one.
Present ==
  /\ pc = "idle" /\ call.n < MaxCalls
  /\ \E interval \in 1 .. MaxInterval, dirty, test \in BOOLEAN :
       call' = [n |-> call.n + 1, interval |-> interval, repeat |-> 0,
                dirty |-> dirty /\ chain /\ ~test, test |-> test]
  /\ IF chain THEN Goto("check") /\ UNCHANGED ret ELSE Recreate("check")
  /\ UNCHANGED <<frameId, chain, acquire, lastFrame, frameVars, queueVars, fenceVars, envVars>>

\* DXGI_STATUS_OCCLUDED, DXGI_ERROR_DEVICE_RESET and DXGI_PRESENT_TEST return here.
Check ==
  /\ pc = "check"
  /\ \/ call.test /\ Goto("idle") /\ UNCHANGED ret
     \/ ~call.test /\ (~chain \/ lastError) /\ Goto("latency") /\ UNCHANGED ret
     \/ ~call.test /\ chain /\ ~lastError /\ call.dirty /\ Recreate("sync")
     \/ ~call.test /\ chain /\ ~lastError /\ ~call.dirty /\ Goto("sync") /\ UNCHANGED ret
  /\ UNCHANGED <<call, frameId, chain, acquire, lastFrame, frameVars, queueVars, fenceVars,
                 envVars>>

\* SynchronizePresent: waitForSubmission; the swap chain is recreated unless the last
\* present succeeded.
SynchronizePresent ==
  /\ pc = "sync"
  /\ status # "not ready"
  /\ IF status = "success" THEN Goto("image") /\ UNCHANGED ret ELSE Recreate("image")
  /\ UNCHANGED <<call, frameId, chain, acquire, lastFrame, frameVars, queueVars, fenceVars,
                 envVars>>

\* acquireNextImage, which asks for an image only if there was no attempt yet. Without a
\* swap chain PresentImage returns; while there is no image the swap chain is recreated.
Acquire ==
  /\ pc = "image"
  /\ IF ~chain
     THEN Goto("latency") /\ UNCHANGED <<ret, acquire, faults>>
     ELSE /\ \/ acquire # "not ready" /\ UNCHANGED <<acquire, faults>>
             \/ acquire = "not ready" /\ ~lost /\ acquire' = "ok" /\ UNCHANGED faults
             \/ acquire = "not ready" /\ lost /\ acquire' = "error" /\ UNCHANGED faults
             \/ acquire = "not ready" /\ ~lost /\ acquire' = "error" /\ Fault
          /\ IF acquire' = "ok" THEN Goto("submit") /\ UNCHANGED ret ELSE Recreate("image")
  /\ UNCHANGED <<call, frameId, chain, lastFrame, frameVars, queueVars, fenceVars, config, lost>>

\* The next present of the call, or its end.
NextRepeat ==
  /\ call' = [call EXCEPT !.repeat = @ + 1]
  /\ Goto(IF call.repeat + 1 < call.interval THEN "sync" ELSE "latency")

\* Mutant: the result is not reset here; DxvkDevice::presentImage does it, too.
SubmitStale ==
  /\ pc = "submit"
  /\ frameId' = IF call.repeat = 0 THEN frameId + 1 ELSE frameId
  /\ csQueue' = Append(csQueue, IF call.repeat = 0 THEN frameId' ELSE 0)
  /\ NextRepeat
  /\ UNCHANGED <<ret, chain, acquire, lastFrame, frameVars, submitQueue, submitter, finishQueue,
                 finisher, status, lastError, fenceVars, envVars>>

\* Mutant: every present has a frame of its own, which a repeat does not signal.
SubmitEachFrame ==
  /\ pc = "submit"
  /\ frameId' = frameId + 1
  /\ status' = "not ready"
  /\ csQueue' = Append(csQueue, IF call.repeat = 0 THEN frameId' ELSE 0)
  /\ NextRepeat
  /\ UNCHANGED <<ret, chain, acquire, lastFrame, frameVars, submitQueue, submitter, finishQueue,
                 finisher, lastError, fenceVars, envVars>>

\* Only the first present of a call has a frame number.
SubmitPresent ==
  /\ pc = "submit"
  /\ frameId' = IF call.repeat = 0 THEN frameId + 1 ELSE frameId
  /\ status' = "not ready"
  /\ csQueue' = Append(csQueue, IF call.repeat = 0 THEN frameId' ELSE 0)
  /\ NextRepeat
  /\ UNCHANGED <<ret, chain, acquire, lastFrame, frameVars, submitQueue, submitter, finishQueue,
                 finisher, lastError, fenceVars, envVars>>

\* waitForSubmission and waitForIdle.
Idle == status # "not ready" /\ submitQueue = <<>> /\ finishQueue = <<>>

RecreateSwapChain ==
  /\ pc = "recreate"
  /\ Idle
  /\ status' = "success"
  /\ Goto(IF chain THEN "destroy" ELSE "create")
  /\ UNCHANGED <<ret, call, frameId, chain, acquire, lastFrame, frameVars, csQueue, submitQueue,
                 submitter, finishQueue, finisher, lastError, fenceVars, envVars>>

\* Presenter::destroySwapchain waits for the frame that was presented last.
DestroySwapchain ==
  /\ pc \in {"destroy", "close"}
  /\ value >= lastFrame
  /\ chain' = FALSE
  /\ IF pc = "destroy" THEN Goto("create") /\ UNCHANGED frameQueue
     ELSE /\ Goto("join")
          /\ frameQueue' = Append(frameQueue, [id |-> 0, result |-> "success"])
  /\ UNCHANGED <<ret, call, frameId, acquire, lastFrame, frame, queueVars, fenceVars, envVars>>

\* Presenter::recreateSwapChain, maybe after recreateSurface and a second time: there is a
\* new swap chain, or none because the window is minimized, ...
CreateSwapChain ==
  /\ pc = "create"
  /\ \/ ~lost /\ chain' = TRUE /\ acquire' = "not ready" /\ UNCHANGED faults
     \/ Fault /\ UNCHANGED <<chain, acquire>>
  /\ Goto(ret)
  /\ UNCHANGED <<ret, call, frameId, lastFrame, frameVars, queueVars, fenceVars, config, lost>>

\* ... or it throws: PresentImage fails, or the exception leaves Present.
CreateFails ==
  /\ pc = "create"
  /\ IF lost THEN UNCHANGED faults ELSE Fault
  /\ Goto(IF ret = "image" THEN "latency" ELSE "thrown")
  /\ UNCHANGED <<ret, call, frameId, chain, acquire, lastFrame, frameVars, queueVars, fenceVars,
                 config, lost>>

\* SyncFrameLatency waits for an earlier frame ...
SyncFrameLatency ==
  /\ pc = "latency"
  /\ frameId - config.latency <= value
  /\ Goto("callback")
  /\ UNCHANGED <<ret, call, frameId, chain, acquire, lastFrame, frameVars, queueVars, fenceVars,
                 envVars>>

\* The callback of this call on this thread.
Counted == fired' = [fired EXCEPT ![call.n] = @ + 1] /\ presentCount' = frameId

\* ... and calls setCallback: it runs the callback at once if the frame is finished, ...
SetCallback ==
  /\ pc = "callback"
  /\ IF frameId <= value THEN Counted /\ Goto("idle")
     ELSE Goto("insert") /\ UNCHANGED <<fired, presentCount>>
  /\ UNCHANGED <<ret, call, frameId, chain, acquire, lastFrame, frameVars, queueVars, value,
                 callbacks, envVars>>

\* Mutant: the value is not looked at again under the lock.
InsertBlindly ==
  /\ pc = "insert"
  /\ ~Signalling
  /\ callbacks' = callbacks \cup {[n |-> call.n, frame |-> frameId]}
  /\ Goto("idle")
  /\ UNCHANGED <<ret, call, frameId, chain, acquire, lastFrame, frameVars, queueVars, value, fired,
                 presentCount, envVars>>

\* ... and looks again when it has the lock.
InsertCallback ==
  /\ pc = "insert"
  /\ ~Signalling
  /\ IF frameId > value
     THEN callbacks' = callbacks \cup {[n |-> call.n, frame |-> frameId]}
          /\ UNCHANGED <<fired, presentCount>>
     ELSE Counted /\ UNCHANGED callbacks
  /\ Goto("idle")
  /\ UNCHANGED <<ret, call, frameId, chain, acquire, lastFrame, frameVars, queueVars, value,
                 envVars>>

\* ~D3D11SwapChain; DestroySwapchain is the first part of ~Presenter.
Close ==
  /\ pc = "idle"
  /\ Idle
  /\ Goto("close")
  /\ UNCHANGED <<ret, call, frameId, chain, acquire, lastFrame, frameVars, queueVars, fenceVars,
                 envVars>>

Join ==
  /\ pc = "join"
  /\ config.wait => frame.pc = "gone"
  /\ Goto("gone")
  /\ UNCHANGED <<ret, call, frameId, chain, acquire, lastFrame, frameVars, queueVars, fenceVars,
                 envVars>>

App == \/ Check \/ SynchronizePresent \/ Acquire \/ SubmitPresent \/ RecreateSwapChain
       \/ DestroySwapchain \/ CreateSwapChain \/ CreateFails \/ SyncFrameLatency \/ SetCallback
       \/ InsertCallback \/ Join

-----------------------------------------------------------------------------
(* CS thread, submit thread and finish thread                              *)

\* DxvkDevice::presentImage
CsPresent ==
  /\ csQueue # <<>>
  /\ status' = "not ready"
  /\ submitQueue' = Append(submitQueue, Head(csQueue))
  /\ csQueue' = Tail(csQueue)
  /\ UNCHANGED <<appVars, chain, acquire, lastFrame, frameVars, submitter, finishQueue, finisher,
                 lastError, fenceVars, envVars>>

SubmitTake ==
  /\ submitter.pc = "idle" /\ submitQueue # <<>>
  /\ submitter' = IF lastError THEN [pc |-> "write", result |-> "lost"]
                  ELSE [pc |-> "present", result |-> "success"]
  /\ UNCHANGED <<appVars, chain, acquire, lastFrame, frameVars, csQueue, submitQueue, finishQueue,
                 finisher, status, lastError, fenceVars, envVars>>

\* Presenter::presentImage: the next image is acquired if the present succeeds.
PresentImage ==
  /\ submitter.pc = "present"
  /\ \E result \in {"success", "suboptimal", "error", "lost"} :
       /\ submitter' = [pc |-> "write", result |-> result]
       /\ lost <=> result = "lost"
       /\ \/ result = "success" /\ acquire' = "ok" /\ UNCHANGED faults
          \/ result \in {"success", "suboptimal"} /\ acquire' = "error" /\ Fault
          \/ result = "suboptimal" /\ acquire' = "ok" /\ Fault
          \/ result = "error" /\ Fault /\ UNCHANGED acquire
          \/ result = "lost" /\ UNCHANGED <<acquire, faults>>
  /\ UNCHANGED <<appVars, chain, lastFrame, frameVars, csQueue, submitQueue, finishQueue, finisher,
                 status, lastError, fenceVars, config, lost>>

\* The result is published before the entry is handed on.
SubmitStatus ==
  /\ submitter.pc = "write"
  /\ status' = submitter.result
  /\ submitter' = [submitter EXCEPT !.pc = "forward"]
  /\ UNCHANGED <<appVars, chain, acquire, lastFrame, frameVars, csQueue, submitQueue, finishQueue,
                 finisher, lastError, fenceVars, envVars>>

\* A present that failed is handed on unless the device is lost.
SubmitForward ==
  /\ submitter.pc = "forward"
  /\ IF submitter.result = "lost"
     THEN lastError' = TRUE /\ UNCHANGED finishQueue
     ELSE /\ finishQueue' =
               Append(finishQueue, [id |-> Head(submitQueue), result |-> submitter.result])
          /\ UNCHANGED lastError
  /\ submitQueue' = Tail(submitQueue)
  /\ submitter' = [submitter EXCEPT !.pc = "idle"]
  /\ UNCHANGED <<appVars, chain, acquire, lastFrame, frameVars, csQueue, finisher, status,
                 fenceVars, envVars>>

\* signalFrame: nothing for a repeat; the frame is queued, or signalled here ...
SignalFrame ==
  /\ finisher = "idle" /\ finishQueue # <<>>
  /\ LET id == Head(finishQueue).id
     IN \/ id = 0 /\ finisher' = "pop" /\ UNCHANGED <<frameQueue, fenceVars>>
        \/ /\ id # 0 /\ config.wait
           /\ frameQueue' = Append(frameQueue, Head(finishQueue))
           /\ finisher' = "store" /\ UNCHANGED fenceVars
        \/ /\ id # 0 /\ ~config.wait
           /\ SignalValue(id)
           /\ finisher' = "signal" /\ UNCHANGED frameQueue
  /\ UNCHANGED <<appVars, chain, acquire, lastFrame, frame, csQueue, submitQueue, submitter,
                 finishQueue, status, lastError, envVars>>

SignalFrameCallbacks ==
  /\ finisher = "signal"
  /\ RunCallbacks
  /\ finisher' = "store"
  /\ UNCHANGED <<appVars, chain, acquire, lastFrame, frameVars, csQueue, submitQueue, submitter,
                 finishQueue, status, lastError, envVars>>

\* ... and becomes the last one; then the entry leaves the queue.
SignalFrameStore ==
  /\ finisher = "store"
  /\ lastFrame' = Head(finishQueue).id
  /\ finisher' = "pop"
  /\ UNCHANGED <<appVars, chain, acquire, frameVars, csQueue, submitQueue, submitter, finishQueue,
                 status, lastError, fenceVars, envVars>>

FinishPop ==
  /\ finisher = "pop"
  /\ finishQueue' = Tail(finishQueue)
  /\ finisher' = "idle"
  /\ UNCHANGED <<appVars, chain, acquire, lastFrame, frameVars, csQueue, submitQueue, submitter,
                 status, lastError, fenceVars, envVars>>

Queue == \/ CsPresent \/ SubmitTake \/ PresentImage \/ SubmitStatus \/ SubmitForward
         \/ SignalFrame \/ SignalFrameCallbacks \/ SignalFrameStore \/ FinishPop

-----------------------------------------------------------------------------
(* The frame thread                                                        *)

\* A present that succeeded is waited for in FIFO modes only; a frame 0 ends the thread.
FrameTake ==
  /\ config.wait
  /\ frame.pc = "idle" /\ frameQueue # <<>>
  /\ frameQueue' = Tail(frameQueue)
  /\ LET f == Head(frameQueue)
         steps == IF f.id = 0 THEN {"gone"}
                  ELSE {"done"} \cup (IF f.result = "error" THEN {} ELSE {"wait"})
     IN \E p \in steps : frame' = [pc |-> p, id |-> f.id]
  /\ UNCHANGED <<appVars, chain, acquire, lastFrame, queueVars, fenceVars, envVars>>

\* vkWaitForPresentKHR returns at last, with whatever result.
FrameWaited ==
  /\ frame.pc = "wait"
  /\ frame' = [frame EXCEPT !.pc = "done"]
  /\ UNCHANGED <<appVars, chain, acquire, lastFrame, frameQueue, queueVars, fenceVars, envVars>>

FrameSignal ==
  /\ frame.pc = "done"
  /\ SignalValue(frame.id)
  /\ frame' = [frame EXCEPT !.pc = "signal"]
  /\ UNCHANGED <<appVars, chain, acquire, lastFrame, frameQueue, queueVars, envVars>>

FrameCallbacks ==
  /\ frame.pc = "signal"
  /\ RunCallbacks
  /\ frame' = [pc |-> "idle", id |-> 0]
  /\ UNCHANGED <<appVars, chain, acquire, lastFrame, frameQueue, queueVars, envVars>>

FrameThread == FrameTake \/ FrameWaited \/ FrameSignal \/ FrameCallbacks

\* The device is lost, and a command list may be the first to tell.
Lose ==
  /\ \/ ~lost /\ lost' = TRUE /\ UNCHANGED lastError
     \/ lost /\ ~lastError /\ lastError' = TRUE /\ UNCHANGED lost
  /\ UNCHANGED <<appVars, chain, acquire, lastFrame, frameVars, csQueue, submitQueue, submitter,
                 finishQueue, finisher, status, fenceVars, config, faults>>

Next == Present \/ App \/ Close \/ Queue \/ FrameThread \/ Lose

Spec == Init /\ [][Next]_vars

\* Every thread runs on; the application need not present or close.
Fairness ==
  /\ WF_vars(App)
  /\ WF_vars(CsPresent)
  /\ WF_vars(SubmitTake \/ PresentImage \/ SubmitStatus \/ SubmitForward)
  /\ WF_vars(SignalFrame \/ SignalFrameCallbacks \/ SignalFrameStore \/ FinishPop)
  /\ WF_vars(FrameThread)

FairSpec == Spec /\ Fairness

-----------------------------------------------------------------------------
Results == {"success", "suboptimal", "error", "lost"}
Frames  == 0 .. MaxCalls

TypeOK ==
  /\ pc \in {"idle", "check", "sync", "image", "submit", "recreate", "destroy", "create", "latency",
             "callback", "insert", "close", "join", "gone", "thrown"}
  /\ frameId \in Frames /\ lastFrame \in Frames /\ value \in Frames
  /\ chain \in BOOLEAN /\ acquire \in {"not ready", "ok", "error"}
  /\ csQueue \in Seq(Frames) /\ submitQueue \in Seq(Frames)
  /\ finishQueue \in Seq([id : Frames, result : Results])
  /\ frameQueue \in Seq([id : Frames, result : Results])
  /\ status \in Results \cup {"not ready"}
  /\ presentCount \in Frames
  /\ callbacks \subseteq [n : Calls, frame : Frames]
  /\ fired \in [Calls -> Nat]

\* The frames that the frame thread waits for, or may have to.
Awaited == {f \in {frameQueue[i] : i \in DOMAIN frameQueue} : f.id # 0 /\ f.result # "error"}

\* While the submit thread presents, and acquires the next image, the application's thread
\* does not acquire one nor recreate or destroy the swap chain, although the Presenter has
\* no lock; an image is presented that was acquired from the swap chain that exists; and
\* the swap chain is not destroyed before the frame thread has done waiting for it. (TypeOK
\* is its first part.)
PresenterKept ==
  /\ TypeOK
  /\ submitter.pc = "present" =>
       chain /\ acquire = "ok" /\ pc \notin {"image", "destroy", "create", "close"}
  /\ ~chain => Awaited = {} /\ frame.pc # "wait"

\* The callback of a call runs once, although the fence is signalled while it is set, none is
\* left behind a signal, and the frame statistics never go back, although callbacks run on two
\* threads and each writes the number of its own frame.
CalledBackOnce ==
  /\ [](\A n \in Calls : fired[n] + (IF n \in {c.n : c \in callbacks} THEN 1 ELSE 0) <= 1)
  /\ [](\A c \in callbacks : c.frame <= value => Signalling)
  /\ [][presentCount' >= presentCount]_vars

\* Present and the destructor return, also when the device is lost, and the frame latency
\* event is released for every call, unless the device is lost or an exception ends it.
PresentReturns ==
  /\ pc # "idle" ~> pc \in {"idle", "gone", "thrown"}
  /\ \A n \in Calls :
       call.n = n /\ pc = "latency" ~> fired[n] = 1 \/ lost
=============================================================================
