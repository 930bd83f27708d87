----------------------- MODULE SubmissionQueueProofs -----------------------
(***************************************************************************)
(* Theorems about SubmissionQueue, for any set of callers, any bounds and   *)
(* any failures.  The four properties say where entries are; that they hold *)
(* rests on entries passing m_submitQueue in the order of their numbers     *)
(* (PlaceInv), on what each thread knows of the entry it works on while the *)
(* mutex is free (ThreadInv), and on who still holds references (UseInv).   *)
(***************************************************************************)
EXTENDS SubmissionQueue, FiniteSetTheorems, SequenceTheorems, TLAPS

\* Entries pass m_submitQueue in the order of their numbers: those up to this
\* one have left it.
Submitted == Len(kind) - Len(submitQueue)

\* Where every entry is.  m_submitQueue holds the numbers after Submitted; the
\* others are in m_finishQueue, in order, or retired, in any order.
PlaceInv ==
  /\ result \in Seq(Results) /\ Len(result) = Len(kind)
  /\ Submitted \in Nat
  /\ \A i \in 1 .. Len(submitQueue) : submitQueue[i] = Submitted + i
  /\ \A i \in 1 .. Len(finishQueue) : finishQueue[i] <= Submitted
  /\ \A i, j \in 1 .. Len(finishQueue) : i < j => finishQueue[i] < finishQueue[j]
  /\ \A i \in 1 .. Len(retired) :
       /\ retired[i] <= Submitted
       /\ \A j \in 1 .. Len(finishQueue) : retired[i] # finishQueue[j]
       /\ \A j \in 1 .. Len(retired) : i # j => retired[i] # retired[j]
  /\ 1 .. Submitted \subseteq Elems(finishQueue) \cup Elems(retired)

\* What the two threads know of the entry they work on without m_mutex.
ThreadInv ==
  /\ submitPc \notin {"wait", "exit"} => submitQueue # <<>>
  /\ finishPc \notin {"wait", "recycle", "exit"} => finishQueue # <<>> /\ entry = Head(finishQueue)
  /\ finishPc = "fence" => kind[entry] = "cmdlist"
  /\ finishPc = "present" => kind[entry] = "present"
  /\ finishPc = "notify" => entry \notin onGpu \/ gpuLost
  /\ finishPc = "pop" => entry \notin inUse
  /\ finishPc = "recycle" => entry \in CmdLists \cap Elems(retired)
  /\ "lost" \in {lastError, outcome} => gpuLost

\* References are held from submit() until the entry is notified or dropped.
UseInv ==
  /\ \A e \in Queued : e > Submitted => e \in inUse
  /\ \A e \in onGpu : e \in inUse \/ gpuLost
  /\ Elems(retired) \cap inUse = {}
  /\ recycled \subseteq Elems(retired)

IdlePcs == {"idle lock", "idle gpu", "stop", "join", "gone"}

\* What a caller in waitForIdle knows; and that nothing is queued any more
\* once ~DxvkDevice has begun.
CallInv ==
  /\ \A c \in Callers :
       /\ pc[c] = "idle finish" => arg[c] <= Submitted
       /\ pc[c] \in IdlePcs => 1 .. arg[c] \subseteq Elems(retired)
       /\ pc[c] \in {"stop", "join", "gone"} => closing
       /\ closing => pc[c] \in IdlePcs \cup {"idle", "idle submit", "idle finish"}
       /\ closing /\ pc[c] # "idle" => arg[c] = Len(kind)
  /\ stopped => closing /\ submitQueue = <<>> /\ finishQueue = <<>> /\ (onGpu = {} \/ gpuLost)

Submitters == {c \in Callers : pc[c] = "submit"}

\* A call of submit() has its place below the bound from its beginning.
BoundInv == Len(kind) + Cardinality(Submitters) <= MaxEntries

IInv == TypeOK /\ PlaceInv /\ ThreadInv /\ UseInv /\ CallInv /\ BoundInv

-----------------------------------------------------------------------------
(* Sequences                                                               *)

LEMMA ElemsEmpty == Elems(<<>>) = {}
  BY DEF Elems

LEMMA ElemsAppend ==
  ASSUME NEW S, NEW q \in Seq(S), NEW x \in S
  PROVE  Elems(Append(q, x)) = Elems(q) \cup {x}
<1>1. \A i \in 1 .. Len(q) : Append(q, x)[i] = q[i]
  OBVIOUS
<1>2. Append(q, x)[Len(q) + 1] = x /\ DOMAIN Append(q, x) = 1 .. Len(q) + 1
  OBVIOUS
<1>3. DOMAIN q = 1 .. Len(q) /\ Len(q) \in Nat
  OBVIOUS
<1> QED
  BY <1>1, <1>2, <1>3 DEF Elems

LEMMA ElemsTail ==
  ASSUME NEW S, NEW q \in Seq(S), q # <<>>
  PROVE  Elems(q) = {Head(q)} \cup Elems(Tail(q))
<1>1. /\ Len(q) \in Nat \ {0} /\ DOMAIN q = 1 .. Len(q) /\ Head(q) = q[1]
      /\ DOMAIN Tail(q) = 1 .. Len(q) - 1
      /\ \A i \in 1 .. Len(q) - 1 : Tail(q)[i] = q[i + 1]
  OBVIOUS
<1>2. ASSUME NEW i \in 1 .. Len(q) PROVE q[i] \in {Head(q)} \cup Elems(Tail(q))
  <2>1. CASE i = 1
    BY <1>1, <2>1
  <2>2. CASE i # 1
    <3>1. i - 1 \in 1 .. Len(q) - 1 /\ Tail(q)[i - 1] = q[i]
      BY <1>1, <2>2
    <3> QED
      BY <1>1, <3>1 DEF Elems
  <2> QED
    BY <2>1, <2>2
<1>3. ASSUME NEW i \in 1 .. Len(q) - 1 PROVE Tail(q)[i] \in Elems(q)
  <2>1. i + 1 \in 1 .. Len(q)
    BY <1>1
  <2> QED
    BY <1>1, <2>1 DEF Elems
<1>4. Head(q) \in Elems(q)
  BY <1>1 DEF Elems
<1> QED
  BY <1>1, <1>2, <1>3, <1>4 DEF Elems

LEMMA AppendFacts ==
  ASSUME NEW S, NEW q \in Seq(S), NEW x \in S, NEW q2, q2 = Append(q, x)
  PROVE  /\ q2 \in Seq(S) /\ Len(q) \in Nat /\ Len(q2) = Len(q) + 1
         /\ \A i \in 1 .. Len(q) : q2[i] = q[i] /\ q[i] \in S
         /\ q2[Len(q) + 1] = x
         /\ Elems(q2) = Elems(q) \cup {x}
<1>1. Elems(q2) = Elems(q) \cup {x}
  BY ElemsAppend
<1>2. q2 \in Seq(S) /\ Len(q) \in Nat /\ Len(q2) = Len(q) + 1
  OBVIOUS
<1>3. \A i \in 1 .. Len(q) : q2[i] = q[i] /\ q[i] \in S
  OBVIOUS
<1>4. q2[Len(q) + 1] = x
  OBVIOUS
<1> QED
  BY <1>1, <1>2, <1>3, <1>4

LEMMA TailFacts ==
  ASSUME NEW S, NEW q \in Seq(S), q # <<>>, NEW q2, q2 = Tail(q)
  PROVE  /\ q2 \in Seq(S) /\ Len(q) \in Nat \ {0} /\ Len(q2) = Len(q) - 1
         /\ \A i \in 1 .. Len(q) - 1 : q2[i] = q[i + 1]
         /\ Head(q) = q[1] /\ Head(q) \in S
         /\ Elems(q) = {Head(q)} \cup Elems(q2)
<1>1. Elems(q) = {Head(q)} \cup Elems(q2)
  BY ElemsTail
<1>2. q2 \in Seq(S) /\ Len(q) \in Nat \ {0} /\ Len(q2) = Len(q) - 1
  OBVIOUS
<1>3. \A i \in 1 .. Len(q) - 1 : q2[i] = q[i + 1]
  OBVIOUS
<1>4. Head(q) = q[1] /\ Head(q) \in S
  OBVIOUS
<1> QED
  BY <1>1, <1>2, <1>3, <1>4

-----------------------------------------------------------------------------
(* What a step does: most steps of callers leave alone all that the queue's *)
(* two threads look at.                                                     *)

Quiet == UNCHANGED <<queueVars, gpuVars, submitVars, finishVars>>

Stopping ==
  /\ stopped' = TRUE
  /\ UNCHANGED <<kind, result, submitQueue, finishQueue, lastError, mutex, gpuVars,
                 submitVars, finishVars>>

ThreadStep == \/ SubmitTake \/ SubmitExit \/ SubmitCheck \/ SubmitToGpu \/ SubmitStatus
              \/ SubmitForward \/ SubmitDrop \/ SubmitFail
              \/ FinishTake \/ FinishExit \/ FinishFence \/ FinishLost \/ FinishFail
              \/ FinishNotify \/ FinishPop \/ FinishRecycle
              \/ GpuComplete \/ GpuLose

LEMMA StepCases ==
  [Next]_vars => Quiet \/ Stopping \/ ThreadStep \/ \E k \in {"cmdlist", "present"} : Push(k)
<1> SUFFICES ASSUME [Next]_vars
             PROVE  Quiet \/ Stopping \/ ThreadStep \/ \E k \in {"cmdlist", "present"} : Push(k)
  OBVIOUS
<1> USE DEF Quiet, Stopping, ThreadStep, queueVars, gpuVars, submitVars, finishVars, FallAsleep, Move
<1>1. CASE SubmitThread
  BY <1>1 DEF SubmitThread, SubmitWait
<1>2. CASE FinishThread
  BY <1>2 DEF FinishThread, FinishWait
<1>3. CASE GpuComplete \/ GpuLose
  BY <1>3
<1>4. ASSUME NEW w \in Callers \cup {"submit thread", "finish thread"}, SpuriousWake(w) PROVE Quiet
  BY <1>4 DEF SpuriousWake
<1>5. ASSUME NEW c \in Callers, NEW op, Call(c, op) PROVE Quiet
  BY <1>5 DEF Call
<1>6. ASSUME NEW c \in Callers, Present(c) PROVE Push("present")
  BY <1>6 DEF Present
<1>7. ASSUME NEW c \in Callers, Close(c) PROVE Quiet
  BY <1>7 DEF Close
<1>8. ASSUME NEW c \in Callers, CallStep(c)
      PROVE  Quiet \/ Stopping \/ Push("cmdlist")
  BY <1>8 DEF CallStep, Submit, SubmitFull, PollStatus, StatusReady, StatusNotReady,
     PollResource, ResourceFree, ResourceBusy, Synchronize, SynchronizeBusy,
     LockDeviceQueue, UnlockDeviceQueue, IdleSubmitted, IdleFinished, IdleBusy, IdleGpu,
     Stop, Join
<1>9. CASE UNCHANGED vars
  BY <1>9 DEF vars
<1> QED
  BY <1>1, <1>2, <1>3, <1>4, <1>5, <1>6, <1>7, <1>8, <1>9 DEF Next

-----------------------------------------------------------------------------
(* The inductive invariant                                                 *)

LEMMA InitInv == Init => IInv
<1> SUFFICES ASSUME Init PROVE IInv
  OBVIOUS
<1>0. Len(kind) = 0 /\ Queued = {} /\ Submitted = 0 /\ Elems(retired) = {}
  BY DEF Init, Queued, Submitted, Elems
<1>1. TypeOK
  <2>1. pc \in [Callers -> CallPcs] /\ arg \in [Callers -> Queued \cup {0}]
    BY DEF Init, CallPcs
  <2>2. kind \in Seq({"cmdlist", "present"}) /\ result \in [Queued -> Results]
    BY <1>0 DEF Init
  <2>3. submitQueue \in Seq(Queued) /\ finishQueue \in Seq(Queued) /\ retired \in Seq(Queued)
    BY DEF Init
  <2>4. Len(kind) <= MaxEntries
    <3>1. MaxEntries \in Nat
      BY QueueAssumption
    <3> QED
      BY <1>0, <3>1
  <2>5. /\ lastError \in Results \ {"not ready"} /\ outcome \in Results \ {"not ready"}
        /\ submitPc \in SubmitPcs /\ finishPc \in FinishPcs /\ entry \in Queued \cup {0}
    BY DEF Init, SubmitPcs, FinishPcs, Results
  <2>6. onGpu \subseteq CmdLists /\ inUse \subseteq Queued /\ recycled \subseteq CmdLists
    BY DEF Init
  <2> QED
    BY <2>1, <2>2, <2>3, <2>4, <2>5, <2>6 DEF Init, TypeOK
<1>2. PlaceInv
  BY <1>0 DEF Init, PlaceInv
<1>3. ThreadInv
  BY DEF Init, ThreadInv
<1>4. UseInv
  BY <1>0 DEF Init, UseInv
<1>5. CallInv
  BY DEF Init, CallInv, IdlePcs
<1>6. BoundInv
  <2>1. Submitters = {}
    BY DEF Init, Submitters
  <2>2. Cardinality(Submitters) = 0
    BY <2>1, FS_EmptySet
  <2>3. MaxEntries \in Nat
    BY QueueAssumption
  <2> QED
    BY <1>0, <2>2, <2>3 DEF BoundInv
<1> QED
  BY <1>1, <1>2, <1>3, <1>4, <1>5, <1>6 DEF IInv

\* The two halves of TypeOK: what the threads look at, and the calls.
QueueTypes ==
  /\ kind \in Seq({"cmdlist", "present"}) /\ Len(kind) <= MaxEntries
  /\ result \in [Queued -> Results]
  /\ submitQueue \in Seq(Queued) /\ finishQueue \in Seq(Queued) /\ retired \in Seq(Queued)
  /\ lastError \in Results \ {"not ready"} /\ outcome \in Results \ {"not ready"}
  /\ stopped \in BOOLEAN /\ mutex \in BOOLEAN /\ gpuLost \in BOOLEAN
  /\ submitPc \in SubmitPcs /\ finishPc \in FinishPcs
  /\ entry \in Queued \cup {0}
  /\ onGpu \subseteq CmdLists /\ inUse \subseteq Queued /\ recycled \subseteq CmdLists

CallTypes ==
  /\ closing \in BOOLEAN
  /\ queueOwner \in Callers \cup {"none"}
  /\ pc \in [Callers -> CallPcs]
  /\ arg \in [Callers -> Queued \cup {0}]
  /\ asleep \subseteq Callers \cup {"submit thread", "finish thread"}

LEMMA PushTypes ==
  ASSUME IInv, NEW k \in {"cmdlist", "present"}, Push(k)
  PROVE  /\ kind' \in Seq({"cmdlist", "present"}) /\ Len(kind') = Len(kind) + 1
         /\ \A e \in Queued : kind'[e] = kind[e]
         /\ kind'[Len(kind) + 1] = k
         /\ Len(kind) \in Nat
         /\ Queued' = Queued \cup {Len(kind) + 1}
         /\ result' \in Seq(Results) /\ Len(result') = Len(kind')
         /\ submitQueue' \in Seq(Queued') /\ Len(submitQueue') = Len(submitQueue) + 1
         /\ \A i \in 1 .. Len(submitQueue) : submitQueue'[i] = submitQueue[i]
         /\ submitQueue'[Len(submitQueue) + 1] = Len(kind) + 1
         /\ Len(submitQueue) \in Nat
         /\ finishQueue' \in Seq(Queued') /\ retired' \in Seq(Queued')
<1>1. kind \in Seq({"cmdlist", "present"}) /\ kind' = Append(kind, k)
  BY DEF IInv, TypeOK, Push
<1>2. /\ kind' \in Seq({"cmdlist", "present"}) /\ Len(kind') = Len(kind) + 1
      /\ \A e \in 1 .. Len(kind) : kind'[e] = kind[e]
      /\ kind'[Len(kind) + 1] = k
      /\ Len(kind) \in Nat
  BY <1>1, AppendFacts
<1>3. Queued' = Queued \cup {Len(kind) + 1}
  BY <1>2 DEF Queued
<1>4. result' \in Seq(Results) /\ Len(result') = Len(kind')
  <2>1. result \in Seq(Results) /\ Len(result) = Len(kind)
    BY DEF IInv, PlaceInv
  <2>2. PICK r \in Results : result' = Append(result, r)
    BY DEF Push, Results
  <2>3. result' \in Seq(Results) /\ Len(result') = Len(result) + 1
    BY <2>1, <2>2, AppendFacts
  <2> QED
    BY <1>2, <2>1, <2>3
<1>5. Queued \subseteq Queued' /\ Len(kind) + 1 \in Queued'
  BY <1>3
<1>6. submitQueue \in Seq(Queued') /\ finishQueue' \in Seq(Queued') /\ retired' \in Seq(Queued')
  <2>1. submitQueue \in Seq(Queued) /\ finishQueue \in Seq(Queued) /\ retired \in Seq(Queued)
    BY DEF IInv, TypeOK
  <2>2. finishQueue' = finishQueue /\ retired' = retired
    BY DEF Push
  <2>3. submitQueue \in Seq(Queued') /\ finishQueue \in Seq(Queued') /\ retired \in Seq(Queued')
    BY <1>5, <2>1, SeqMonotonic
  <2> QED
    BY <2>2, <2>3
<1>7. /\ submitQueue' \in Seq(Queued') /\ Len(submitQueue') = Len(submitQueue) + 1
      /\ \A i \in 1 .. Len(submitQueue) : submitQueue'[i] = submitQueue[i]
      /\ submitQueue'[Len(submitQueue) + 1] = Len(kind) + 1
      /\ Len(submitQueue) \in Nat
  <2>1. submitQueue' = Append(submitQueue, Len(kind) + 1)
    BY DEF Push
  <2> QED
    BY <1>5, <1>6, <2>1, AppendFacts
<1> QED
  BY <1>2, <1>3, <1>4, <1>6, <1>7 DEF Queued

\* The front of m_submitQueue leaves it.
LEMMA SubmitTail ==
  ASSUME IInv, submitQueue # <<>>, submitQueue' = Tail(submitQueue)
  PROVE  /\ submitQueue' \in Seq(Queued)
         /\ Len(submitQueue) \in Nat \ {0} /\ Len(submitQueue') = Len(submitQueue) - 1
         /\ \A i \in 1 .. Len(submitQueue') : submitQueue'[i] = submitQueue[i + 1]
         /\ Head(submitQueue) \in Queued /\ Head(submitQueue) = Submitted + 1
<1>1. submitQueue \in Seq(Queued)
  BY DEF IInv, TypeOK
<1>2. /\ submitQueue' \in Seq(Queued)
      /\ Len(submitQueue) \in Nat \ {0} /\ Len(submitQueue') = Len(submitQueue) - 1
      /\ \A i \in 1 .. Len(submitQueue) - 1 : submitQueue'[i] = submitQueue[i + 1]
      /\ Head(submitQueue) = submitQueue[1] /\ Head(submitQueue) \in Queued
  BY <1>1, TailFacts
<1>3. submitQueue[1] = Submitted + 1
  BY <1>2 DEF IInv, PlaceInv
<1> QED
  BY <1>2, <1>3

LEMMA FinishTail ==
  ASSUME IInv, finishQueue # <<>>, finishQueue' = Tail(finishQueue)
  PROVE  /\ finishQueue' \in Seq(Queued)
         /\ Len(finishQueue) \in Nat \ {0} /\ Len(finishQueue') = Len(finishQueue) - 1
         /\ \A i \in 1 .. Len(finishQueue') : finishQueue'[i] = finishQueue[i + 1]
         /\ Head(finishQueue) = finishQueue[1] /\ Head(finishQueue) \in Queued
         /\ Elems(finishQueue) = {Head(finishQueue)} \cup Elems(finishQueue')
<1>1. finishQueue \in Seq(Queued)
  BY DEF IInv, TypeOK
<1>2. /\ finishQueue' \in Seq(Queued)
      /\ Len(finishQueue) \in Nat \ {0} /\ Len(finishQueue') = Len(finishQueue) - 1
      /\ \A i \in 1 .. Len(finishQueue) - 1 : finishQueue'[i] = finishQueue[i + 1]
      /\ Head(finishQueue) = finishQueue[1] /\ Head(finishQueue) \in Queued
  BY <1>1, TailFacts
<1>3. Elems(finishQueue) = {Head(finishQueue)} \cup Elems(finishQueue')
  BY <1>1, ElemsTail
<1> QED
  BY <1>2, <1>3

\* The front of m_submitQueue, which submitCmdLists works on.
LEMMA SubmitFront ==
  ASSUME IInv, submitPc \notin {"wait", "exit"}
  PROVE  /\ submitQueue # <<>> /\ Head(submitQueue) \in Queued
         /\ Head(submitQueue) = Submitted + 1
<1>1. submitQueue # <<>> /\ submitQueue \in Seq(Queued)
  BY DEF IInv, ThreadInv, TypeOK
<1>2. Len(submitQueue) \in Nat \ {0} /\ Head(submitQueue) = submitQueue[1] /\ submitQueue[1] \in Queued
  BY <1>1
<1>3. submitQueue[1] = Submitted + 1
  BY <1>2 DEF IInv, PlaceInv
<1> QED
  BY <1>1, <1>2, <1>3

LEMMA ResultStep ==
  ASSUME IInv, [Next]_vars
  PROVE  result' \in Seq(Results) /\ Len(result') = Len(kind')
<1>1. result \in Seq(Results) /\ Len(result) = Len(kind) /\ DOMAIN result = 1 .. Len(result)
  BY DEF IInv, PlaceInv
<1>2. CASE UNCHANGED <<kind, result>>
  BY <1>1, <1>2
<1>3. ASSUME NEW k \in {"cmdlist", "present"}, Push(k)
      PROVE  result' \in Seq(Results) /\ Len(result') = Len(kind')
  BY <1>3, PushTypes
<1>4. CASE SubmitStatus
  <2>1. result' = [result EXCEPT ![Head(submitQueue)] = outcome] /\ kind' = kind
    BY <1>4 DEF SubmitStatus
  <2>2. outcome \in Results
    BY DEF IInv, TypeOK
  <2>3. Head(submitQueue) \in 1 .. Len(result)
    BY <1>1, <1>4, SubmitFront DEF SubmitStatus, Queued
  <2> QED
    BY <1>1, <2>1, <2>2, <2>3, ExceptSeq
<1>5. CASE ThreadStep
  BY <1>2, <1>4, <1>5 DEF ThreadStep, SubmitTake, SubmitExit, SubmitCheck, SubmitToGpu,
     SubmitForward, SubmitDrop, SubmitFail, FinishTake, FinishExit, FinishFence, FinishLost,
     FinishFail, Finish, FinishNotify, FinishPop, FinishRecycle, GpuComplete, GpuLose, queueVars
<1> QED
  BY <1>2, <1>3, <1>5, StepCases DEF Quiet, Stopping, queueVars

LEMMA CallTypeStep ==
  ASSUME IInv, [Next]_vars
  PROVE  CallTypes'
<1>0. CallTypes
  BY DEF IInv, TypeOK, CallTypes
<1>1. Queued \subseteq Queued'
  <2>1. CASE kind' = kind
    BY <2>1 DEF Queued
  <2>2. ASSUME NEW k \in {"cmdlist", "present"}, Push(k) PROVE Queued \subseteq Queued'
    BY <2>2, PushTypes
  <2>3. CASE ThreadStep
    BY <2>1, <2>3 DEF ThreadStep, SubmitTake, SubmitExit, SubmitCheck, SubmitToGpu, SubmitStatus,
       SubmitForward, SubmitDrop, SubmitFail, FinishTake, FinishExit, FinishFence, FinishLost,
       FinishFail, Finish, FinishNotify, FinishPop, FinishRecycle, GpuComplete, GpuLose, queueVars
  <2> QED
    BY <2>1, <2>2, <2>3, StepCases DEF Quiet, Stopping, queueVars
<1>2. Queued \cup {0} \subseteq Queued' \cup {0} /\ [Callers -> Queued \cup {0}] \subseteq [Callers -> Queued' \cup {0}]
  BY <1>1
<1>3. CASE /\ UNCHANGED <<callVars, queueOwner>>
           /\ asleep' \subseteq asleep \cup Callers \cup {"submit thread", "finish thread"}
  BY <1>0, <1>2, <1>3 DEF CallTypes, callVars
<1>4. ASSUME NEW c \in Callers, NEW l \in CallPcs, pc' = [pc EXCEPT ![c] = l],
             NEW e \in Queued \cup {0}, arg' = arg \/ arg' = [arg EXCEPT ![c] = e],
             closing' \in BOOLEAN, queueOwner' \in Callers \cup {"none"},
             asleep' \subseteq asleep \cup {c}
      PROVE  CallTypes'
  <2>1. pc' \in [Callers -> CallPcs]
    BY <1>0, <1>4 DEF CallTypes
  <2>2. arg' \in [Callers -> Queued \cup {0}]
    BY <1>0, <1>4 DEF CallTypes
  <2> QED
    BY <1>0, <1>2, <1>4, <2>1, <2>2 DEF CallTypes
<1>5. Len(kind) \in Queued \cup {0} /\ 1 .. Len(kind) \subseteq Queued
  <2>1. kind \in Seq({"cmdlist", "present"})
    BY DEF IInv, TypeOK
  <2> QED
    BY <2>1 DEF Queued
<1>6. closing \in BOOLEAN /\ queueOwner \in Callers \cup {"none"}
  BY <1>0 DEF CallTypes
<1>7. ASSUME NEW c \in Callers, NEW op \in {"submit", "poll status", "poll resource", "synchronize", "idle submit"},
             Call(c, op)
      PROVE  CallTypes'
  <2>1. PICK e \in Queued \cup {0} : arg' = [arg EXCEPT ![c] = e]
    BY <1>5, <1>7 DEF Call
  <2>2. op \in CallPcs
    BY DEF CallPcs
  <2>3. pc' = [pc EXCEPT ![c] = op] /\ closing' = closing /\ queueOwner' = queueOwner /\ asleep' = asleep
    BY <1>7 DEF Call
  <2> QED
    BY <1>4, <1>6, <2>1, <2>2, <2>3
<1>8. ASSUME NEW c \in Callers, Close(c)
      PROVE  CallTypes'
  <2>1. /\ pc' = [pc EXCEPT ![c] = "idle submit"] /\ arg' = [arg EXCEPT ![c] = Len(kind)]
        /\ closing' \in BOOLEAN /\ queueOwner' = queueOwner /\ asleep' = asleep
    BY <1>8 DEF Close
  <2>2. "idle submit" \in CallPcs
    BY DEF CallPcs
  <2> QED
    BY <1>4, <1>5, <1>6, <2>1, <2>2
<1>9. ASSUME NEW c \in Callers, CallStep(c)
      PROVE  CallTypes'
  <2>1. CASE SubmitFull(c) \/ StatusNotReady(c) \/ ResourceBusy(c) \/ SynchronizeBusy(c) \/ IdleBusy(c)
    BY <1>3, <2>1 DEF SubmitFull, StatusNotReady, ResourceBusy, SynchronizeBusy, IdleBusy, FallAsleep
  <2>2. ASSUME NEW l \in CallPcs, pc' = [pc EXCEPT ![c] = l],
               arg' = arg \/ arg' = [arg EXCEPT ![c] = 0], closing' = closing,
               queueOwner' \in {queueOwner, c, "none"}, asleep' \subseteq asleep \cup {c}
        PROVE  CallTypes'
    BY <1>4, <1>6, <2>2
  <2>3. CASE Submit(c)
    BY <2>2, <2>3 DEF Submit, Push, NotifyAll, Goto, CallPcs
  <2>4. CASE \/ PollStatus(c) \/ StatusReady(c) \/ PollResource(c) \/ ResourceFree(c)
             \/ Synchronize(c) \/ IdleFinished(c) \/ Join(c)
    BY <2>2, <2>4 DEF PollStatus, StatusReady, PollResource, ResourceFree, Synchronize,
       IdleFinished, Join, Move, Goto, CallPcs
  <2>5. CASE LockDeviceQueue(c) \/ UnlockDeviceQueue(c) \/ IdleGpu(c)
    BY <2>2, <2>5 DEF LockDeviceQueue, UnlockDeviceQueue, IdleGpu, Goto, CallPcs
  <2>6. CASE IdleSubmitted(c)
    BY <2>2, <2>6 DEF IdleSubmitted, Goto, CallPcs
  <2>7. CASE Stop(c)
    BY <2>2, <2>7 DEF Stop, Goto, CallPcs
  <2> QED
    BY <1>9, <2>1, <2>3, <2>4, <2>5, <2>6, <2>7 DEF CallStep
<1>10. ASSUME NEW c \in Callers, Present(c)
       PROVE  CallTypes'
  BY <1>3, <1>10 DEF Present, Push, NotifyAll, callVars
<1>11. CASE SubmitThread
  BY <1>3, <1>11 DEF SubmitThread, SubmitTake, SubmitWait, SubmitExit, SubmitCheck, SubmitToGpu,
     SubmitStatus, SubmitForward, SubmitDrop, SubmitFail, FallAsleep, NotifyAll
<1>12. CASE FinishThread
  BY <1>3, <1>12 DEF FinishThread, FinishTake, FinishWait, FinishExit, FinishFence, FinishLost,
     FinishFail, Finish, FinishNotify, FinishPop, FinishRecycle, FallAsleep, NotifyAll
<1>13. CASE GpuComplete \/ GpuLose \/ \E w \in Callers \cup {"submit thread", "finish thread"} : SpuriousWake(w)
  BY <1>3, <1>13 DEF GpuComplete, GpuLose, SpuriousWake
<1>14. CASE UNCHANGED vars
  BY <1>3, <1>14 DEF vars
<1> QED
  BY <1>7, <1>8, <1>9, <1>10, <1>11, <1>12, <1>13, <1>14 DEF Next

\* A step that neither begins nor ends a call of submit(), nor queues anything.
LEMMA SubmittersKept ==
  ASSUME IInv, NEW c \in Callers, pc[c] # "submit", NEW l, l # "submit",
         pc' = [pc EXCEPT ![c] = l], kind' = kind
  PROVE  BoundInv'
<1>1. Submitters' = Submitters
  BY DEF Submitters, IInv, TypeOK
<1> QED
  BY <1>1 DEF IInv, BoundInv

LEMMA BoundStep ==
  ASSUME IInv, [Next]_vars
  PROVE  BoundInv'
<1>0. /\ IsFiniteSet(Submitters) /\ Cardinality(Submitters) \in Nat /\ MaxEntries \in Nat
      /\ Len(kind) \in Nat /\ Len(kind) + Cardinality(Submitters) <= MaxEntries
  <2>1. Submitters \subseteq Callers
    BY DEF Submitters
  <2>2. IsFiniteSet(Submitters)
    BY <2>1, QueueAssumption, FS_Subset
  <2>3. kind \in Seq({"cmdlist", "present"})
    BY DEF IInv, TypeOK
  <2>4. MaxEntries \in Nat
    BY QueueAssumption
  <2> QED
    BY <2>2, <2>3, <2>4, FS_CardinalityType DEF IInv, BoundInv
<1>1. CASE UNCHANGED <<kind, pc>>
  BY <1>1 DEF IInv, BoundInv, Submitters
<1>2. ASSUME NEW c \in Callers, Call(c, "submit")
      PROVE  BoundInv'
  <2>1. Submitters' = Submitters \cup {c} /\ c \notin Submitters
    BY <1>2 DEF Call, MayCall, Submitters, IInv, TypeOK
  <2>2. Cardinality(Submitters') = Cardinality(Submitters) + 1
    BY <1>0, <2>1, FS_AddElement
  <2>3. Len(kind) + Cardinality(Submitters) < MaxEntries /\ kind' = kind
    BY <1>2 DEF Call, BelowBound, Submitters, queueVars
  <2> QED
    BY <1>0, <2>2, <2>3 DEF BoundInv
<1>3. ASSUME NEW c \in Callers, Submit(c)
      PROVE  BoundInv'
  <2>1. Submitters' = Submitters \ {c} /\ c \in Submitters
    BY <1>3 DEF Submit, Goto, Submitters, IInv, TypeOK
  <2>2. Cardinality(Submitters') = Cardinality(Submitters) - 1
    BY <1>0, <2>1, FS_RemoveElement
  <2>3. Len(kind') = Len(kind) + 1
    BY <1>3, PushTypes DEF Submit
  <2> QED
    BY <1>0, <2>2, <2>3 DEF BoundInv
<1>4. ASSUME NEW c \in Callers, Present(c)
      PROVE  BoundInv'
  <2>1. Submitters' = Submitters
    BY <1>4 DEF Present, Submitters
  <2>2. Len(kind) + Cardinality(Submitters) < MaxEntries
    BY <1>4 DEF Present, BelowBound, Submitters
  <2>3. Len(kind') = Len(kind) + 1
    BY <1>4, PushTypes DEF Present
  <2> QED
    BY <1>0, <2>1, <2>2, <2>3 DEF BoundInv
<1>5. ASSUME NEW c \in Callers, NEW op, op # "submit", Call(c, op)
      PROVE  BoundInv'
  <2>1. /\ pc[c] # "submit" /\ pc' = [pc EXCEPT ![c] = op] /\ kind' = kind
    BY <1>5 DEF Call, MayCall, queueVars
  <2> QED
    BY <1>5, <2>1, SubmittersKept
<1>6. ASSUME NEW c \in Callers, Close(c)
      PROVE  BoundInv'
  <2>1. /\ pc[c] # "submit" /\ pc' = [pc EXCEPT ![c] = "idle submit"] /\ kind' = kind
    BY <1>6 DEF Close, MayCall, queueVars
  <2> QED
    BY <2>1, SubmittersKept
<1>7. ASSUME NEW c \in Callers, CallStep(c), ~Submit(c)
      PROVE  BoundInv'
  <2>1. \/ UNCHANGED <<kind, pc>>
        \/ pc[c] # "submit" /\ kind' = kind /\ \E l : l # "submit" /\ pc' = [pc EXCEPT ![c] = l]
    BY <1>7 DEF CallStep, SubmitFull, FallAsleep, Move, Goto, PollStatus, StatusReady, StatusNotReady,
       PollResource, ResourceFree, ResourceBusy, Synchronize, SynchronizeBusy,
       LockDeviceQueue, UnlockDeviceQueue, IdleSubmitted, IdleFinished, IdleBusy, IdleGpu,
       Stop, Join, queueVars, callVars
  <2> QED
    BY <1>1, <2>1, SubmittersKept
<1>8. CASE SubmitThread \/ FinishThread \/ GpuComplete \/ GpuLose
  BY <1>1, <1>8 DEF SubmitThread, FinishThread, SubmitTake, SubmitWait, SubmitExit, SubmitCheck,
     SubmitToGpu, SubmitStatus, SubmitForward, SubmitDrop, SubmitFail, FinishTake, FinishWait,
     FinishExit, FinishFence, FinishLost, FinishFail, Finish, FinishNotify, FinishPop,
     FinishRecycle, GpuComplete, GpuLose, FallAsleep, queueVars, callVars
<1>9. CASE UNCHANGED vars \/ \E w \in Callers \cup {"submit thread", "finish thread"} : SpuriousWake(w)
  BY <1>1, <1>9 DEF vars, SpuriousWake, queueVars, callVars
<1> QED
  BY <1>2, <1>3, <1>4, <1>5, <1>6, <1>7, <1>8, <1>9 DEF Next

LEMMA QueueTypeStep ==
  ASSUME IInv, [Next]_vars
  PROVE  QueueTypes'
<1>0. QueueTypes
  BY DEF IInv, TypeOK, QueueTypes
<1>1. result' \in [Queued' -> Results]
  BY ResultStep DEF Queued
<1>2. ASSUME UNCHANGED <<kind, submitQueue, finishQueue, retired>>,
             \/ Quiet \/ Stopping
             \/ SubmitTake \/ SubmitExit \/ SubmitCheck \/ SubmitToGpu \/ SubmitStatus \/ SubmitFail
             \/ FinishTake \/ FinishExit \/ FinishFence \/ FinishLost \/ FinishFail
             \/ FinishNotify \/ FinishRecycle \/ GpuComplete \/ GpuLose
      PROVE  QueueTypes'
  <2>1. Queued' = Queued /\ CmdLists' = CmdLists
    BY <1>2 DEF Queued, CmdLists
  <2>2. kind' \in Seq({"cmdlist", "present"}) /\ Len(kind') <= MaxEntries
    BY <1>0, <1>2 DEF QueueTypes
  <2>3. submitQueue' \in Seq(Queued') /\ finishQueue' \in Seq(Queued') /\ retired' \in Seq(Queued')
    BY <1>0, <1>2, <2>1 DEF QueueTypes
  <2>4. CASE Quiet \/ Stopping
    BY <1>0, <1>1, <2>1, <2>2, <2>3, <2>4 DEF QueueTypes, Quiet, Stopping, queueVars, gpuVars, submitVars, finishVars
  <2>5. CASE SubmitTake \/ SubmitExit \/ SubmitCheck \/ SubmitStatus \/ SubmitFail
    BY <1>0, <1>1, <2>1, <2>2, <2>3, <2>5 DEF QueueTypes, SubmitTake, SubmitExit, SubmitCheck,
       SubmitStatus, SubmitFail, queueVars, gpuVars, finishVars, SubmitPcs, Results
  <2>6. CASE SubmitToGpu
    <3>1. Head(submitQueue) \in Queued
      BY <2>6, SubmitFront DEF SubmitToGpu
    <3>2. onGpu' \subseteq CmdLists
      BY <1>0, <2>6, <3>1 DEF QueueTypes, SubmitToGpu, CmdLists
    <3>3. outcome' \in Results \ {"not ready"} /\ submitPc' \in SubmitPcs
      BY <2>6, QueueAssumption DEF SubmitToGpu, Results, SubmitPcs
    <3> QED
      BY <1>0, <1>1, <2>1, <2>2, <2>3, <2>6, <3>2, <3>3 DEF QueueTypes, SubmitToGpu, queueVars, finishVars
  <2>7. CASE FinishTake
    <3>1. entry' \in Queued
      BY <2>7, <1>0, HeadTailProperties DEF FinishTake, QueueTypes
    <3> QED
      BY <1>0, <1>1, <2>1, <2>2, <2>3, <2>7, <3>1 DEF QueueTypes, FinishTake, queueVars, gpuVars, submitVars, FinishPcs
  <2>8. CASE FinishExit \/ FinishFence \/ FinishLost \/ FinishFail
    BY <1>0, <1>1, <2>1, <2>2, <2>3, <2>8 DEF QueueTypes, FinishExit, FinishFence, FinishLost,
       FinishFail, Finish, queueVars, gpuVars, submitVars, FinishPcs, Results
  <2>9. CASE FinishNotify \/ FinishRecycle \/ GpuComplete \/ GpuLose
    <3>1. finishPc = "recycle" => entry \in CmdLists
      BY DEF IInv, ThreadInv
    <3> QED
      BY <1>0, <1>1, <2>1, <2>2, <2>3, <2>9, <3>1 DEF QueueTypes, FinishNotify, FinishRecycle,
         GpuComplete, GpuLose, queueVars, submitVars, finishVars, FinishPcs
  <2> QED
    BY <1>2, <2>4, <2>5, <2>6, <2>7, <2>8, <2>9
<1>3. ASSUME NEW k \in {"cmdlist", "present"}, Push(k)
      PROVE  QueueTypes'
  <2>0. /\ kind' \in Seq({"cmdlist", "present"}) /\ Len(kind') = Len(kind) + 1 /\ Len(kind) \in Nat
        /\ \A e \in Queued : kind'[e] = kind[e]
        /\ Queued' = Queued \cup {Len(kind) + 1}
        /\ submitQueue' \in Seq(Queued') /\ finishQueue' \in Seq(Queued') /\ retired' \in Seq(Queued')
    BY <1>3, PushTypes
  <2>1. Len(kind') <= MaxEntries
    <3>1. Submitters' \subseteq Callers
      BY DEF Submitters
    <3>2. Cardinality(Submitters') \in Nat
      BY <3>1, QueueAssumption, FS_Subset, FS_CardinalityType
    <3>3. Len(kind') + Cardinality(Submitters') <= MaxEntries
      BY BoundStep DEF BoundInv
    <3>4. MaxEntries \in Nat
      BY QueueAssumption
    <3> QED
      BY <2>0, <3>2, <3>3, <3>4
  <2>2. CmdLists \subseteq CmdLists'
    BY <2>0 DEF CmdLists
  <2>3. onGpu' \subseteq CmdLists' /\ recycled' \subseteq CmdLists' /\ inUse' \subseteq Queued'
    BY <1>0, <1>3, <2>0, <2>2 DEF QueueTypes, Push
  <2>4. UNCHANGED <<lastError, outcome, stopped, mutex, gpuLost, submitPc, finishPc, entry>>
    BY <1>3 DEF Push, submitVars, finishVars
  <2>5. entry' \in Queued' \cup {0}
    BY <1>0, <2>0, <2>4 DEF QueueTypes
  <2>6. /\ lastError' \in Results \ {"not ready"} /\ outcome' \in Results \ {"not ready"}
        /\ stopped' \in BOOLEAN /\ mutex' \in BOOLEAN /\ gpuLost' \in BOOLEAN
        /\ submitPc' \in SubmitPcs /\ finishPc' \in FinishPcs
    BY <1>0, <2>4 DEF QueueTypes
  <2> QED
    BY <1>1, <2>0, <2>1, <2>3, <2>5, <2>6 DEF QueueTypes
<1>4. CASE SubmitForward
  <2>0. kind' = kind /\ retired' = retired /\ finishQueue' = Append(finishQueue, Head(submitQueue))
    BY <1>4 DEF SubmitForward, gpuVars
  <2>1. kind' = kind /\ retired' = retired /\ Queued' = Queued /\ CmdLists' = CmdLists
    BY <2>0 DEF Queued, CmdLists
  <2>2. submitQueue # <<>> /\ Head(submitQueue) \in Queued
    BY <1>4, SubmitFront DEF SubmitForward
  <2>3. submitQueue' \in Seq(Queued)
    BY <1>4, <2>2, SubmitTail DEF SubmitForward
  <2>4. finishQueue' \in Seq(Queued)
    <3>1. finishQueue \in Seq(Queued)
      BY <1>0 DEF QueueTypes
    <3> QED
      BY <2>0, <2>2, <3>1, AppendFacts
  <2>5. retired' \in Seq(Queued) /\ kind' \in Seq({"cmdlist", "present"}) /\ Len(kind') <= MaxEntries
    BY <1>0, <2>1 DEF QueueTypes
  <2> QED
    BY <1>0, <1>1, <1>4, <2>1, <2>3, <2>4, <2>5 DEF QueueTypes, SubmitForward, gpuVars, finishVars,
       SubmitPcs, Results
<1>5. CASE SubmitDrop
  <2>0. kind' = kind /\ finishQueue' = finishQueue /\ retired' = Append(retired, Head(submitQueue))
    BY <1>5 DEF SubmitDrop
  <2>1. kind' = kind /\ finishQueue' = finishQueue /\ Queued' = Queued /\ CmdLists' = CmdLists
    BY <2>0 DEF Queued, CmdLists
  <2>2. submitQueue # <<>> /\ Head(submitQueue) \in Queued
    BY <1>5, SubmitFront DEF SubmitDrop
  <2>3. submitQueue' \in Seq(Queued)
    BY <1>5, <2>2, SubmitTail DEF SubmitDrop
  <2>4. retired' \in Seq(Queued)
    <3>1. retired \in Seq(Queued)
      BY <1>0 DEF QueueTypes
    <3> QED
      BY <2>0, <2>2, <3>1, AppendFacts
  <2>5. finishQueue' \in Seq(Queued) /\ kind' \in Seq({"cmdlist", "present"}) /\ Len(kind') <= MaxEntries
    BY <1>0, <2>1 DEF QueueTypes
  <2> QED
    BY <1>0, <1>1, <1>5, <2>1, <2>3, <2>4, <2>5 DEF QueueTypes, SubmitDrop, finishVars,
       SubmitPcs, Results
<1>6. CASE FinishPop
  <2>0. kind' = kind /\ submitQueue' = submitQueue /\ retired' = Append(retired, entry)
    BY <1>6 DEF FinishPop
  <2>1. kind' = kind /\ submitQueue' = submitQueue /\ Queued' = Queued /\ CmdLists' = CmdLists
    BY <2>0 DEF Queued, CmdLists
  <2>2. finishQueue # <<>> /\ entry = Head(finishQueue)
    BY <1>6 DEF FinishPop, IInv, ThreadInv
  <2>3. finishQueue' \in Seq(Queued) /\ entry \in Queued
    BY <1>6, <2>2, FinishTail DEF FinishPop
  <2>4. retired' \in Seq(Queued)
    <3>1. retired \in Seq(Queued)
      BY <1>0 DEF QueueTypes
    <3> QED
      BY <2>0, <2>3, <3>1, AppendFacts
  <2>5. submitQueue' \in Seq(Queued) /\ kind' \in Seq({"cmdlist", "present"}) /\ Len(kind') <= MaxEntries
    BY <1>0, <2>1 DEF QueueTypes
  <2> QED
    BY <1>0, <1>1, <1>6, <2>1, <2>3, <2>4, <2>5 DEF QueueTypes, FinishPop, submitVars,
       FinishPcs, Results
<1>7. CASE ThreadStep
  BY <1>2, <1>4, <1>5, <1>6, <1>7 DEF ThreadStep, SubmitTake, SubmitExit, SubmitCheck, SubmitToGpu,
     SubmitStatus, SubmitFail, FinishTake, FinishExit, FinishFence, FinishLost, FinishFail, Finish,
     FinishNotify, FinishRecycle, GpuComplete, GpuLose, queueVars, gpuVars
<1>8. CASE Quiet \/ Stopping
  BY <1>2, <1>8 DEF Quiet, Stopping, queueVars, gpuVars
<1> QED
  BY <1>3, <1>7, <1>8, StepCases

LEMMA PlaceStep ==
  ASSUME IInv, [Next]_vars
  PROVE  PlaceInv'
<1>0. /\ kind \in Seq({"cmdlist", "present"}) /\ submitQueue \in Seq(Queued)
      /\ finishQueue \in Seq(Queued) /\ retired \in Seq(Queued)
  BY DEF IInv, TypeOK
<1>a. /\ Len(kind) \in Nat /\ Len(submitQueue) \in Nat /\ Len(finishQueue) \in Nat
      /\ Len(retired) \in Nat /\ Submitted \in Nat
      /\ \A i \in 1 .. Len(finishQueue) : finishQueue[i] \in Nat
      /\ \A i \in 1 .. Len(retired) : retired[i] \in Nat
  BY <1>0 DEF IInv, PlaceInv, Queued
<1>b. PlaceInv
  BY DEF IInv
<1>c. Submitted = Len(kind) - Len(submitQueue)
  BY DEF Submitted
<1>1. result' \in Seq(Results) /\ Len(result') = Len(kind')
  BY ResultStep
<1>2. CASE UNCHANGED <<kind, submitQueue, finishQueue, retired>>
  BY <1>1, <1>2 DEF IInv, PlaceInv, Submitted
<1>3. ASSUME NEW k \in {"cmdlist", "present"}, Push(k)
      PROVE  PlaceInv'
  <2>1. /\ Len(kind') = Len(kind) + 1 /\ Len(submitQueue') = Len(submitQueue) + 1
        /\ \A i \in 1 .. Len(submitQueue) : submitQueue'[i] = submitQueue[i]
        /\ submitQueue'[Len(submitQueue) + 1] = Len(kind) + 1
    BY <1>3, PushTypes
  <2>2. finishQueue' = finishQueue /\ retired' = retired
    BY <1>3 DEF Push
  <2>3. Submitted' = Submitted
    BY <1>a, <2>1 DEF Submitted
  <2>4. \A i \in 1 .. Len(submitQueue') : submitQueue'[i] = Submitted + i
    BY <1>a, <1>b, <1>c, <2>1 DEF PlaceInv
  <2> QED
    BY <1>1, <1>b, <2>2, <2>3, <2>4 DEF PlaceInv
<1>4. CASE SubmitForward
  <2> DEFINE x == Head(submitQueue)
  <2>1. kind' = kind /\ retired' = retired /\ finishQueue' = Append(finishQueue, x)
    BY <1>4 DEF SubmitForward, gpuVars
  <2>2. submitQueue # <<>> /\ submitQueue' = Tail(submitQueue)
    BY <1>4, SubmitFront DEF SubmitForward
  <2>3. /\ x \in Queued /\ x = Submitted + 1
        /\ Len(submitQueue') = Len(submitQueue) - 1
        /\ \A i \in 1 .. Len(submitQueue') : submitQueue'[i] = submitQueue[i + 1]
    BY <2>2, SubmitTail
  <2>4. Submitted' = Submitted + 1
    BY <1>a, <2>1, <2>3 DEF Submitted
  <2>5. \A i \in 1 .. Len(submitQueue') : submitQueue'[i] = Submitted' + i
    BY <1>a, <1>b, <2>3, <2>4 DEF PlaceInv
  <2>6. /\ Len(finishQueue') = Len(finishQueue) + 1
        /\ \A i \in 1 .. Len(finishQueue) : finishQueue'[i] = finishQueue[i]
        /\ finishQueue'[Len(finishQueue) + 1] = x
    BY <1>0, <2>1, <2>3, AppendFacts
  <2>7. Elems(finishQueue') = Elems(finishQueue) \cup {x}
    BY <1>0, <2>1, <2>3, ElemsAppend
  <2> HIDE DEF x
  <2>8. \A i \in 1 .. Len(finishQueue') : finishQueue'[i] <= Submitted'
    BY <1>a, <1>b, <2>3, <2>4, <2>6 DEF PlaceInv
  <2>9. \A i, j \in 1 .. Len(finishQueue') : i < j => finishQueue'[i] < finishQueue'[j]
    <3>1. \A i \in 1 .. Len(finishQueue) : finishQueue[i] < x
      BY <1>a, <1>b, <2>3 DEF PlaceInv
    <3>2. \A i, j \in 1 .. Len(finishQueue) : i < j => finishQueue[i] < finishQueue[j]
      BY <1>b DEF PlaceInv
    <3> QED
      BY <1>a, <2>6, <3>1, <3>2
  <2>10. \A i \in 1 .. Len(retired') :
           /\ retired'[i] <= Submitted'
           /\ \A j \in 1 .. Len(finishQueue') : retired'[i] # finishQueue'[j]
           /\ \A j \in 1 .. Len(retired') : i # j => retired'[i] # retired'[j]
    BY <1>a, <1>b, <2>1, <2>3, <2>4, <2>6 DEF PlaceInv
  <2>11. 1 .. Submitted' \subseteq Elems(finishQueue') \cup Elems(retired')
    <3>1. 1 .. Submitted' = (1 .. Submitted) \cup {x}
      BY <1>a, <2>3, <2>4
    <3>2. 1 .. Submitted \subseteq Elems(finishQueue) \cup Elems(retired)
      BY <1>b DEF PlaceInv
    <3> QED
      BY <2>1, <2>7, <3>1, <3>2
  <2>12. Submitted' \in Nat
    BY <1>a, <2>4
  <2> QED
    BY <1>1, <2>5, <2>8, <2>9, <2>10, <2>11, <2>12 DEF PlaceInv
<1>5. CASE SubmitDrop
  <2> DEFINE x == Head(submitQueue)
  <2>1. kind' = kind /\ finishQueue' = finishQueue /\ retired' = Append(retired, x)
    BY <1>5 DEF SubmitDrop
  <2>2. submitQueue # <<>> /\ submitQueue' = Tail(submitQueue)
    BY <1>5, SubmitFront DEF SubmitDrop
  <2>3. /\ x \in Queued /\ x = Submitted + 1
        /\ Len(submitQueue') = Len(submitQueue) - 1
        /\ \A i \in 1 .. Len(submitQueue') : submitQueue'[i] = submitQueue[i + 1]
    BY <2>2, SubmitTail
  <2>4. Submitted' = Submitted + 1
    BY <1>a, <2>1, <2>3 DEF Submitted
  <2>5. \A i \in 1 .. Len(submitQueue') : submitQueue'[i] = Submitted' + i
    BY <1>a, <1>b, <2>3, <2>4 DEF PlaceInv
  <2>6. /\ Len(retired') = Len(retired) + 1
        /\ \A i \in 1 .. Len(retired) : retired'[i] = retired[i]
        /\ retired'[Len(retired) + 1] = x
    BY <1>0, <2>1, <2>3, AppendFacts
  <2>7. Elems(retired') = Elems(retired) \cup {x}
    BY <1>0, <2>1, <2>3, ElemsAppend
  <2> HIDE DEF x
  <2>8. \A i \in 1 .. Len(finishQueue') : finishQueue'[i] <= Submitted'
    BY <1>a, <1>b, <2>1, <2>4 DEF PlaceInv
  <2>9. \A i, j \in 1 .. Len(finishQueue') : i < j => finishQueue'[i] < finishQueue'[j]
    BY <1>b, <2>1 DEF PlaceInv
  <2>10. \A i \in 1 .. Len(retired') :
           /\ retired'[i] <= Submitted'
           /\ \A j \in 1 .. Len(finishQueue') : retired'[i] # finishQueue'[j]
           /\ \A j \in 1 .. Len(retired') : i # j => retired'[i] # retired'[j]
    BY <1>a, <1>b, <2>1, <2>3, <2>4, <2>6 DEF PlaceInv
  <2>11. 1 .. Submitted' \subseteq Elems(finishQueue') \cup Elems(retired')
    <3>1. 1 .. Submitted' = (1 .. Submitted) \cup {x}
      BY <1>a, <2>3, <2>4
    <3>2. 1 .. Submitted \subseteq Elems(finishQueue) \cup Elems(retired)
      BY <1>b DEF PlaceInv
    <3> QED
      BY <2>1, <2>7, <3>1, <3>2
  <2>12. Submitted' \in Nat
    BY <1>a, <2>4
  <2> QED
    BY <1>1, <2>5, <2>8, <2>9, <2>10, <2>11, <2>12 DEF PlaceInv
<1>6. CASE FinishPop
  <2>1. /\ kind' = kind /\ submitQueue' = submitQueue /\ retired' = Append(retired, entry)
        /\ finishQueue' = Tail(finishQueue)
    BY <1>6 DEF FinishPop
  <2>2. finishQueue # <<>> /\ entry = Head(finishQueue)
    BY <1>6 DEF FinishPop, IInv, ThreadInv
  <2>3. /\ Len(finishQueue) # 0 /\ Len(finishQueue') = Len(finishQueue) - 1
        /\ \A i \in 1 .. Len(finishQueue') : finishQueue'[i] = finishQueue[i + 1]
        /\ entry = finishQueue[1] /\ entry \in Queued
        /\ Elems(finishQueue) = {entry} \cup Elems(finishQueue')
    BY <2>1, <2>2, FinishTail
  <2>4. Submitted' = Submitted
    BY <2>1 DEF Submitted
  <2>6. /\ Len(retired') = Len(retired) + 1
        /\ \A i \in 1 .. Len(retired) : retired'[i] = retired[i]
        /\ retired'[Len(retired) + 1] = entry
    BY <1>0, <2>1, <2>3, AppendFacts
  <2>7. Elems(retired') = Elems(retired) \cup {entry}
    BY <1>0, <2>1, <2>3, ElemsAppend
  <2>8. \A i \in 1 .. Len(finishQueue') : finishQueue'[i] <= Submitted /\ finishQueue'[i] > entry
    <3>1. \A i \in 1 .. Len(finishQueue') : 1 \in 1 .. Len(finishQueue) /\ i + 1 \in 1 .. Len(finishQueue)
      BY <1>a, <2>3
    <3>2. \A i \in 1 .. Len(finishQueue') : finishQueue[i + 1] <= Submitted /\ finishQueue[1] < finishQueue[i + 1]
      BY <1>b, <3>1 DEF PlaceInv
    <3> QED
      BY <1>a, <2>3, <3>1, <3>2
  <2>9. \A i, j \in 1 .. Len(finishQueue') : i < j => finishQueue'[i] < finishQueue'[j]
    BY <1>a, <1>b, <2>3 DEF PlaceInv
  <2>10. \A i \in 1 .. Len(retired') :
           /\ retired'[i] <= Submitted
           /\ \A j \in 1 .. Len(finishQueue') : retired'[i] # finishQueue'[j]
           /\ \A j \in 1 .. Len(retired') : i # j => retired'[i] # retired'[j]
    <3>1. \A i \in 1 .. Len(retired) : retired[i] # entry
      BY <1>a, <1>b, <2>3 DEF PlaceInv
    <3>2. entry <= Submitted /\ entry \in Nat
      BY <1>a, <1>b, <2>3 DEF PlaceInv
    <3>3. \A i \in 1 .. Len(retired) : \A j \in 1 .. Len(finishQueue') : retired[i] # finishQueue'[j]
      BY <1>a, <1>b, <2>3 DEF PlaceInv
    <3>4. \A j \in 1 .. Len(finishQueue') : entry # finishQueue'[j]
      BY <1>a, <2>8, <3>2
    <3> QED
      BY <1>a, <1>b, <2>6, <3>1, <3>2, <3>3, <3>4 DEF PlaceInv
  <2>11. 1 .. Submitted \subseteq Elems(finishQueue') \cup Elems(retired')
    BY <1>b, <2>3, <2>7 DEF PlaceInv
  <2>12. \A i \in 1 .. Len(submitQueue') : submitQueue'[i] = Submitted + i
    BY <1>b, <2>1 DEF PlaceInv
  <2> QED
    BY <1>1, <1>a, <2>4, <2>8, <2>9, <2>10, <2>11, <2>12 DEF PlaceInv
<1>7. CASE ThreadStep
  BY <1>2, <1>4, <1>5, <1>6, <1>7 DEF ThreadStep, SubmitTake, SubmitExit, SubmitCheck, SubmitToGpu,
     SubmitStatus, SubmitFail, FinishTake, FinishExit, FinishFence, FinishLost, FinishFail, Finish,
     FinishNotify, FinishRecycle, GpuComplete, GpuLose, queueVars, gpuVars
<1> QED
  BY <1>2, <1>3, <1>7, StepCases DEF Quiet, Stopping, queueVars, gpuVars

\* The front of m_finishQueue, which finishCmdLists works on.
LEMMA FinishFront ==
  ASSUME IInv, finishPc \notin {"wait", "recycle", "exit"}
  PROVE  /\ finishQueue # <<>> /\ entry = Head(finishQueue) /\ entry = finishQueue[1]
         /\ entry \in Queued /\ entry <= Submitted /\ Submitted \in Nat
<1>1. finishQueue # <<>> /\ entry = Head(finishQueue) /\ finishQueue \in Seq(Queued)
  BY DEF IInv, ThreadInv, TypeOK
<1>2. Len(finishQueue) \in Nat \ {0} /\ entry = finishQueue[1] /\ entry \in Queued
  BY <1>1
<1>3. entry <= Submitted /\ Submitted \in Nat
  BY <1>2 DEF IInv, PlaceInv
<1> QED
  BY <1>1, <1>2, <1>3

LEMMA ThreadStepInv ==
  ASSUME IInv, [Next]_vars
  PROVE  ThreadInv'
<1>0. ThreadInv
  BY DEF IInv
<1>1. CASE Quiet \/ Stopping
  BY <1>0, <1>1 DEF Quiet, Stopping, ThreadInv, queueVars, gpuVars, submitVars, finishVars, CmdLists, Queued
<1>2. ASSUME NEW k \in {"cmdlist", "present"}, Push(k)
      PROVE  ThreadInv'
  <2>1. /\ \A e \in Queued : kind'[e] = kind[e]
        /\ Queued' = Queued \cup {Len(kind) + 1} /\ Len(kind) + 1 \notin Queued
        /\ Len(submitQueue') = Len(submitQueue) + 1 /\ Len(submitQueue) \in Nat
    BY <1>2, PushTypes DEF Queued
  <2>2. UNCHANGED <<submitPc, outcome, finishPc, entry, finishQueue, lastError, onGpu, gpuLost, retired>>
    BY <1>2 DEF Push, submitVars, finishVars
  <2>3. inUse' = inUse \cup {Len(kind) + 1}
    BY <1>2 DEF Push
  <2>4. submitQueue' # <<>>
    BY <2>1
  <2>5. finishPc \notin {"wait", "recycle", "exit"} => entry \in Queued
    BY FinishFront
  <2>6. CmdLists \subseteq CmdLists'
    BY <2>1 DEF CmdLists
  <2> QED
    BY <1>0, <2>1, <2>2, <2>3, <2>4, <2>5, <2>6 DEF ThreadInv
<1>3. CASE SubmitTake \/ SubmitExit \/ SubmitCheck \/ SubmitStatus \/ SubmitFail
  BY <1>0, <1>3 DEF SubmitTake, SubmitExit, SubmitCheck, SubmitStatus, SubmitFail, ThreadInv,
     queueVars, gpuVars, submitVars, finishVars, CmdLists, Queued
<1>4. CASE SubmitToGpu
  <2>1. submitQueue # <<>> /\ Head(submitQueue) = Submitted + 1
    BY <1>4, SubmitFront DEF SubmitToGpu
  <2>2. outcome' = "lost" => gpuLost
    BY <1>4, QueueAssumption DEF SubmitToGpu
  <2>3. finishPc = "notify" => entry # Head(submitQueue)
    BY <2>1, FinishFront
  <2>4. onGpu' \subseteq onGpu \cup {Head(submitQueue)}
    BY <1>4 DEF SubmitToGpu
  <2>5. UNCHANGED <<queueVars, gpuLost, inUse, retired, finishVars>>
    BY <1>4 DEF SubmitToGpu
  <2> QED
    BY <1>0, <2>1, <2>2, <2>3, <2>4, <2>5 DEF ThreadInv, queueVars, finishVars, CmdLists, Queued
<1>5. CASE SubmitForward
  <2>1. finishQueue' = Append(finishQueue, Head(submitQueue)) /\ Head(submitQueue) \in Queued
    BY <1>5, SubmitFront DEF SubmitForward
  <2>2. finishQueue \in Seq(Queued)
    BY DEF IInv, TypeOK
  <2>3. finishQueue # <<>> => finishQueue' # <<>> /\ Head(finishQueue') = Head(finishQueue)
    BY <2>1, <2>2, HeadTailAppend
  <2>4. /\ UNCHANGED <<kind, lastError, gpuVars, finishVars>>
        /\ submitPc' = "wait" /\ outcome' = "success"
    BY <1>5 DEF SubmitForward
  <2> QED
    BY <1>0, <2>3, <2>4 DEF ThreadInv, gpuVars, finishVars, CmdLists, Queued
<1>6. CASE SubmitDrop
  <2>1. retired \in Seq(Queued) /\ Head(submitQueue) \in Queued /\ retired' = Append(retired, Head(submitQueue))
    BY <1>6, SubmitFront DEF SubmitDrop, IInv, TypeOK
  <2>2. Elems(retired) \subseteq Elems(retired')
    BY <2>1, ElemsAppend
  <2>3. gpuLost
    BY <1>0, <1>6 DEF SubmitDrop, ThreadInv
  <2>4. /\ UNCHANGED <<kind, finishQueue, onGpu, gpuLost, finishVars>>
        /\ inUse' \subseteq inUse /\ submitPc' = "wait"
    BY <1>6 DEF SubmitDrop
  <2> QED
    BY <1>0, <2>2, <2>3, <2>4 DEF ThreadInv, finishVars, CmdLists, Queued
<1>7. CASE FinishTake
  <2>1. finishQueue # <<>> /\ entry' = Head(finishQueue) /\ entry' \in Queued
    BY <1>7, HeadTailProperties DEF FinishTake, IInv, TypeOK
  <2>2. kind[entry'] \in {"cmdlist", "present"}
    <3>1. kind \in Seq({"cmdlist", "present"}) /\ entry' \in 1 .. Len(kind)
      BY <2>1 DEF Queued, IInv, TypeOK
    <3> QED
      BY <3>1, ElementOfSeq
  <2>3. /\ UNCHANGED <<queueVars, gpuVars, submitVars>>
        /\ finishPc' = IF kind[entry'] = "present" THEN "present"
                       ELSE IF lastError = "lost" THEN "notify" ELSE "fence"
    BY <1>7 DEF FinishTake
  <2> QED
    BY <1>0, <2>1, <2>2, <2>3 DEF ThreadInv, queueVars, gpuVars, submitVars
<1>8. CASE FinishExit \/ FinishFence \/ FinishLost \/ FinishFail
  <2>1. CASE FinishExit
    BY <1>0, <2>1 DEF FinishExit, ThreadInv, queueVars, gpuVars, submitVars, CmdLists, Queued
  <2>2. CASE FinishFence \/ FinishLost \/ FinishFail
    BY <1>0, <2>2 DEF FinishFence, FinishLost, FinishFail, Finish, ThreadInv, gpuVars,
       submitVars, CmdLists, Queued
  <2> QED
    BY <1>8, <2>1, <2>2
<1>9. CASE FinishNotify
  BY <1>0, <1>9 DEF FinishNotify, ThreadInv, queueVars, submitVars, CmdLists, Queued
<1>10. CASE FinishPop
  <2>1. entry \in Queued
    BY <1>10, FinishFront DEF FinishPop
  <2>2. retired \in Seq(Queued) /\ retired' = Append(retired, entry)
    BY <1>10 DEF FinishPop, IInv, TypeOK
  <2>3. entry \in Elems(retired')
    BY <2>1, <2>2, ElemsAppend
  <2>4. /\ UNCHANGED <<kind, submitQueue, lastError, gpuLost, submitVars>>
        /\ finishPc' \in {"recycle", "wait"}
        /\ finishPc' = "recycle" => kind[entry] = "cmdlist" /\ entry' = entry
    BY <1>10 DEF FinishPop
  <2> QED
    BY <1>0, <2>1, <2>3, <2>4 DEF ThreadInv, submitVars, CmdLists, Queued
<1>11. CASE FinishRecycle \/ GpuComplete \/ GpuLose
  BY <1>0, <1>11 DEF FinishRecycle, GpuComplete, GpuLose, ThreadInv, queueVars, submitVars,
     finishVars, CmdLists, Queued
<1> QED
  BY <1>1, <1>2, <1>3, <1>4, <1>5, <1>6, <1>7, <1>8, <1>9, <1>10, <1>11, StepCases DEF ThreadStep

\* Whoever is still in m_submitQueue is behind whoever has left it.
LEMMA Positions ==
  ASSUME IInv
  PROVE  /\ Submitted \in Nat
         /\ \A e \in Elems(submitQueue) : e \in Queued /\ e > Submitted
         /\ \A e \in Elems(finishQueue) : e \in Queued /\ e <= Submitted /\ e \notin Elems(retired)
         /\ \A e \in Elems(retired) : e \in Queued /\ e <= Submitted
<1>1. /\ submitQueue \in Seq(Queued) /\ finishQueue \in Seq(Queued) /\ retired \in Seq(Queued)
      /\ Submitted \in Nat
  BY DEF IInv, TypeOK, PlaceInv
<1>2. ASSUME NEW e \in Elems(submitQueue) PROVE e \in Queued /\ e > Submitted
  <2>1. PICK i \in 1 .. Len(submitQueue) : e = submitQueue[i]
    BY <1>1 DEF Elems
  <2>2. submitQueue[i] = Submitted + i /\ submitQueue[i] \in Queued /\ i \in Nat \ {0}
    BY <1>1, LenProperties DEF IInv, PlaceInv
  <2> QED
    BY <1>1, <2>1, <2>2
<1>3. ASSUME NEW e \in Elems(finishQueue) PROVE e \in Queued /\ e <= Submitted /\ e \notin Elems(retired)
  <2>1. DOMAIN finishQueue = 1 .. Len(finishQueue) /\ DOMAIN retired = 1 .. Len(retired)
    BY <1>1, LenProperties
  <2>2. PICK i \in 1 .. Len(finishQueue) : e = finishQueue[i]
    BY <2>1 DEF Elems
  <2>3. finishQueue[i] <= Submitted /\ finishQueue[i] \in Queued
    BY <1>1, ElementOfSeq DEF IInv, PlaceInv
  <2>4. \A j \in 1 .. Len(retired) : retired[j] # finishQueue[i]
    BY DEF IInv, PlaceInv
  <2> QED
    BY <2>1, <2>2, <2>3, <2>4 DEF Elems
<1>4. ASSUME NEW e \in Elems(retired) PROVE e \in Queued /\ e <= Submitted
  <2>1. PICK i \in 1 .. Len(retired) : e = retired[i]
    BY <1>1, LenProperties DEF Elems
  <2>2. retired[i] <= Submitted /\ retired[i] \in Queued
    BY <1>1, ElementOfSeq DEF IInv, PlaceInv
  <2> QED
    BY <2>1, <2>2
<1> QED
  BY <1>1, <1>2, <1>3, <1>4

LEMMA UseStep ==
  ASSUME IInv, [Next]_vars
  PROVE  UseInv'
<1>0. UseInv
  BY DEF IInv
<1>a. /\ Submitted \in Nat /\ Len(kind) \in Nat /\ Queued = 1 .. Len(kind)
      /\ \A e \in Elems(retired) : e \in Queued /\ e <= Submitted
  <2>1. kind \in Seq({"cmdlist", "present"})
    BY DEF IInv, TypeOK
  <2> QED
    BY <2>1, Positions DEF Queued
<1>1. CASE UNCHANGED <<kind, submitQueue, onGpu, inUse, retired, recycled>> /\ (gpuLost => gpuLost')
  BY <1>0, <1>1 DEF UseInv, Submitted, Queued
<1>2. ASSUME NEW k \in {"cmdlist", "present"}, Push(k)
      PROVE  UseInv'
  <2>1. /\ Queued' = Queued \cup {Len(kind) + 1} /\ Len(kind') = Len(kind) + 1
        /\ Len(submitQueue') = Len(submitQueue) + 1 /\ Len(submitQueue) \in Nat
    BY <1>2, PushTypes
  <2>2. Submitted' = Submitted
    BY <1>a, <2>1 DEF Submitted
  <2>3. UNCHANGED <<onGpu, gpuLost, retired, recycled>> /\ inUse' = inUse \cup {Len(kind) + 1}
    BY <1>2 DEF Push
  <2>4. Len(kind) + 1 \notin Elems(retired)
    BY <1>a
  <2> QED
    BY <1>0, <2>1, <2>2, <2>3, <2>4 DEF UseInv
<1>3. CASE SubmitToGpu
  <2>1. Head(submitQueue) \in Queued /\ Head(submitQueue) = Submitted + 1
    BY <1>3, SubmitFront DEF SubmitToGpu
  <2>2. Head(submitQueue) \in inUse
    BY <1>0, <1>a, <2>1 DEF UseInv
  <2>3. onGpu' \subseteq onGpu \cup {Head(submitQueue)}
    BY <1>3 DEF SubmitToGpu
  <2>4. UNCHANGED <<kind, submitQueue, gpuLost, inUse, retired, recycled>>
    BY <1>3 DEF SubmitToGpu, queueVars
  <2> QED
    BY <1>0, <2>2, <2>3, <2>4 DEF UseInv, Submitted, Queued
<1>4. CASE SubmitForward
  <2>1. UNCHANGED <<kind, gpuVars>>
    BY <1>4 DEF SubmitForward
  <2>2. submitQueue # <<>> /\ submitQueue' = Tail(submitQueue)
    BY <1>4, SubmitFront DEF SubmitForward
  <2>3. Len(submitQueue') = Len(submitQueue) - 1 /\ Len(submitQueue) \in Nat
    BY <2>2, SubmitTail
  <2>4. Submitted' = Submitted + 1
    BY <1>a, <2>1, <2>3 DEF Submitted
  <2> QED
    BY <1>0, <1>a, <2>1, <2>4 DEF UseInv, gpuVars, Queued
<1>5. CASE SubmitDrop
  <2>1. /\ UNCHANGED <<kind, onGpu, gpuLost, recycled>> /\ retired' = Append(retired, Head(submitQueue))
        /\ inUse' = inUse \ {Head(submitQueue)}
    BY <1>5 DEF SubmitDrop
  <2>2. submitQueue # <<>> /\ submitQueue' = Tail(submitQueue)
    BY <1>5, SubmitFront DEF SubmitDrop
  <2>3. /\ Len(submitQueue') = Len(submitQueue) - 1 /\ Len(submitQueue) \in Nat
        /\ Head(submitQueue) \in Queued /\ Head(submitQueue) = Submitted + 1
    BY <2>2, SubmitTail
  <2>4. Submitted' = Submitted + 1
    BY <1>a, <2>1, <2>3 DEF Submitted
  <2>5. retired \in Seq(Queued)
    BY DEF IInv, TypeOK
  <2>6. Elems(retired') = Elems(retired) \cup {Head(submitQueue)}
    BY <2>1, <2>3, <2>5, ElemsAppend
  <2>7. gpuLost
    BY <1>5 DEF SubmitDrop, IInv, ThreadInv
  <2>8. \A e \in Queued' : e > Submitted' => e \in inUse'
    BY <1>0, <1>a, <2>1, <2>3, <2>4 DEF UseInv, Queued
  <2> QED
    BY <1>0, <2>1, <2>6, <2>7, <2>8 DEF UseInv
<1>6. CASE FinishNotify
  <2>1. entry \in Queued /\ entry <= Submitted
    BY <1>6, FinishFront DEF FinishNotify
  <2>2. entry \notin onGpu \/ gpuLost
    BY <1>6 DEF FinishNotify, IInv, ThreadInv, TypeOK, CmdLists
  <2>3. UNCHANGED <<kind, submitQueue, onGpu, gpuLost, retired, recycled>> /\ inUse' = inUse \ {entry}
    BY <1>6 DEF FinishNotify, queueVars
  <2>4. Queued' = Queued /\ Submitted' = Submitted
    BY <2>3 DEF Queued, Submitted
  <2> QED
    BY <1>0, <1>a, <2>1, <2>2, <2>3, <2>4 DEF UseInv
<1>7. CASE FinishPop
  <2>1. entry \in Queued
    BY <1>7, FinishFront DEF FinishPop
  <2>2. retired \in Seq(Queued) /\ retired' = Append(retired, entry)
    BY <1>7 DEF FinishPop, IInv, TypeOK
  <2>3. Elems(retired') = Elems(retired) \cup {entry}
    BY <2>1, <2>2, ElemsAppend
  <2>4. entry \notin inUse
    BY <1>7 DEF FinishPop, IInv, ThreadInv
  <2>5. UNCHANGED <<kind, submitQueue, onGpu, gpuLost, inUse, recycled>>
    BY <1>7 DEF FinishPop
  <2> QED
    BY <1>0, <2>3, <2>4, <2>5 DEF UseInv, Submitted, Queued
<1>8. CASE FinishRecycle
  <2>1. entry \in Elems(retired)
    BY <1>8 DEF FinishRecycle, IInv, ThreadInv
  <2>2. /\ UNCHANGED <<kind, submitQueue, onGpu, gpuLost, inUse, retired>>
        /\ recycled' = recycled \cup {entry}
    BY <1>8 DEF FinishRecycle, queueVars
  <2> QED
    BY <1>0, <2>1, <2>2 DEF UseInv, Submitted, Queued
<1>9. CASE GpuComplete
  <2>1. UNCHANGED <<kind, submitQueue, gpuLost, inUse, retired, recycled>> /\ onGpu' \subseteq onGpu
    BY <1>9 DEF GpuComplete, queueVars
  <2> QED
    BY <1>0, <2>1 DEF UseInv, Submitted, Queued
<1>10. CASE ThreadStep
  BY <1>1, <1>3, <1>4, <1>5, <1>6, <1>7, <1>8, <1>9, <1>10 DEF ThreadStep, SubmitTake, SubmitExit,
     SubmitCheck, SubmitStatus, SubmitFail, FinishTake, FinishExit, FinishFence, FinishLost,
     FinishFail, Finish, GpuLose, queueVars, gpuVars
<1> QED
  BY <1>1, <1>2, <1>10, StepCases DEF Quiet, Stopping, queueVars, gpuVars

\* A step of the two threads or of the GPU: entries only move on, and once the
\* threads are stopped there is none to move.
LEMMA Progress ==
  ASSUME IInv, ThreadStep
  PROVE  /\ UNCHANGED <<kind, stopped, callVars>> /\ (gpuLost => gpuLost')
         /\ Submitted \in Nat /\ Submitted' \in Nat /\ Submitted <= Submitted'
         /\ Elems(retired) \subseteq Elems(retired')
         /\ stopped => submitQueue' = <<>> /\ finishQueue' = <<>> /\ onGpu' \subseteq onGpu
<1>0. /\ Submitted \in Nat /\ kind \in Seq({"cmdlist", "present"})
      /\ submitQueue \in Seq(Queued) /\ retired \in Seq(Queued)
      /\ stopped => submitQueue = <<>> /\ finishQueue = <<>>
  BY DEF IInv, TypeOK, PlaceInv, CallInv
<1>1. CASE /\ UNCHANGED <<kind, submitQueue, finishQueue, stopped, retired, callVars>>
           /\ gpuLost => gpuLost'
           /\ stopped => onGpu' \subseteq onGpu
  BY <1>0, <1>1 DEF Submitted
<1>2. CASE SubmitForward
  <2>1. submitQueue # <<>> /\ submitQueue' = Tail(submitQueue)
    BY <1>2, SubmitFront DEF SubmitForward
  <2>2. Len(submitQueue') = Len(submitQueue) - 1 /\ Len(submitQueue) \in Nat \ {0}
    BY <2>1, SubmitTail
  <2>3. UNCHANGED <<kind, stopped, callVars, gpuLost, retired>>
    BY <1>2 DEF SubmitForward, gpuVars
  <2>4. Submitted' = Submitted + 1
    BY <1>0, <2>2, <2>3 DEF Submitted
  <2> QED
    BY <1>0, <2>1, <2>3, <2>4
<1>3. CASE SubmitDrop
  <2>1. submitQueue # <<>> /\ submitQueue' = Tail(submitQueue)
    BY <1>3, SubmitFront DEF SubmitDrop
  <2>2. /\ Len(submitQueue') = Len(submitQueue) - 1 /\ Len(submitQueue) \in Nat \ {0}
        /\ Head(submitQueue) \in Queued
    BY <2>1, SubmitTail
  <2>3. UNCHANGED <<kind, stopped, callVars, gpuLost>> /\ retired' = Append(retired, Head(submitQueue))
    BY <1>3 DEF SubmitDrop
  <2>4. Submitted' = Submitted + 1
    BY <1>0, <2>2, <2>3 DEF Submitted
  <2>5. Elems(retired) \subseteq Elems(retired')
    BY <1>0, <2>2, <2>3, ElemsAppend
  <2> QED
    BY <1>0, <2>1, <2>3, <2>4, <2>5
<1>4. CASE FinishPop
  <2>1. finishQueue # <<>> /\ entry \in Queued
    BY <1>4, FinishFront DEF FinishPop
  <2>2. /\ UNCHANGED <<kind, stopped, submitQueue, callVars, gpuLost>>
        /\ retired' = Append(retired, entry)
    BY <1>4 DEF FinishPop
  <2>3. Elems(retired) \subseteq Elems(retired')
    BY <1>0, <2>1, <2>2, ElemsAppend
  <2> QED
    BY <1>0, <2>1, <2>2, <2>3 DEF Submitted
<1>5. CASE SubmitToGpu
  <2>1. submitQueue # <<>>
    BY <1>5, SubmitFront DEF SubmitToGpu
  <2> QED
    BY <1>0, <1>1, <1>5, <2>1 DEF SubmitToGpu, queueVars
<1>6. CASE \/ SubmitTake \/ SubmitExit \/ SubmitCheck \/ SubmitStatus \/ SubmitFail
           \/ FinishTake \/ FinishExit \/ FinishNotify \/ FinishRecycle \/ GpuComplete \/ GpuLose
  BY <1>1, <1>6 DEF SubmitTake, SubmitExit, SubmitCheck, SubmitStatus, SubmitFail, FinishTake,
     FinishExit, FinishNotify, FinishRecycle, GpuComplete, GpuLose, queueVars, gpuVars
<1>7. CASE FinishFence \/ FinishLost \/ FinishFail
  BY <1>1, <1>7 DEF FinishFence, FinishLost, FinishFail, Finish, gpuVars
<1> QED
  BY <1>2, <1>3, <1>4, <1>5, <1>6, <1>7 DEF ThreadStep

\* A caller goes on, and what CallInv says of its next pc holds.
LEMMA CallerMoves ==
  ASSUME IInv, NEW c \in Callers, NEW l,
         UNCHANGED <<kind, submitQueue, finishQueue, onGpu, gpuLost, retired, stopped, closing>>,
         pc[c] # "idle",
         Goto(c, l),
         l = "idle finish" => arg[c] <= Submitted,
         l \in IdlePcs => 1 .. arg[c] \subseteq Elems(retired),
         l \in {"stop", "join", "gone"} => closing,
         closing => l \in IdlePcs \cup {"idle", "idle submit", "idle finish"}
  PROVE  CallInv'
<1>1. pc \in [Callers -> CallPcs] /\ arg \in [Callers -> Queued \cup {0}]
  BY DEF IInv, TypeOK
<1>2. /\ pc'[c] = l /\ \A d \in Callers \ {c} : pc'[d] = pc[d] /\ arg'[d] = arg[d]
      /\ l # "idle" => arg'[c] = arg[c]
  BY <1>1 DEF Goto
<1>3. Submitted' = Submitted
  BY DEF Submitted
<1> QED
  BY <1>2, <1>3 DEF IInv, CallInv, IdlePcs

\* Nothing is left in the queues when every entry is retired.
LEMMA AllRetired ==
  ASSUME IInv, 1 .. Len(kind) \subseteq Elems(retired)
  PROVE  submitQueue = <<>> /\ finishQueue = <<>> /\ (onGpu = {} \/ gpuLost)
<1>1. submitQueue \in Seq(Queued) /\ finishQueue \in Seq(Queued)
  BY DEF IInv, TypeOK
<1>2. submitQueue = <<>>
  <2>1. SUFFICES ASSUME submitQueue # <<>> PROVE FALSE
    OBVIOUS
  <2>2. Head(submitQueue) \in Elems(submitQueue) /\ Head(submitQueue) \in Queued
    BY <1>1, <2>1, ElemsTail, HeadTailProperties
  <2>3. Head(submitQueue) > Submitted /\ Head(submitQueue) <= Submitted /\ Submitted \in Nat /\ Head(submitQueue) \in Int
    BY <2>2, Positions DEF Queued
  <2> QED
    BY <2>3
<1>3. finishQueue = <<>>
  <2>1. SUFFICES ASSUME finishQueue # <<>> PROVE FALSE
    OBVIOUS
  <2>2. Head(finishQueue) \in Elems(finishQueue) /\ Head(finishQueue) \in Queued
    BY <1>1, <2>1, ElemsTail, HeadTailProperties
  <2> QED
    BY <2>2, Positions DEF Queued
<1>4. onGpu = {} \/ gpuLost
  BY DEF IInv, TypeOK, UseInv, CmdLists, Queued
<1> QED
  BY <1>2, <1>3, <1>4

LEMMA CallInvStep ==
  ASSUME IInv, [Next]_vars
  PROVE  CallInv'
<1>0. CallInv
  BY DEF IInv
<1>a. /\ pc \in [Callers -> CallPcs] /\ arg \in [Callers -> Queued \cup {0}]
      /\ Queued = 1 .. Len(kind) /\ Len(kind) \in Nat
  <2>1. kind \in Seq({"cmdlist", "present"})
    BY DEF IInv, TypeOK
  <2>2. Len(kind) \in Nat
    BY <2>1
  <2> QED
    BY <2>2 DEF IInv, TypeOK, Queued
<1>b. closing => \A c \in Callers : pc[c] \in IdlePcs \cup {"idle", "idle submit", "idle finish"}
  BY <1>0 DEF CallInv
<1>1. CASE ThreadStep
  <2>1. /\ UNCHANGED <<kind, stopped, callVars>> /\ (gpuLost => gpuLost')
        /\ Submitted \in Nat /\ Submitted' \in Nat /\ Submitted <= Submitted'
        /\ Elems(retired) \subseteq Elems(retired')
        /\ stopped => submitQueue' = <<>> /\ finishQueue' = <<>> /\ onGpu' \subseteq onGpu
    BY <1>1, Progress
  <2>2. UNCHANGED <<pc, arg, closing>>
    BY <2>1 DEF callVars
  <2>3. \A c \in Callers : arg[c] <= Submitted => arg[c] <= Submitted'
    <3>1. \A c \in Callers : arg[c] \in Nat
      BY <1>a
    <3> QED
      BY <2>1, <3>1
  <2> QED
    BY <1>0, <2>1, <2>2, <2>3 DEF CallInv
<1>2. CASE UNCHANGED <<queueVars, gpuVars, callVars>>
  BY <1>0, <1>2 DEF CallInv, Submitted, queueVars, gpuVars, callVars
<1>3. ASSUME NEW c \in Callers, NEW op \in {"submit", "poll status", "poll resource", "synchronize", "idle submit"},
             Call(c, op)
      PROVE  CallInv'
  <2>1. /\ ~closing /\ closing' = closing /\ UNCHANGED <<queueVars, gpuVars>>
        /\ pc' = [pc EXCEPT ![c] = op]
        /\ \E e : arg' = [arg EXCEPT ![c] = e]
    BY <1>3 DEF Call, MayCall
  <2>2. /\ pc'[c] = op
        /\ \A d \in Callers \ {c} : pc'[d] = pc[d] /\ arg'[d] = arg[d]
    BY <1>a, <2>1
  <2>3. op \notin IdlePcs \cup {"idle finish"}
    BY DEF IdlePcs
  <2>4. Submitted' = Submitted
    BY <2>1 DEF Submitted, queueVars
  <2> QED
    BY <1>0, <2>1, <2>2, <2>3, <2>4 DEF CallInv, IdlePcs, queueVars, gpuVars
<1>4. ASSUME NEW c \in Callers, Close(c)
      PROVE  CallInv'
  <2>1. /\ ~closing /\ UNCHANGED <<queueVars, gpuVars>>
        /\ \A d \in Callers : pc[d] = "idle"
        /\ pc' = [pc EXCEPT ![c] = "idle submit"]
        /\ arg' = [arg EXCEPT ![c] = Len(kind)]
        /\ kind' = kind /\ stopped' = stopped
    BY <1>4 DEF Close, MayCall, queueVars
  <2>2. /\ pc'[c] = "idle submit" /\ arg'[c] = Len(kind)
        /\ \A d \in Callers \ {c} : pc'[d] = "idle"
    BY <1>a, <2>1
  <2>3. ~stopped
    BY <1>0, <2>1 DEF CallInv
  <2> QED
    BY <2>1, <2>2, <2>3 DEF CallInv, IdlePcs
<1>5. ASSUME NEW k \in {"cmdlist", "present"}, Push(k), ~closing, closing' = closing,
             NEW c \in Callers, UNCHANGED <<pc, arg>> \/ (pc[c] = "submit" /\ Goto(c, "idle"))
      PROVE  CallInv'
  <2>1. Len(kind') = Len(kind) + 1 /\ Len(submitQueue') = Len(submitQueue) + 1 /\ Len(submitQueue) \in Nat
    BY <1>5, PushTypes
  <2>2. Submitted' = Submitted
    BY <1>a, <2>1 DEF Submitted
  <2>3. UNCHANGED <<retired, stopped>>
    BY <1>5 DEF Push
  <2>4. \A d \in Callers : pc'[d] = "idle" \/ (pc'[d] = pc[d] /\ arg'[d] = arg[d])
    BY <1>5, <1>a DEF Goto
  <2> QED
    BY <1>0, <1>5, <2>2, <2>3, <2>4 DEF CallInv, IdlePcs
<1>6. ASSUME NEW c \in Callers, CallStep(c)
      PROVE  CallInv'
  <2>1. CASE SubmitFull(c) \/ StatusNotReady(c) \/ ResourceBusy(c) \/ SynchronizeBusy(c) \/ IdleBusy(c)
    BY <1>2, <2>1 DEF SubmitFull, StatusNotReady, ResourceBusy, SynchronizeBusy, IdleBusy, FallAsleep
  <2>2. CASE Submit(c)
    <3>1. pc[c] = "submit" /\ Push("cmdlist") /\ Goto(c, "idle") /\ closing' = closing
      BY <2>2 DEF Submit, Push
    <3>2. ~closing
      BY <1>b, <3>1 DEF IdlePcs
    <3> QED
      BY <1>5, <3>1, <3>2
  <2>3. CASE PollStatus(c) \/ StatusReady(c) \/ PollResource(c) \/ ResourceFree(c) \/ Synchronize(c)
    <3>1. /\ pc[c] \in {"poll status", "status", "poll resource", "resource", "synchronize"}
          /\ \E l \in {"idle", "status", "resource", "lock queue"} : Goto(c, l)
          /\ UNCHANGED <<queueVars, gpuVars, closing>>
      BY <2>3 DEF PollStatus, StatusReady, PollResource, ResourceFree, Synchronize, Move
    <3>2. ~closing
      BY <1>b, <3>1 DEF IdlePcs
    <3> QED
      BY <3>1, <3>2, CallerMoves DEF IdlePcs, queueVars, gpuVars
  <2>4. CASE LockDeviceQueue(c)
    <3>1. /\ pc[c] \in {"lock queue", "idle lock"}
          /\ Goto(c, IF pc[c] = "lock queue" THEN "queue locked" ELSE "idle gpu")
          /\ UNCHANGED <<queueVars, gpuVars, closing>>
      BY <2>4 DEF LockDeviceQueue
    <3>2. CASE pc[c] = "lock queue"
      <4>1. ~closing
        BY <1>b, <3>2 DEF IdlePcs
      <4> QED
        BY <3>1, <3>2, <4>1, CallerMoves DEF IdlePcs, queueVars, gpuVars
    <3>3. CASE pc[c] = "idle lock"
      <4>1. 1 .. arg[c] \subseteq Elems(retired)
        BY <1>0, <3>3 DEF CallInv, IdlePcs
      <4> QED
        BY <3>1, <3>3, <4>1, CallerMoves DEF IdlePcs, queueVars, gpuVars
    <3> QED
      BY <3>1, <3>2, <3>3
  <2>5. CASE UnlockDeviceQueue(c)
    BY <2>5, CallerMoves DEF UnlockDeviceQueue, IdlePcs, queueVars, gpuVars
  <2>6. CASE IdleSubmitted(c)
    <3>1. arg[c] \in Nat /\ arg[c] <= Submitted /\ Submitted \in Nat
      <4>1. Submitted = Len(kind)
        <5>1. submitQueue = <<>>
          BY <2>6 DEF IdleSubmitted
        <5> QED
          BY <1>a, <5>1 DEF Submitted
      <4> QED
        BY <1>a, <4>1
    <3>2. finishQueue = <<>> => 1 .. arg[c] \subseteq Elems(retired)
      <4>1. 1 .. Submitted \subseteq Elems(finishQueue) \cup Elems(retired)
        BY DEF IInv, PlaceInv
      <4>2. finishQueue = <<>> => Elems(finishQueue) = {}
        BY ElemsEmpty
      <4> QED
        BY <3>1, <4>1, <4>2
    <3>3. /\ pc[c] = "idle submit"
          /\ Goto(c, IF finishQueue = <<>> THEN "idle lock" ELSE "idle finish")
          /\ UNCHANGED <<queueVars, gpuVars, closing>>
      BY <2>6 DEF IdleSubmitted
    <3>4. CASE finishQueue = <<>>
      BY <3>1, <3>2, <3>3, <3>4, CallerMoves DEF IdlePcs, queueVars, gpuVars
    <3>5. CASE finishQueue # <<>>
      BY <3>1, <3>3, <3>5, CallerMoves DEF IdlePcs, queueVars, gpuVars
    <3> QED
      BY <3>4, <3>5
  <2>7. CASE IdleFinished(c)
    <3>1. /\ pc[c] = "idle finish" /\ finishQueue = <<>> /\ Goto(c, "idle lock")
          /\ UNCHANGED <<queueVars, gpuVars, closing>>
      BY <2>7 DEF IdleFinished, Move
    <3>2. 1 .. arg[c] \subseteq Elems(retired)
      <4>1. 1 .. Submitted \subseteq Elems(finishQueue) \cup Elems(retired) /\ Submitted \in Nat
        BY DEF IInv, PlaceInv
      <4>2. Elems(finishQueue) = {}
        BY <3>1, ElemsEmpty
      <4>3. arg[c] <= Submitted /\ arg[c] \in Nat
        <5>1. arg[c] \in Nat
          BY <1>a
        <5>2. arg[c] <= Submitted
          BY <1>0, <3>1 DEF CallInv
        <5> QED
          BY <5>1, <5>2
      <4> QED
        BY <4>1, <4>2, <4>3
    <3> QED
      BY <3>1, <3>2, CallerMoves DEF IdlePcs, queueVars, gpuVars
  <2>8. CASE IdleGpu(c)
    <3>1. /\ pc[c] = "idle gpu" /\ Goto(c, IF closing THEN "stop" ELSE "idle")
          /\ UNCHANGED <<queueVars, gpuVars, closing>>
      BY <2>8 DEF IdleGpu
    <3>2. 1 .. arg[c] \subseteq Elems(retired)
      BY <1>0, <3>1 DEF CallInv, IdlePcs
    <3>3. CASE closing
      BY <3>1, <3>2, <3>3, CallerMoves DEF IdlePcs, queueVars, gpuVars
    <3>4. CASE ~closing
      BY <3>1, <3>4, CallerMoves DEF IdlePcs, queueVars, gpuVars
    <3> QED
      BY <3>3, <3>4
  <2>9. CASE Join(c)
    <3>1. /\ pc[c] = "join" /\ Goto(c, "gone") /\ UNCHANGED <<queueVars, gpuVars, closing>>
      BY <2>9 DEF Join, Move
    <3>2. closing /\ 1 .. arg[c] \subseteq Elems(retired)
      BY <1>0, <3>1 DEF CallInv, IdlePcs
    <3> QED
      BY <3>1, <3>2, CallerMoves DEF IdlePcs, queueVars, gpuVars
  <2>10. CASE Stop(c)
    <3>1. /\ pc[c] = "stop" /\ Goto(c, "join") /\ closing' = closing
          /\ UNCHANGED <<kind, submitQueue, finishQueue, gpuVars>>
      BY <2>10 DEF Stop
    <3>2. closing /\ 1 .. arg[c] \subseteq Elems(retired) /\ arg[c] = Len(kind)
      BY <1>0, <3>1 DEF CallInv, IdlePcs
    <3>3. submitQueue = <<>> /\ finishQueue = <<>> /\ (onGpu = {} \/ gpuLost)
      BY <3>2, AllRetired
    <3>4. /\ pc'[c] = "join" /\ arg' = arg /\ \A d \in Callers \ {c} : pc'[d] = pc[d]
      BY <1>a, <3>1 DEF Goto
    <3>5. Submitted' = Submitted
      BY <3>1 DEF Submitted
    <3> QED
      BY <1>0, <3>1, <3>2, <3>3, <3>4, <3>5 DEF CallInv, IdlePcs, gpuVars
  <2> QED
    BY <1>6, <2>1, <2>2, <2>3, <2>4, <2>5, <2>6, <2>7, <2>8, <2>9, <2>10 DEF CallStep
<1>7. ASSUME NEW c \in Callers, Present(c)
      PROVE  CallInv'
  BY <1>5, <1>7 DEF Present, MayCall, Push
<1>8. CASE SubmitThread
  BY <1>1, <1>2, <1>8 DEF SubmitThread, SubmitWait, FallAsleep, ThreadStep
<1>9. CASE FinishThread
  BY <1>1, <1>2, <1>9 DEF FinishThread, FinishWait, FallAsleep, ThreadStep
<1>10. CASE UNCHANGED vars \/ \E w \in Callers \cup {"submit thread", "finish thread"} : SpuriousWake(w)
  BY <1>2, <1>10 DEF vars, SpuriousWake
<1> QED
  BY <1>1, <1>3, <1>4, <1>6, <1>7, <1>8, <1>9, <1>10 DEF Next, ThreadStep

LEMMA InvStep == IInv /\ [Next]_vars => IInv'
<1> SUFFICES ASSUME IInv, [Next]_vars PROVE IInv'
  OBVIOUS
<1>1. TypeOK'
  BY QueueTypeStep, CallTypeStep DEF TypeOK, QueueTypes, CallTypes
<1> QED
  BY <1>1, PlaceStep, ThreadStepInv, UseStep, CallInvStep, BoundStep DEF IInv

\* IInv holds in every reachable state, whatever the callers, bounds and failures.
THEOREM Invariance == Spec => []IInv
  BY InitInv, InvStep, PTL DEF Spec

-----------------------------------------------------------------------------
(* What the queue promises                                                 *)

\* What an entry uses stays referenced until the GPU is done with the entry,
\* unless the device is lost, and a recycled command list is queued nowhere
\* (notifyObjects before recycleCommandList, src/dxvk/dxvk_queue.cpp).
THEOREM ReleasedOnlyAfterGpu == Spec => []ReleasedAfterGpu
<1>1. IInv => ReleasedAfterGpu
  <2> SUFFICES ASSUME IInv PROVE ReleasedAfterGpu
    OBVIOUS
  <2>1. \A e \in onGpu : e \in inUse \/ gpuLost
    BY DEF IInv, UseInv
  <2>2. ASSUME NEW e \in recycled
        PROVE  e \notin inUse \cup Elems(submitQueue) \cup Elems(finishQueue)
    <3>1. e \in Elems(retired) /\ e \notin inUse
      BY DEF IInv, UseInv
    <3>2. e \notin Elems(finishQueue)
      BY <3>1, Positions
    <3>3. e \notin Elems(submitQueue)
      <4>1. \A f \in Elems(submitQueue) : f \in Queued /\ f > Submitted
        BY Positions
      <4>2. e \in Queued /\ e <= Submitted /\ Submitted \in Nat
        BY <3>1, Positions
      <4> QED
        BY <4>1, <4>2 DEF Queued
    <3> QED
      BY <3>1, <3>2, <3>3
  <2> QED
    BY <2>1, <2>2 DEF ReleasedAfterGpu
<1> QED
  BY <1>1, Invariance, PTL

\* waitForIdle returns, and ~DxvkDevice stops the threads, only when everything
\* queued before has left both queues.
THEOREM IdleAfterRetired == Spec => []IdleMeansRetired
<1>1. IInv => IdleMeansRetired
  BY DEF IInv, CallInv, IdlePcs, IdleMeansRetired
<1> QED
  BY <1>1, Invariance, PTL

LEMMA ElemsCard ==
  ASSUME NEW S, NEW q \in Seq(S)
  PROVE  IsFiniteSet(Elems(q)) /\ Cardinality(Elems(q)) <= Len(q) /\ Cardinality(Elems(q)) \in Nat
<1>1. /\ Len(q) \in Nat /\ DOMAIN q = 1 .. Len(q) /\ q \in [1 .. Len(q) -> S]
  BY LenProperties
<1>2. q \in Surjection(1 .. Len(q), Elems(q))
  BY <1>1 DEF Elems, Surjection
<1>3. IsFiniteSet(1 .. Len(q)) /\ Cardinality(1 .. Len(q)) = Len(q)
  BY <1>1, FS_Interval
<1> QED
  BY <1>2, <1>3, FS_Surjection, FS_CardinalityType

\* How often an entry occurs in a queue that holds none twice.
LEMMA Occurrences ==
  ASSUME NEW S, NEW q \in Seq(S), \A i, j \in 1 .. Len(q) : i # j => q[i] # q[j], NEW e
  PROVE  Cardinality({i \in DOMAIN q : q[i] = e}) = IF e \in Elems(q) THEN 1 ELSE 0
<1>1. DOMAIN q = 1 .. Len(q)
  BY LenProperties
<1>2. CASE e \in Elems(q)
  <2>1. PICK i \in DOMAIN q : q[i] = e
    BY <1>2 DEF Elems
  <2>2. {j \in DOMAIN q : q[j] = e} = {i}
    BY <1>1, <2>1
  <2> QED
    BY <1>2, <2>2, FS_Singleton
<1>3. CASE e \notin Elems(q)
  <2>1. {j \in DOMAIN q : q[j] = e} = {}
    BY <1>3 DEF Elems
  <2> QED
    BY <1>3, <2>1, FS_EmptySet
<1> QED
  BY <1>2, <1>3

\* Every entry queued so far is in exactly one place, in order, although the
\* front of a queue stays in it while a thread works on it.
THEOREM EntriesAreConserved == Spec => []EntriesConserved
<1>1. IInv => EntriesConserved
  <2> SUFFICES ASSUME IInv PROVE EntriesConserved
    OBVIOUS
  <2>1. /\ submitQueue \in Seq(Queued) /\ finishQueue \in Seq(Queued) /\ retired \in Seq(Queued)
        /\ kind \in Seq({"cmdlist", "present"})
    BY DEF IInv, TypeOK
  <2>2. /\ DOMAIN submitQueue = 1 .. Len(submitQueue) /\ Len(submitQueue) \in Nat
        /\ DOMAIN finishQueue = 1 .. Len(finishQueue) /\ Len(finishQueue) \in Nat
        /\ DOMAIN retired = 1 .. Len(retired) /\ Len(kind) \in Nat
    BY <2>1, LenProperties
  <2>3. /\ Submitted \in Nat /\ Submitted = Len(kind) - Len(submitQueue)
        /\ \A i \in 1 .. Len(submitQueue) : submitQueue[i] = Submitted + i
    BY DEF IInv, PlaceInv, Submitted
  <2>4. /\ \A i, j \in 1 .. Len(submitQueue) : i < j => submitQueue[i] < submitQueue[j]
        /\ \A i, j \in 1 .. Len(submitQueue) : i # j => submitQueue[i] # submitQueue[j]
    BY <2>2, <2>3
  <2>5. /\ \A i, j \in 1 .. Len(finishQueue) : i < j => finishQueue[i] < finishQueue[j]
        /\ \A i, j \in 1 .. Len(finishQueue) : i # j => finishQueue[i] # finishQueue[j]
    <3>1. \A i, j \in 1 .. Len(finishQueue) : i < j => finishQueue[i] < finishQueue[j]
      BY DEF IInv, PlaceInv
    <3>2. \A i \in 1 .. Len(finishQueue) : finishQueue[i] \in Int
      BY <2>1, ElementOfSeq DEF Queued
    <3> QED
      BY <2>2, <3>1, <3>2
  <2>6. \A i, j \in 1 .. Len(retired) : i # j => retired[i] # retired[j]
    BY DEF IInv, PlaceInv
  <2>7. ASSUME NEW e \in Queued
        PROVE  Cardinality({i \in DOMAIN submitQueue : submitQueue[i] = e})
               + Cardinality({i \in DOMAIN finishQueue : finishQueue[i] = e})
               + Cardinality({i \in DOMAIN retired : retired[i] = e}) = 1
    <3>1. Cardinality({i \in DOMAIN submitQueue : submitQueue[i] = e})
            = IF e \in Elems(submitQueue) THEN 1 ELSE 0
      BY <2>1, <2>4, Occurrences
    <3>2. Cardinality({i \in DOMAIN finishQueue : finishQueue[i] = e})
            = IF e \in Elems(finishQueue) THEN 1 ELSE 0
      BY <2>1, <2>5, Occurrences
    <3>3. Cardinality({i \in DOMAIN retired : retired[i] = e})
            = IF e \in Elems(retired) THEN 1 ELSE 0
      BY <2>1, <2>6, Occurrences
    <3>4. e \in 1 .. Len(kind)
      BY DEF Queued
    <3>5. CASE e > Submitted
      <4>1. e - Submitted \in DOMAIN submitQueue /\ submitQueue[e - Submitted] = e
        BY <2>2, <2>3, <3>4, <3>5
      <4>2. e \in Elems(submitQueue)
        BY <4>1 DEF Elems
      <4>3. e \notin Elems(finishQueue) /\ e \notin Elems(retired)
        BY <2>3, <3>4, <3>5, Positions
      <4> QED
        BY <3>1, <3>2, <3>3, <4>2, <4>3
    <3>6. CASE e <= Submitted
      <4>1. e \in Elems(finishQueue) \cup Elems(retired)
        BY <2>3, <3>4, <3>6 DEF IInv, PlaceInv
      <4>2. e \notin Elems(submitQueue)
        BY <2>3, <3>4, <3>6, Positions
      <4>3. e \in Elems(finishQueue) => e \notin Elems(retired)
        BY Positions
      <4> QED
        BY <3>1, <3>2, <3>3, <4>1, <4>2, <4>3
    <3> QED
      BY <2>3, <3>4, <3>5, <3>6
  <2>8. TypeOK
    BY DEF IInv
  <2>9. \A i, j \in DOMAIN submitQueue : i < j => submitQueue[i] < submitQueue[j]
    <3>1. DOMAIN submitQueue = 1 .. Len(submitQueue)
      BY <2>2
    <3>2. \A i, j \in 1 .. Len(submitQueue) : i < j => submitQueue[i] < submitQueue[j]
      BY <2>4
    <3> QED
      BY <3>1, <3>2
  <2>10. \A i, j \in DOMAIN finishQueue : i < j => finishQueue[i] < finishQueue[j]
    <3>1. DOMAIN finishQueue = 1 .. Len(finishQueue)
      BY <2>2
    <3>2. \A i, j \in 1 .. Len(finishQueue) : i < j => finishQueue[i] < finishQueue[j]
      BY <2>5
    <3> QED
      BY <3>1, <3>2
  <2> QED
    BY <2>7, <2>8, <2>9, <2>10, Zenon DEF EntriesConserved
<1> QED
  BY <1>1, Invariance, PTL

InFlight == {e \in CmdLists : e \notin Elems(retired)}

\* A command list in flight is in one of the queues.
LEMMA InFlightQueued ==
  ASSUME IInv
  PROVE  /\ InFlight \subseteq Elems(submitQueue) \cup Elems(finishQueue)
         /\ IsFiniteSet(InFlight) /\ Cardinality(InFlight) \in Nat
         /\ Cardinality(InFlight) <= Len(submitQueue) + Len(finishQueue)
<1>1. /\ submitQueue \in Seq(Queued) /\ finishQueue \in Seq(Queued)
      /\ kind \in Seq({"cmdlist", "present"})
  BY DEF IInv, TypeOK
<1>2. /\ DOMAIN submitQueue = 1 .. Len(submitQueue) /\ Len(submitQueue) \in Nat
      /\ Len(finishQueue) \in Nat /\ Len(kind) \in Nat
  BY <1>1, LenProperties
<1>3. ASSUME NEW e \in InFlight PROVE e \in Elems(submitQueue) \cup Elems(finishQueue)
  <2>1. e \in 1 .. Len(kind) /\ e \notin Elems(retired)
    BY DEF InFlight, CmdLists, Queued
  <2>2. /\ Submitted \in Nat /\ Submitted = Len(kind) - Len(submitQueue)
        /\ \A i \in 1 .. Len(submitQueue) : submitQueue[i] = Submitted + i
        /\ 1 .. Submitted \subseteq Elems(finishQueue) \cup Elems(retired)
    BY DEF IInv, PlaceInv, Submitted
  <2>3. CASE e > Submitted
    <3>1. e - Submitted \in DOMAIN submitQueue /\ submitQueue[e - Submitted] = e
      BY <1>2, <2>1, <2>2, <2>3
    <3> QED
      BY <3>1 DEF Elems
  <2>4. CASE e <= Submitted
    BY <2>1, <2>2, <2>4
  <2> QED
    BY <2>1, <2>2, <2>3, <2>4
<1>4. /\ IsFiniteSet(Elems(submitQueue)) /\ Cardinality(Elems(submitQueue)) <= Len(submitQueue)
      /\ Cardinality(Elems(submitQueue)) \in Nat
  BY <1>1, ElemsCard
<1>5. /\ IsFiniteSet(Elems(finishQueue)) /\ Cardinality(Elems(finishQueue)) <= Len(finishQueue)
      /\ Cardinality(Elems(finishQueue)) \in Nat
  BY <1>1, ElemsCard
<1>6. IsFiniteSet(Elems(submitQueue) \cap Elems(finishQueue))
  BY <1>4, FS_Subset
<1>7. Cardinality(Elems(submitQueue) \cap Elems(finishQueue)) \in Nat
  BY <1>6, FS_CardinalityType
<1>8. /\ IsFiniteSet(Elems(submitQueue) \cup Elems(finishQueue))
      /\ Cardinality(Elems(submitQueue) \cup Elems(finishQueue))
           = Cardinality(Elems(submitQueue)) + Cardinality(Elems(finishQueue))
             - Cardinality(Elems(submitQueue) \cap Elems(finishQueue))
  BY <1>4, <1>5, FS_Union
<1>9. /\ InFlight \subseteq Elems(submitQueue) \cup Elems(finishQueue)
      /\ IsFiniteSet(InFlight)
      /\ Cardinality(InFlight) <= Cardinality(Elems(submitQueue) \cup Elems(finishQueue))
  BY <1>3, <1>8, FS_Subset
<1>10. Cardinality(InFlight) \in Nat
  BY <1>9, FS_CardinalityType
<1> QED
  BY <1>2, <1>4, <1>5, <1>7, <1>8, <1>9, <1>10

LEMMA InFlightStep ==
  ASSUME IInv, InFlightBounded, [Next]_vars
  PROVE  InFlightBounded'
<1>0. /\ Cardinality(InFlight) <= MaxQueued + 1 /\ MaxQueued \in Nat
      /\ IsFiniteSet(InFlight) /\ Cardinality(InFlight) \in Nat
  <2>1. MaxQueued \in Nat
    BY QueueAssumption
  <2> QED
    BY <2>1, InFlightQueued DEF InFlightBounded, InFlight
<1>1. ASSUME InFlight' \subseteq InFlight
      PROVE  InFlightBounded'
  <2>1. IsFiniteSet(InFlight') /\ Cardinality(InFlight') <= Cardinality(InFlight)
    BY <1>0, <1>1, FS_Subset
  <2>2. Cardinality(InFlight') \in Nat
    BY <2>1, FS_CardinalityType
  <2> QED
    BY <1>0, <2>1, <2>2 DEF InFlightBounded, InFlight
<1>2. ASSUME NEW k \in {"cmdlist", "present"}, Push(k)
      PROVE  /\ InFlight' \subseteq InFlight \cup {Len(kind) + 1}
             /\ k = "present" => InFlight' \subseteq InFlight
  <2>1. /\ Queued' = Queued \cup {Len(kind) + 1} /\ kind'[Len(kind) + 1] = k
        /\ \A e \in Queued : kind'[e] = kind[e]
    BY <1>2, PushTypes
  <2>2. retired' = retired
    BY <1>2 DEF Push
  <2> QED
    BY <2>1, <2>2 DEF InFlight, CmdLists
<1>3. ASSUME NEW c \in Callers, Submit(c)
      PROVE  InFlightBounded'
  <2>1. Len(submitQueue) + Len(finishQueue) <= MaxQueued
    BY <1>3 DEF Submit, SomeRoom
  <2>2. Cardinality(InFlight) <= Len(submitQueue) + Len(finishQueue)
    BY InFlightQueued
  <2>3. Len(submitQueue) \in Nat /\ Len(finishQueue) \in Nat
    <3>1. submitQueue \in Seq(Queued) /\ finishQueue \in Seq(Queued)
      BY DEF IInv, TypeOK
    <3> QED
      BY <3>1, LenProperties
  <2>4. Cardinality(InFlight) <= MaxQueued
    BY <1>0, <2>1, <2>2, <2>3
  <2>5. /\ IsFiniteSet(InFlight \cup {Len(kind) + 1})
        /\ Cardinality(InFlight \cup {Len(kind) + 1}) \in {Cardinality(InFlight), Cardinality(InFlight) + 1}
    BY <1>0, FS_AddElement
  <2>6. InFlight' \subseteq InFlight \cup {Len(kind) + 1}
    BY <1>2, <1>3 DEF Submit
  <2>7. /\ IsFiniteSet(InFlight')
        /\ Cardinality(InFlight') <= Cardinality(InFlight \cup {Len(kind) + 1})
    BY <2>5, <2>6, FS_Subset
  <2>8. Cardinality(InFlight') \in Nat
    BY <2>7, FS_CardinalityType
  <2> QED
    BY <1>0, <2>4, <2>5, <2>7, <2>8 DEF InFlightBounded, InFlight
<1>4. ASSUME NEW c \in Callers, Present(c)
      PROVE  InFlightBounded'
  BY <1>1, <1>2, <1>4 DEF Present
<1>5. CASE ThreadStep
  <2>1. kind' = kind /\ Elems(retired) \subseteq Elems(retired')
    BY <1>5, Progress
  <2> QED
    BY <1>1, <2>1 DEF InFlight, CmdLists, Queued
<1>6. CASE UNCHANGED <<kind, retired>>
  BY <1>1, <1>6 DEF InFlight, CmdLists, Queued
<1>7. CASE Quiet \/ Stopping
  BY <1>6, <1>7 DEF Quiet, Stopping, queueVars, gpuVars
<1>8. ASSUME NEW c \in Callers, CallStep(c), ~Submit(c)
      PROVE  Quiet \/ Stopping
  BY <1>8 DEF CallStep, SubmitFull, PollStatus, StatusReady, StatusNotReady,
     PollResource, ResourceFree, ResourceBusy, Synchronize, SynchronizeBusy,
     LockDeviceQueue, UnlockDeviceQueue, IdleSubmitted, IdleFinished, IdleBusy, IdleGpu,
     Stop, Join, Move, FallAsleep, Quiet, Stopping, queueVars, gpuVars, submitVars, finishVars
<1>9. ASSUME NEW c \in Callers, Close(c) \/ \E op : Call(c, op)
      PROVE  Quiet
  BY <1>9 DEF Close, Call, Quiet
<1>10. CASE SubmitThread \/ FinishThread
  BY <1>5, <1>7, <1>10 DEF SubmitThread, SubmitWait, FinishThread, FinishWait, FallAsleep, ThreadStep, Quiet
<1>11. CASE UNCHANGED vars \/ \E w \in Callers \cup {"submit thread", "finish thread"} : SpuriousWake(w)
  BY <1>7, <1>11 DEF vars, SpuriousWake, Quiet
<1> QED
  BY <1>3, <1>4, <1>5, <1>7, <1>8, <1>9, <1>10, <1>11 DEF Next, ThreadStep

\* submit() keeps at most MaxQueued + 1 command lists in flight, whatever the
\* number of callers and presents: one lock covers the test and the push.
THEOREM InFlightIsBounded == Spec => []InFlightBounded
<1>1. Init => InFlightBounded
  <2> SUFFICES ASSUME Init PROVE InFlightBounded
    OBVIOUS
  <2>1. {e \in CmdLists : e \notin Elems(retired)} = {}
    BY DEF Init, CmdLists, Queued
  <2>2. MaxQueued \in Nat /\ Cardinality({}) = 0
    BY QueueAssumption, FS_EmptySet
  <2> QED
    BY <2>1, <2>2 DEF InFlightBounded
<1>2. IInv /\ InFlightBounded /\ [Next]_vars => InFlightBounded'
  BY InFlightStep
<1> QED
  BY <1>1, <1>2, Invariance, PTL DEF Spec

-----------------------------------------------------------------------------
(* The contract                                                            *)

HasResult(e) == result[e] # "not ready"

\* What a caller has read stays true: an entry has a result once it has been
\* given to the Vulkan queue, and lockSubmission goes on once all have been.
WaitInv ==
  /\ \A e \in Queued : HasResult(e) => e <= Given
  /\ \A c \in Callers : pc[c] = "lock queue" => arg[c] <= Given

ContractInv == IInv /\ WaitInv

\* Entries are given in their order, the front of m_submitQueue being next.
LEMMA GivenFacts ==
  ASSUME IInv
  PROVE  /\ Len(kind) \in Nat /\ Queued = 1 .. Len(kind) /\ Submitted \in Nat
         /\ Given \in Nat /\ Given \in {Submitted, Submitted + 1} /\ Given <= Len(kind)
         /\ Given = Submitted + 1 <=> FrontGiven
         /\ Len(submitQueue) \in Nat /\ Len(submitQueue) = Len(kind) - Submitted
<1>1. kind \in Seq({"cmdlist", "present"}) /\ submitQueue \in Seq(Queued) /\ Submitted \in Nat
  BY DEF IInv, TypeOK, PlaceInv
<1>2. Len(kind) \in Nat /\ Len(submitQueue) \in Nat
  BY <1>1
<1>3. FrontGiven => Len(submitQueue) # 0
  <2> SUFFICES ASSUME FrontGiven PROVE Len(submitQueue) # 0
    OBVIOUS
  <2>1. submitQueue # <<>>
    BY SubmitFront, Zenon DEF FrontGiven
  <2> QED
    BY <1>1, <2>1
<1>4. /\ Submitted = Len(kind) - Len(submitQueue)
      /\ Given = IF FrontGiven THEN Submitted + 1 ELSE Submitted
  BY DEF Given, Submitted
<1> QED
  BY <1>1, <1>2, <1>3, <1>4 DEF Queued

\* Entries that have been given stay so, and calls do not give any.
LEMMA GivenGrows ==
  ASSUME IInv, [Next]_vars
  PROVE  Given' \in Nat /\ Given <= Given'
<1>1. /\ Len(kind) \in Nat /\ Len(submitQueue) \in Nat /\ Given \in Nat
  BY GivenFacts
<1>2. CASE UNCHANGED <<kind, submitQueue, submitPc>>
  <2>1. FrontGiven' <=> FrontGiven
    BY <1>2 DEF FrontGiven
  <2> QED
    BY <1>1, <1>2, <2>1 DEF Given
<1>3. ASSUME NEW k \in {"cmdlist", "present"}, Push(k) PROVE Given' = Given
  <2>1. Len(kind') = Len(kind) + 1 /\ Len(submitQueue') = Len(submitQueue) + 1 /\ submitPc' = submitPc
    BY <1>3, PushTypes DEF Push, submitVars
  <2>2. FrontGiven' <=> FrontGiven
    BY <2>1 DEF FrontGiven
  <2> QED
    BY <1>1, <2>1, <2>2 DEF Given
<1>4. CASE SubmitTake \/ SubmitExit \/ SubmitCheck \/ SubmitToGpu \/ SubmitStatus \/ SubmitFail
  <2>1. UNCHANGED <<kind, submitQueue>>
    BY <1>4 DEF SubmitTake, SubmitExit, SubmitCheck, SubmitToGpu, SubmitStatus, SubmitFail, queueVars
  <2>2. FrontGiven => FrontGiven'
    BY <1>4, Zenon DEF FrontGiven, SubmitTake, SubmitExit, SubmitCheck, SubmitToGpu, SubmitStatus, SubmitFail
  <2> QED
    BY <1>1, <2>1, <2>2 DEF Given
<1>5. CASE SubmitForward \/ SubmitDrop
  <2>1. submitQueue # <<>> /\ submitQueue' = Tail(submitQueue) /\ kind' = kind
        /\ submitPc = "relock" /\ submitPc' = "wait"
    BY <1>5, SubmitFront DEF SubmitForward, SubmitDrop
  <2>2. Len(submitQueue') = Len(submitQueue) - 1
    BY <2>1, SubmitTail
  <2>3. FrontGiven /\ ~FrontGiven'
    BY <2>1, Zenon DEF FrontGiven
  <2> QED
    BY <1>1, <2>1, <2>2, <2>3 DEF Given
<1>6. CASE ThreadStep
  BY <1>2, <1>4, <1>5, <1>6 DEF ThreadStep, FinishTake, FinishExit, FinishFence, FinishLost,
     FinishFail, Finish, FinishNotify, FinishPop, FinishRecycle, GpuComplete, GpuLose, queueVars, submitVars
<1> QED
  BY <1>1, <1>2, <1>3, <1>6, StepCases DEF Quiet, Stopping, queueVars, submitVars

\* Who does not move to "lock queue" keeps what it knew there; the rest passed
\* synchronize() with m_submitQueue empty.
LEMMA LockerStep ==
  ASSUME IInv, WaitInv, [Next]_vars, NEW c \in Callers, pc'[c] = "lock queue"
  PROVE  arg'[c] = arg[c] /\ (pc[c] = "lock queue" \/ submitQueue = <<>>)
<1>0. pc \in [Callers -> CallPcs] /\ arg \in [Callers -> Queued \cup {0}]
  BY DEF IInv, TypeOK
<1>1. CASE UNCHANGED <<pc, arg>>
  BY <1>1
<1>2. CASE SubmitThread \/ FinishThread \/ GpuComplete \/ GpuLose
  <2>1. UNCHANGED callVars
    BY <1>2 DEF SubmitThread, FinishThread, SubmitTake, SubmitWait, SubmitExit, SubmitCheck,
       SubmitToGpu, SubmitStatus, SubmitForward, SubmitDrop, SubmitFail, FinishTake, FinishWait,
       FinishExit, FinishFence, FinishLost, FinishFail, Finish, FinishNotify, FinishPop,
       FinishRecycle, GpuComplete, GpuLose, FallAsleep
  <2> QED
    BY <1>1, <2>1 DEF callVars
<1>3. CASE \E w \in Callers \cup {"submit thread", "finish thread"} : SpuriousWake(w)
  BY <1>1, <1>3 DEF SpuriousWake, callVars
<1>4. ASSUME NEW d \in Callers, NEW op \in {"submit", "poll status", "poll resource", "synchronize", "idle submit"}, Call(d, op)
      PROVE  pc[c] = "lock queue" /\ arg'[c] = arg[c]
  BY <1>0, <1>4 DEF Call
<1>5. ASSUME NEW d \in Callers, Present(d) PROVE UNCHANGED <<pc, arg>>
  BY <1>5 DEF Present
<1>6. ASSUME NEW d \in Callers, Close(d) PROVE pc[c] = "lock queue" /\ arg'[c] = arg[c]
  BY <1>0, <1>6 DEF Close
<1>7. ASSUME NEW d \in Callers, CallStep(d)
      PROVE  arg'[c] = arg[c] /\ (pc[c] = "lock queue" \/ submitQueue = <<>>)
  <2>1. CASE Synchronize(d)
    BY <1>0, <2>1 DEF Synchronize, Move, Goto
  <2>2. CASE Submit(d) \/ LockDeviceQueue(d) \/ UnlockDeviceQueue(d) \/ IdleGpu(d) \/ Stop(d)
    BY <1>0, <2>2 DEF Submit, LockDeviceQueue, UnlockDeviceQueue, IdleGpu, Stop, Goto
  <2>3. CASE PollStatus(d) \/ StatusReady(d) \/ PollResource(d) \/ ResourceFree(d) \/ Join(d)
    BY <1>0, <2>3 DEF PollStatus, StatusReady, PollResource, ResourceFree, Join, Move, Goto
  <2>4. CASE IdleSubmitted(d) \/ IdleFinished(d)
    BY <1>0, <2>4 DEF IdleSubmitted, IdleFinished, Move, Goto
  <2>5. CASE SubmitFull(d) \/ StatusNotReady(d) \/ ResourceBusy(d) \/ SynchronizeBusy(d) \/ IdleBusy(d)
    BY <1>1, <2>5 DEF SubmitFull, StatusNotReady, ResourceBusy, SynchronizeBusy, IdleBusy, FallAsleep, callVars
  <2> QED
    BY <1>7, <2>1, <2>2, <2>3, <2>4, <2>5 DEF CallStep
<1>8. CASE UNCHANGED vars
  BY <1>1, <1>8 DEF vars, callVars
<1> QED
  BY <1>1, <1>2, <1>3, <1>4, <1>5, <1>6, <1>7, <1>8 DEF Next

LEMMA WaitStep ==
  ASSUME IInv, WaitInv, [Next]_vars
  PROVE  WaitInv'
<1>1. /\ Len(kind) \in Nat /\ Queued = 1 .. Len(kind) /\ Given \in Nat /\ Given' \in Nat /\ Given <= Given'
      /\ result \in Seq(Results) /\ Len(result) = Len(kind)
  BY GivenFacts, GivenGrows DEF IInv, PlaceInv
<1>2. ASSUME NEW c \in Callers, pc'[c] = "lock queue" PROVE arg'[c] <= Given'
  <2>1. arg'[c] = arg[c] /\ (pc[c] = "lock queue" \/ submitQueue = <<>>)
    BY <1>2, LockerStep
  <2>2. arg[c] \in Queued \cup {0}
    BY DEF IInv, TypeOK
  <2>3. submitQueue = <<>> => arg[c] <= Given
    <3>1. submitQueue = <<>> => Submitted = Len(kind)
      BY <1>1 DEF Submitted
    <3>2. Given >= Submitted /\ Len(kind) \in Nat
      BY GivenFacts
    <3> QED
      BY <1>1, <2>2, <3>1, <3>2
  <2>4. arg[c] <= Given
    BY <2>1, <2>3, Zenon DEF WaitInv
  <2>5. arg'[c] = arg[c]
    BY <2>1, Zenon
  <2> QED
    BY <1>1, <2>2, <2>4, <2>5
<1>r. \A e \in Queued : HasResult(e) => e <= Given
  BY Zenon DEF WaitInv
<1>3. ASSUME NEW e \in Queued', HasResult(e)' PROVE e <= Given'
  <2>1. CASE UNCHANGED <<kind, result>>
    <3>1. e \in Queued /\ HasResult(e)
      BY <1>3, <2>1, Zenon DEF Queued, HasResult
    <3> QED
      BY <1>1, <1>r, <3>1
  <2>2. ASSUME NEW k \in {"cmdlist", "present"}, Push(k) PROVE e <= Given'
    <3>1. Queued' = Queued \cup {Len(kind) + 1} /\ result' = Append(result, "not ready")
      BY <2>2, PushTypes DEF Push
    <3>2. result'[Len(kind) + 1] = "not ready" /\ \A i \in Queued : result'[i] = result[i]
      <4> DEFINE unset == "not ready"
      <4>1. result' = Append(result, unset)
        BY <3>1
      <4> HIDE DEF unset
      <4>2. result'[Len(kind) + 1] = unset /\ \A i \in Queued : result'[i] = result[i]
        BY <1>1, <4>1
      <4> QED
        BY <4>2 DEF unset
    <3>3. e # Len(kind) + 1 /\ e \in Queued
      BY <1>3, <3>1, <3>2, Zenon DEF HasResult
    <3>4. HasResult(e)
      BY <1>3, <3>2, <3>3, Zenon DEF HasResult
    <3> QED
      BY <1>1, <1>r, <3>3, <3>4
  <2>3. CASE SubmitStatus
    <3>1. /\ submitPc = "status" /\ Head(submitQueue) = Submitted + 1 /\ kind' = kind
          /\ result' = [result EXCEPT ![Head(submitQueue)] = outcome]
      BY <2>3, SubmitFront DEF SubmitStatus
    <3>2. Given = Submitted + 1
      <4>1. FrontGiven
        BY <3>1, Zenon DEF FrontGiven
      <4> QED
        BY <4>1, GivenFacts
    <3>3. e \in Queued /\ (e # Given => result'[e] = result[e])
      BY <1>1, <3>1, <3>2 DEF Queued
    <3>4. e = Given \/ HasResult(e)
      BY <1>3, <3>3, Zenon DEF HasResult
    <3> QED
      BY <1>1, <1>r, <3>3, <3>4
  <2>4. CASE ThreadStep
    BY <2>1, <2>3, <2>4 DEF ThreadStep, SubmitTake, SubmitExit, SubmitCheck, SubmitToGpu,
       SubmitForward, SubmitDrop, SubmitFail, FinishTake, FinishExit, FinishFence, FinishLost,
       FinishFail, Finish, FinishNotify, FinishPop, FinishRecycle, GpuComplete, GpuLose, queueVars
  <2> QED
    BY <2>1, <2>2, <2>4, StepCases DEF Quiet, Stopping, queueVars
<1> QED
  BY <1>2, <1>3, Zenon DEF WaitInv

LEMMA ContractInvariance == Spec => []ContractInv
<1>1. Init => WaitInv
  <2> SUFFICES ASSUME Init PROVE WaitInv
    OBVIOUS
  <2>1. Queued = {}
    BY DEF Init, Queued
  <2>2. \A c \in Callers : pc[c] # "lock queue"
    BY Zenon DEF Init
  <2> QED
    BY <2>1, <2>2, Zenon DEF WaitInv
<1>2. IInv /\ WaitInv /\ [Next]_vars => WaitInv'
  BY WaitStep
<1> QED
  BY <1>1, <1>2, Invariance, PTL DEF Spec, ContractInv

\* Status is a sequence that knows what each entry was given for.
LEMMA StatusFacts ==
  ASSUME IInv
  PROVE  /\ Status \in Seq(Results) /\ Len(Status) = Given
         /\ \A e \in 1 .. Given :
              Status[e] = IF submitPc = "status" /\ e = Given THEN outcome ELSE result[e]
<1>1. Given \in Nat /\ Given <= Len(kind) /\ Len(kind) \in Nat
  BY GivenFacts
<1>2. \A e \in 1 .. Given : result[e] \in Results
  BY <1>1 DEF IInv, PlaceInv
<1>3. outcome \in Results
  BY DEF IInv, TypeOK
<1>4. Status \in [1 .. Given -> Results]
  BY <1>2, <1>3 DEF Status
<1> QED
  BY <1>1, <1>4 DEF Status

\* Status stays when what is known of the given entries stays.
LEMMA StatusKept ==
  ASSUME Given' = Given,
         \A e \in 1 .. Given : (IF submitPc' = "status" /\ e = Given THEN outcome' ELSE result'[e])
                                = (IF submitPc = "status" /\ e = Given THEN outcome ELSE result[e])
  PROVE  Status' = Status
  BY DEF Status

\* The next entry is given.
LEMMA StatusGiven ==
  ASSUME IInv, Given' = Given + 1, result' = result, submitPc # "status", submitPc' = "status",
         outcome' \in Results
  PROVE  Status' = Append(Status, outcome')
<1>1. Given \in Nat /\ Status \in Seq(Results) /\ Len(Status) = Given
  BY GivenFacts, StatusFacts
<1>2. Status' = [e \in 1 .. Given + 1 |-> IF e = Given + 1 THEN outcome' ELSE result[e]]
  BY DEF Status
<1>3. \A e \in 1 .. Given : Status[e] = result[e] /\ Status[e] \in Results
  BY <1>1, ElementOfSeq DEF Status
<1>4. Status' \in Seq(Results) /\ Len(Status') = Given + 1
  BY <1>1, <1>2, <1>3
<1>5. /\ Append(Status, outcome') \in Seq(Results) /\ Len(Append(Status, outcome')) = Given + 1
      /\ \A i \in 1 .. Given : Append(Status, outcome')[i] = Status[i]
      /\ Append(Status, outcome')[Given + 1] = outcome'
  BY <1>1, AppendProperties
<1>6. \A i \in 1 .. Given + 1 : Status'[i] = Append(Status, outcome')[i]
  BY <1>1, <1>2, <1>3, <1>5
<1> QED
  BY <1>4, <1>5, <1>6, SeqEqual

LEMMA StatusQuiet ==
  ASSUME UNCHANGED <<kind, submitQueue, result, submitPc, outcome>>
  PROVE  Status' = Status /\ Given' = Given
<1>1. Given' = Given
  BY DEF Given, FrontGiven
<1> QED
  BY <1>1, StatusKept

LEMMA StatusPushed ==
  ASSUME IInv, NEW k \in {"cmdlist", "present"}, Push(k)
  PROVE  Status' = Status /\ Given' = Given
<1>1. /\ Len(kind) \in Nat /\ Given \in Nat /\ Given <= Len(kind)
      /\ Len(submitQueue) \in Nat /\ result \in Seq(Results) /\ Len(result) = Len(kind)
  BY GivenFacts DEF IInv, PlaceInv
<1>2. /\ Len(kind') = Len(kind) + 1 /\ Len(submitQueue') = Len(submitQueue) + 1
      /\ submitPc' = submitPc /\ outcome' = outcome /\ result' = Append(result, "not ready")
  BY PushTypes DEF Push, submitVars
<1>3. Given' = Given
  <2>1. FrontGiven' <=> FrontGiven
    BY <1>2 DEF FrontGiven
  <2>2. Len(kind') = Len(kind) + 1 /\ Len(submitQueue') = Len(submitQueue) + 1
    BY <1>2, Zenon
  <2> QED
    BY <1>1, <2>1, <2>2 DEF Given
<1>4. \A e \in 1 .. Given : result'[e] = result[e]
  <2> DEFINE unset == "not ready"
  <2>1. result' = Append(result, unset)
    BY <1>2
  <2> HIDE DEF unset
  <2> QED
    BY <1>1, <2>1
<1> QED
  BY <1>2, <1>3, <1>4, StatusKept

\* References are held for entries in the queues only.
LEMMA HeldFacts ==
  ASSUME IInv
  PROVE  /\ \A e \in inUse : e \in Queued /\ (e > Submitted \/ e \in Elems(finishQueue))
         /\ IsFiniteSet(inUse) /\ Cardinality(inUse) \in Nat
         /\ Cardinality(inUse) <= Len(submitQueue) + Len(finishQueue)
         /\ Len(submitQueue) \in Nat /\ Len(finishQueue) \in Nat
<1>1. /\ inUse \subseteq Queued /\ Queued = 1 .. Len(kind) /\ Submitted \in Nat /\ Len(kind) \in Nat
      /\ submitQueue \in Seq(Queued) /\ finishQueue \in Seq(Queued)
  BY GivenFacts DEF IInv, TypeOK
<1>2. ASSUME NEW e \in inUse PROVE e \in Queued /\ (e > Submitted \/ e \in Elems(finishQueue))
  <2>1. e \notin Elems(retired)
    BY DEF IInv, UseInv
  <2>2. e \in 1 .. Submitted => e \in Elems(finishQueue)
    BY <2>1 DEF IInv, PlaceInv
  <2> QED
    BY <1>1, <2>2
<1>3. inUse \subseteq Elems(submitQueue) \cup Elems(finishQueue)
  <2> SUFFICES ASSUME NEW e \in inUse, e \notin Elems(finishQueue) PROVE e \in Elems(submitQueue)
    OBVIOUS
  <2>1. e \in Nat /\ e > Submitted /\ e <= Len(kind)
    BY <1>1, <1>2
  <2>2. Submitted = Len(kind) - Len(submitQueue) /\ Len(submitQueue) \in Nat
    BY GivenFacts DEF Submitted
  <2>3. e - Submitted \in 1 .. Len(submitQueue) /\ DOMAIN submitQueue = 1 .. Len(submitQueue)
    BY <1>1, <2>1, <2>2
  <2>4. submitQueue[e - Submitted] = e
    BY <1>1, <2>1, <2>3 DEF IInv, PlaceInv
  <2> QED
    BY <2>3, <2>4 DEF Elems
<1>4. /\ IsFiniteSet(Elems(submitQueue)) /\ Cardinality(Elems(submitQueue)) <= Len(submitQueue)
      /\ Cardinality(Elems(submitQueue)) \in Nat
      /\ IsFiniteSet(Elems(finishQueue)) /\ Cardinality(Elems(finishQueue)) <= Len(finishQueue)
      /\ Cardinality(Elems(finishQueue)) \in Nat
  BY <1>1, ElemsCard
<1>5. /\ Cardinality(Elems(submitQueue) \cap Elems(finishQueue)) \in Nat
      /\ IsFiniteSet(Elems(submitQueue) \cup Elems(finishQueue))
      /\ Cardinality(Elems(submitQueue) \cup Elems(finishQueue))
           = Cardinality(Elems(submitQueue)) + Cardinality(Elems(finishQueue))
             - Cardinality(Elems(submitQueue) \cap Elems(finishQueue))
  BY <1>4, FS_Union, FS_Subset, FS_CardinalityType
<1>6. /\ IsFiniteSet(inUse) /\ Cardinality(inUse) \in Nat
      /\ Cardinality(inUse) <= Cardinality(Elems(submitQueue) \cup Elems(finishQueue))
  BY <1>3, <1>5, FS_Subset, FS_CardinalityType
<1>7. Len(submitQueue) \in Nat /\ Len(finishQueue) \in Nat
  BY <1>1
<1> QED
  BY <1>2, <1>4, <1>5, <1>6, <1>7

\* What a call waits for, by the label it stands at.
LEMMA WaitOfFacts ==
  ASSUME NEW l, NEW e
  PROVE  /\ l \in ForSubmission => WaitOf(l, e) = [for |-> "submission", entry |-> e]
         /\ l \in ForRelease => WaitOf(l, e) = [for |-> "release", entry |-> e]
         /\ l \in ForIdle => WaitOf(l, e) = [for |-> "idle", entry |-> e]
         /\ l \notin ForSubmission \cup ForRelease \cup ForIdle => WaitOf(l, e) = Contract!NoWait
<1>1. ForSubmission \cap ForRelease = {} /\ ForSubmission \cap ForIdle = {} /\ ForRelease \cap ForIdle = {}
  BY Zenon DEF ForSubmission, ForRelease, ForIdle
<1> QED
  BY <1>1 DEF WaitOf, Contract!NoWait

LEMMA WaitsKept ==
  ASSUME UNCHANGED <<pc, arg>>
  PROVE  WaitsFor' = WaitsFor
  BY DEF WaitsFor

\* The call of one caller goes on.
LEMMA WaitsMove ==
  ASSUME IInv, NEW c \in Callers, NEW l, pc' = [pc EXCEPT ![c] = l],
         \A d \in Callers \ {c} : arg'[d] = arg[d]
  PROVE  /\ WaitsFor[c] = WaitOf(pc[c], arg[c])
         /\ WaitsFor' = [WaitsFor EXCEPT ![c] = WaitOf(l, arg'[c])]
<1>1. pc \in [Callers -> CallPcs] /\ arg \in [Callers -> Queued \cup {0}]
  BY DEF IInv, TypeOK
<1>2. pc'[c] = l /\ \A d \in Callers \ {c} : pc'[d] = pc[d]
  BY <1>1
<1>3. WaitsFor' = [d \in Callers |-> WaitOf(pc'[d], arg'[d])]
  BY DEF WaitsFor
<1>4. \A d \in Callers : WaitOf(pc'[d], arg'[d])
                         = IF d = c THEN WaitOf(l, arg'[c]) ELSE WaitOf(pc[d], arg[d])
  BY <1>2
<1>5. [WaitsFor EXCEPT ![c] = WaitOf(l, arg'[c])]
        = [d \in Callers |-> IF d = c THEN WaitOf(l, arg'[c]) ELSE WaitOf(pc[d], arg[d])]
  BY DEF WaitsFor
<1> QED
  BY <1>3, <1>4, <1>5 DEF WaitsFor

\* It still waits for the same, or for nothing.
LEMMA WaitsOn ==
  ASSUME IInv, NEW c \in Callers, NEW l, pc' = [pc EXCEPT ![c] = l],
         \A d \in Callers \ {c} : arg'[d] = arg[d],
         WaitOf(l, arg'[c]) = WaitOf(pc[c], arg[c])
  PROVE  WaitsFor' = WaitsFor
<1>1. WaitsFor[c] = WaitOf(pc[c], arg[c]) /\ WaitsFor' = [WaitsFor EXCEPT ![c] = WaitOf(l, arg'[c])]
  BY WaitsMove
<1>2. WaitsFor = [WaitsFor EXCEPT ![c] = WaitsFor[c]]
  BY DEF WaitsFor
<1> QED
  BY <1>1, <1>2

\* All that the contract knows, but for what calls wait for.
CoreKept == UNCHANGED <<kind, Status, onGpu, gpuLost, inUse, recycled>>

\* A call begins to wait.
LEMMA ContractWait ==
  ASSUME IInv, NEW c \in Callers, NEW l, pc' = [pc EXCEPT ![c] = l],
         \A d \in Callers \ {c} : arg'[d] = arg[d],
         WaitOf(pc[c], arg[c]) = Contract!NoWait, CoreKept,
         arg'[c] \in 0 .. Len(kind), l \in ForSubmission \cup ForRelease \cup ForIdle,
         l \in ForIdle => arg'[c] = Len(kind)
  PROVE  Contract!Wait(c)
<1>1. WaitsFor[c] = Contract!NoWait /\ WaitsFor' = [WaitsFor EXCEPT ![c] = WaitOf(l, arg'[c])]
  BY WaitsMove
<1>2. PICK for \in {"submission", "release", "idle"} :
        WaitOf(l, arg'[c]) = [for |-> for, entry |-> arg'[c]] /\ (for = "idle" => l \in ForIdle)
  BY WaitOfFacts
<1> QED
  BY <1>1, <1>2 DEF Contract!Wait, CoreKept

\* A call returns that has seen what it waits for.
LEMMA ContractReturn ==
  ASSUME IInv, NEW c \in Callers, NEW l, pc' = [pc EXCEPT ![c] = l],
         \A d \in Callers \ {c} : arg'[d] = arg[d],
         WaitOf(l, arg'[c]) = Contract!NoWait, CoreKept,
         pc[c] \in ForSubmission \cup ForRelease \cup ForIdle,
         pc[c] \in ForSubmission => arg[c] <= Given,
         pc[c] \in ForRelease => arg[c] \notin inUse,
         pc[c] \in ForIdle => (\A e \in inUse : e > arg[c]) /\ (onGpu = {} \/ gpuLost)
  PROVE  Contract!Return(c)
<1>1. /\ WaitsFor[c] = WaitOf(pc[c], arg[c])
      /\ WaitsFor' = [WaitsFor EXCEPT ![c] = Contract!NoWait]
  BY WaitsMove
<1>2. Len(Status) = Given
  BY StatusFacts
<1>3. Contract!Satisfied(WaitsFor[c]) /\ WaitsFor[c] # Contract!NoWait
  <2>1. CASE pc[c] \in ForSubmission
    <3>1. WaitsFor[c] = [for |-> "submission", entry |-> arg[c]]
      BY <1>1, <2>1, WaitOfFacts
    <3> QED
      BY <1>2, <2>1, <3>1 DEF Contract!Satisfied, Contract!NoWait
  <2>2. CASE pc[c] \in ForRelease
    <3>1. WaitsFor[c] = [for |-> "release", entry |-> arg[c]]
      BY <1>1, <2>2, WaitOfFacts
    <3> QED
      BY <2>2, <3>1 DEF Contract!Satisfied, Contract!NoWait
  <2>3. CASE pc[c] \in ForIdle
    <3>1. WaitsFor[c] = [for |-> "idle", entry |-> arg[c]]
      BY <1>1, <2>3, WaitOfFacts
    <3> QED
      BY <2>3, <3>1 DEF Contract!Satisfied, Contract!NoWait
  <2> QED
    BY <2>1, <2>2, <2>3
<1> QED
  BY <1>1, <1>3 DEF Contract!Return, CoreKept

\* Labels of calls that wait for nothing that others must do first, or that
\* wait for room.
Free == {"idle", "submit", "queue locked", "stop", "join", "gone"}

LEMMA FreeWaits ==
  ASSUME NEW l \in Free, NEW e
  PROVE  WaitOf(l, e) = Contract!NoWait
<1>1. l \notin ForSubmission \cup ForRelease \cup ForIdle
  BY Zenon DEF Free, ForSubmission, ForRelease, ForIdle
<1> QED
  BY <1>1, WaitOfFacts

LEMMA GotoFacts ==
  ASSUME IInv, NEW c \in Callers, NEW l, Goto(c, l)
  PROVE  /\ pc' = [pc EXCEPT ![c] = l]
         /\ \A d \in Callers \ {c} : arg'[d] = arg[d]
         /\ l # "idle" => arg'[c] = arg[c]
<1>1. arg \in [Callers -> Queued \cup {0}]
  BY DEF IInv, TypeOK
<1> QED
  BY <1>1 DEF Goto

\* The call goes on and still waits for the same.
LEMMA StillWaits ==
  ASSUME IInv, NEW c \in Callers, NEW l, Goto(c, l), l # "idle",
         \/ pc[c] \in ForSubmission /\ l \in ForSubmission
         \/ pc[c] \in ForRelease /\ l \in ForRelease
         \/ pc[c] \in ForIdle /\ l \in ForIdle
  PROVE  WaitsFor' = WaitsFor
<1>1. /\ pc' = [pc EXCEPT ![c] = l] /\ arg'[c] = arg[c]
      /\ \A d \in Callers \ {c} : arg'[d] = arg[d]
  BY GotoFacts
<1>2. WaitOf(l, arg'[c]) = WaitOf(pc[c], arg[c])
  BY <1>1, WaitOfFacts
<1> QED
  BY <1>1, <1>2, WaitsOn

LEMMA StillFree ==
  ASSUME IInv, NEW c \in Callers, NEW l, Goto(c, l), pc[c] \in Free, l \in Free
  PROVE  WaitsFor' = WaitsFor
<1>1. pc' = [pc EXCEPT ![c] = l] /\ \A d \in Callers \ {c} : arg'[d] = arg[d]
  BY GotoFacts
<1>2. WaitOf(l, arg'[c]) = WaitOf(pc[c], arg[c])
  BY FreeWaits
<1> QED
  BY <1>1, <1>2, WaitsOn

LEMMA Returns ==
  ASSUME IInv, NEW c \in Callers, NEW l \in Free, Goto(c, l), CoreKept,
         pc[c] \in ForSubmission \cup ForRelease \cup ForIdle,
         pc[c] \in ForSubmission => arg[c] <= Given,
         pc[c] \in ForRelease => arg[c] \notin inUse,
         pc[c] \in ForIdle => (\A e \in inUse : e > arg[c]) /\ (onGpu = {} \/ gpuLost)
  PROVE  Contract!Return(c)
<1>1. pc' = [pc EXCEPT ![c] = l] /\ \A d \in Callers \ {c} : arg'[d] = arg[d]
  BY GotoFacts
<1>2. WaitOf(l, arg'[c]) = Contract!NoWait
  BY FreeWaits
<1> QED
  BY <1>1, <1>2, ContractReturn

\* Entry 0 stands for a call of an empty queue.
LEMMA SeenGiven ==
  ASSUME IInv, NEW c \in Callers, arg[c] \in Queued => arg[c] <= Given
  PROVE  arg[c] <= Given
<1>1. arg[c] \in Queued \cup {0} /\ Given \in Nat
  BY GivenFacts DEF IInv, TypeOK
<1> QED
  BY <1>1

LEMMA RetiredReleased ==
  ASSUME IInv, NEW c \in Callers, 1 .. arg[c] \subseteq Elems(retired)
  PROVE  \A e \in inUse : e > arg[c]
<1>1. Elems(retired) \cap inUse = {} /\ inUse \subseteq Queued
  BY DEF IInv, UseInv, TypeOK
<1>2. Queued = 1 .. Len(kind) /\ Len(kind) \in Nat /\ arg[c] \in Queued \cup {0}
  BY GivenFacts DEF IInv, TypeOK
<1> QED
  BY <1>1, <1>2

\* What a call returns with: it has seen the result of its entry, ...
LEMMA ResultSeen ==
  ASSUME IInv, WaitInv, NEW c \in Callers, HasResult(arg[c]) \/ pc[c] = "lock queue"
  PROVE  arg[c] <= Given
<1>1. arg[c] \in Queued => arg[c] <= Given
  BY Zenon DEF WaitInv
<1> QED
  BY <1>1, SeenGiven, Zenon

\* ... or both queues empty.
LEMMA IdleSeen ==
  ASSUME IInv, NEW c \in Callers, pc[c] = "idle gpu"
  PROVE  \A e \in inUse : e > arg[c]
<1>1. 1 .. arg[c] \subseteq Elems(retired)
  BY Zenon DEF IInv, CallInv, IdlePcs
<1> QED
  BY <1>1, RetiredReleased, Zenon

\* Calls of callers that change nothing but where they stand.
LEMMA CoreQuiet ==
  ASSUME Quiet
  PROVE  CoreKept
<1>1. Status' = Status
  BY StatusQuiet DEF Quiet, queueVars, submitVars
<1> QED
  BY <1>1 DEF CoreKept, Quiet, queueVars, gpuVars

\* A push is accepted; only the test for room differs between the kinds.
LEMMA ContractAccept ==
  ASSUME IInv, NEW k \in {"cmdlist", "present"}, Push(k), WaitsFor' = WaitsFor,
         k = "cmdlist" => Cardinality(inUse) <= MaxQueued
  PROVE  Contract!Accept(k)
<1>1. /\ kind' = Append(kind, k) /\ inUse' = inUse \cup {Len(kind) + 1}
      /\ UNCHANGED <<onGpu, gpuLost, recycled>>
  BY Zenon DEF Push
<1>2. Status' = Status
  BY StatusPushed
<1>3. Contract!Cardinality(inUse) = Cardinality(inUse)
  BY Zenon DEF Contract!Cardinality, Cardinality
<1> QED
  BY <1>1, <1>2, <1>3 DEF Contract!Accept

LEMMA AnyEntry ==
  ASSUME NEW n \in Nat, NEW e \in 1 .. n \cup {n}
  PROVE  e \in 0 .. n
  OBVIOUS

\* A call begins: it waits for what others must do, or for nothing yet.
LEMMA ContractBegin ==
  ASSUME IInv, NEW c \in Callers, NEW op, Call(c, op) \/ (Close(c) /\ op = "idle submit"),
         op \in {"submit", "poll status", "poll resource", "synchronize", "idle submit"}
  PROVE  Contract!Wait(c) \/ (CoreKept /\ WaitsFor' = WaitsFor)
<1>1. pc[c] \in Free /\ pc' = [pc EXCEPT ![c] = op]
  BY Zenon DEF Call, Close, MayCall, Free
<1>2. arg \in [Callers -> Queued \cup {0}] /\ Queued = 1 .. Len(kind) /\ Len(kind) \in Nat
  BY GivenFacts DEF IInv, TypeOK
<1>3. PICK e \in 1 .. Len(kind) \cup {Len(kind)} :
        arg' = [arg EXCEPT ![c] = e] /\ (op = "idle submit" => e = Len(kind))
  BY Zenon DEF Call, Close
<1>4. CoreKept
  BY CoreQuiet, Zenon DEF Call, Close, Quiet
<1>5. arg'[c] = e /\ \A d \in Callers \ {c} : arg'[d] = arg[d]
  BY <1>2, <1>3, Zenon
<1>6. WaitOf(pc[c], arg[c]) = Contract!NoWait
  BY <1>1, FreeWaits
<1>7. CASE op \in Free
  <2>1. WaitOf(op, arg'[c]) = WaitOf(pc[c], arg[c])
    BY <1>6, <1>7, FreeWaits, Zenon
  <2> QED
    BY <1>1, <1>4, <1>5, <2>1, WaitsOn, Zenon
<1>8. CASE op \notin Free
  <2>1. op \in ForSubmission \cup ForRelease \cup ForIdle /\ (op \in ForIdle => op = "idle submit")
    BY <1>8, Zenon DEF Free, ForSubmission, ForRelease, ForIdle
  <2>2. e \in 0 .. Len(kind)
    BY <1>2, <1>3, AnyEntry, Zenon
  <2> QED
    BY <1>1, <1>3, <1>4, <1>5, <1>6, <2>1, <2>2, ContractWait, Zenon
<1> QED
  BY <1>7, <1>8, Zenon

\* One step of a call is one of the contract, or a stutter.
LEMMA ContractCall ==
  ASSUME IInv, WaitInv, NEW c \in Callers, CallStep(c)
  PROVE  \/ Contract!Accept("cmdlist") \/ Contract!Return(c)
         \/ CoreKept /\ WaitsFor' = WaitsFor
<1>1. CASE Submit(c)
  <2>1. Push("cmdlist") /\ Goto(c, "idle") /\ pc[c] \in Free /\ "idle" \in Free
    BY <1>1, Zenon DEF Submit, Free
  <2>2. WaitsFor' = WaitsFor
    BY <2>1, StillFree, Zenon
  <2>3. Len(submitQueue) + Len(finishQueue) <= MaxQueued /\ MaxQueued \in Nat
    BY <1>1, QueueAssumption, Zenon DEF Submit, SomeRoom
  <2>4. Cardinality(inUse) <= MaxQueued
    BY <2>3, HeldFacts
  <2> QED
    BY <2>1, <2>2, <2>4, ContractAccept, Zenon
<1>2. CASE Quiet /\ pc' = pc /\ arg' = arg
  BY <1>2, CoreQuiet, WaitsKept, Zenon
<1>3. CASE SubmitFull(c) \/ StatusNotReady(c) \/ ResourceBusy(c) \/ SynchronizeBusy(c) \/ IdleBusy(c)
  BY <1>2, <1>3, Zenon DEF SubmitFull, StatusNotReady, ResourceBusy, SynchronizeBusy, IdleBusy,
     FallAsleep, Quiet, callVars
<1>4. ASSUME NEW from, NEW to, Move(c, from, to)
      PROVE  CoreKept /\ Goto(c, to) /\ pc[c] = from
  BY <1>4, CoreQuiet, Zenon DEF Move, Quiet
<1>5. CASE PollStatus(c) \/ StatusReady(c)
  <2>1. CASE HasResult(arg[c])
    <3>1. Move(c, pc[c], "idle") /\ pc[c] \in {"poll status", "status"}
      BY <1>5, <2>1, Zenon DEF PollStatus, StatusReady, Move, HasResult
    <3>2. pc[c] \in ForSubmission /\ pc[c] \notin ForRelease \cup ForIdle /\ "idle" \in Free
      BY <3>1, Zenon DEF ForSubmission, ForRelease, ForIdle, Free
    <3>3. arg[c] <= Given
      BY <2>1, ResultSeen, Zenon
    <3> QED
      BY <1>4, <3>1, <3>2, <3>3, Returns, Zenon
  <2>2. CASE ~HasResult(arg[c])
    <3>1. Move(c, "poll status", "status")
      BY <1>5, <2>2, Zenon DEF PollStatus, StatusReady, HasResult
    <3>2. "poll status" \in ForSubmission /\ "status" \in ForSubmission /\ "status" # "idle"
      BY Zenon DEF ForSubmission
    <3> QED
      BY <1>4, <3>1, <3>2, StillWaits, Zenon
  <2> QED
    BY <2>1, <2>2, Zenon
<1>6. CASE PollResource(c) \/ ResourceFree(c)
  <2>1. CASE arg[c] \notin inUse
    <3>1. Move(c, pc[c], "idle") /\ pc[c] \in {"poll resource", "resource"}
      BY <1>6, <2>1, Zenon DEF PollResource, ResourceFree, Move
    <3>2. pc[c] \in ForRelease /\ pc[c] \notin ForSubmission \cup ForIdle /\ "idle" \in Free
      BY <3>1, Zenon DEF ForSubmission, ForRelease, ForIdle, Free
    <3> QED
      BY <1>4, <2>1, <3>1, <3>2, Returns, Zenon
  <2>2. CASE arg[c] \in inUse
    <3>1. Move(c, "poll resource", "resource")
      BY <1>6, <2>2, Zenon DEF PollResource, ResourceFree
    <3>2. "poll resource" \in ForRelease /\ "resource" \in ForRelease /\ "resource" # "idle"
      BY Zenon DEF ForRelease
    <3> QED
      BY <1>4, <3>1, <3>2, StillWaits, Zenon
  <2> QED
    BY <2>1, <2>2, Zenon
<1>7. CASE Synchronize(c)
  <2>1. Move(c, "synchronize", "lock queue")
    BY <1>7, Zenon DEF Synchronize
  <2>2. "synchronize" \in ForSubmission /\ "lock queue" \in ForSubmission /\ "lock queue" # "idle"
    BY Zenon DEF ForSubmission
  <2> QED
    BY <1>4, <2>1, <2>2, StillWaits, Zenon
<1>8. CASE LockDeviceQueue(c)
  <2>1. CoreKept
    BY <1>8, CoreQuiet, Zenon DEF LockDeviceQueue, Quiet
  <2>2. CASE pc[c] = "lock queue"
    <3>1. Goto(c, "queue locked") /\ "queue locked" \in Free
      BY <1>8, <2>2, Zenon DEF LockDeviceQueue, Free
    <3>2. pc[c] \in ForSubmission /\ pc[c] \notin ForRelease \cup ForIdle
      BY <2>2, Zenon DEF ForSubmission, ForRelease, ForIdle
    <3>3. arg[c] <= Given
      BY <2>2, ResultSeen, Zenon
    <3> QED
      BY <2>1, <3>1, <3>2, <3>3, Returns, Zenon
  <2>3. CASE pc[c] # "lock queue"
    <3>1. Goto(c, "idle gpu") /\ pc[c] = "idle lock"
      BY <1>8, <2>3, Zenon DEF LockDeviceQueue
    <3>2. pc[c] \in ForIdle /\ "idle gpu" \in ForIdle /\ "idle gpu" # "idle"
      BY <3>1, Zenon DEF ForIdle
    <3> QED
      BY <2>1, <3>1, <3>2, StillWaits, Zenon
  <2> QED
    BY <2>2, <2>3, Zenon
<1>9. CASE IdleSubmitted(c) \/ IdleFinished(c)
  <2>1. PICK l \in {"idle lock", "idle finish"} : Goto(c, l)
    BY <1>9, Zenon DEF IdleSubmitted, IdleFinished, Move
  <2>2. pc[c] \in ForIdle /\ l \in ForIdle /\ l # "idle"
    BY <1>9, <2>1, Zenon DEF IdleSubmitted, IdleFinished, Move, ForIdle
  <2>3. CoreKept
    BY <1>9, CoreQuiet, Zenon DEF IdleSubmitted, IdleFinished, Move, Quiet
  <2> QED
    BY <2>1, <2>2, <2>3, StillWaits, Zenon
<1>10. CASE IdleGpu(c)
  <2>1. PICK l \in {"stop", "idle"} : Goto(c, l)
    BY <1>10, Zenon DEF IdleGpu
  <2>2. pc[c] \in ForIdle /\ pc[c] \notin ForSubmission \cup ForRelease /\ l \in Free
    BY <1>10, <2>1, Zenon DEF IdleGpu, ForSubmission, ForRelease, ForIdle, Free
  <2>3. (\A e \in inUse : e > arg[c]) /\ (onGpu = {} \/ gpuLost)
    BY <1>10, IdleSeen, Zenon DEF IdleGpu
  <2>4. CoreKept
    BY <1>10, CoreQuiet, Zenon DEF IdleGpu, Quiet
  <2> QED
    BY <2>1, <2>2, <2>3, <2>4, Returns, Zenon
<1>11. CASE UnlockDeviceQueue(c) \/ Stop(c) \/ Join(c)
  <2>1. PICK l \in {"idle", "join", "gone"} : Goto(c, l)
    BY <1>11, Zenon DEF UnlockDeviceQueue, Stop, Join, Move
  <2>2. pc[c] \in Free /\ l \in Free
    BY <1>11, <2>1, Zenon DEF UnlockDeviceQueue, Stop, Join, Move, Free
  <2>3. UNCHANGED <<kind, submitQueue, result, submitPc, outcome, onGpu, gpuLost, inUse, recycled>>
    BY <1>11, Zenon DEF UnlockDeviceQueue, Stop, Join, Move, queueVars, gpuVars, submitVars
  <2>4. CoreKept
    BY <2>3, StatusQuiet, Zenon DEF CoreKept
  <2> QED
    BY <2>1, <2>2, <2>4, StillFree, Zenon
<1> QED
  BY <1>1, <1>3, <1>5, <1>6, <1>7, <1>8, <1>9, <1>10, <1>11, Zenon DEF CallStep

\* A step of the two threads or of the GPU.
LEMMA ContractThread ==
  ASSUME IInv, ThreadStep
  PROVE  \/ \E r \in {"success", "lost", "error"} : Contract!Give(r)
         \/ Contract!Complete \/ Contract!Lose
         \/ \E e \in 1 .. Len(kind) : Contract!Release(e) \/ Contract!Recycle(e)
         \/ CoreKept /\ WaitsFor' = WaitsFor
<1>0. /\ Len(kind) \in Nat /\ Queued = 1 .. Len(kind) /\ Submitted \in Nat /\ Given \in Nat
      /\ Len(submitQueue) \in Nat /\ Status \in Seq(Results) /\ Len(Status) = Given
  BY GivenFacts, StatusFacts
<1>1. UNCHANGED callVars
  BY Progress
<1>2. WaitsFor' = WaitsFor
  BY <1>1, WaitsKept, Zenon DEF callVars
<1>3. ASSUME UNCHANGED <<kind, submitQueue, result, submitPc, outcome>>
      PROVE  Status' = Status
  BY <1>3, StatusQuiet, Zenon
<1>4. CASE SubmitTake \/ SubmitExit
  <2>1. /\ UNCHANGED <<kind, submitQueue, result, onGpu, gpuLost, inUse, recycled>>
        /\ submitPc = "wait" /\ submitPc' \in {"submit", "exit"}
    BY <1>4, Zenon DEF SubmitTake, SubmitExit, queueVars, gpuVars
  <2>2. ~FrontGiven /\ ~FrontGiven' /\ submitPc # "status" /\ submitPc' # "status"
    BY <2>1, Zenon DEF FrontGiven
  <2>3. Given' = Given
    BY <2>1, <2>2 DEF Given
  <2>4. Status' = Status
    BY <2>1, <2>2, <2>3, StatusKept
  <2> QED
    BY <1>2, <2>1, <2>4, Zenon DEF CoreKept
<1>5. CASE SubmitCheck \/ SubmitToGpu
  <2>1. /\ UNCHANGED <<kind, submitQueue, result, gpuLost, inUse, recycled>>
        /\ submitPc \in {"submit", "queue"} /\ submitPc' \in {"queue", "status"}
    BY <1>5, Zenon DEF SubmitCheck, SubmitToGpu, queueVars, gpuVars
  <2>2. ~FrontGiven /\ submitPc # "status" /\ (FrontGiven' <=> submitPc' = "status")
    BY <2>1, Zenon DEF FrontGiven
  <2>3. submitQueue # <<>> /\ Head(submitQueue) = Submitted + 1 /\ Head(submitQueue) \in Queued
    BY <2>1, SubmitFront
  <2>4. Given = Submitted
    BY <2>2 DEF Given, Submitted
  <2>5. CASE submitPc' = "queue"
    <3>1. Given' = Given
      BY <2>1, <2>2, <2>5 DEF Given
    <3>2. Status' = Status
      BY <2>1, <2>2, <2>5, <3>1, StatusKept
    <3>3. onGpu' = onGpu
      BY <1>5, <2>5, Zenon DEF SubmitCheck, SubmitToGpu, gpuVars
    <3> QED
      BY <1>2, <2>1, <3>2, <3>3, Zenon DEF CoreKept
  <2>6. CASE submitPc' = "status"
    <3>1. Given' = Given + 1
      BY <1>0, <2>1, <2>2, <2>4, <2>6 DEF Given
    <3>2. /\ outcome' \in {"success", "lost", "error"} /\ (outcome' = "lost" <=> gpuLost)
          /\ onGpu' = IF outcome' = "success" /\ kind[Head(submitQueue)] = "cmdlist"
                      THEN onGpu \cup {Head(submitQueue)} ELSE onGpu
      <4>1. CASE SubmitCheck
        <5>1. outcome' = "lost" /\ lastError = "lost" /\ onGpu' = onGpu
          BY <2>6, <4>1 DEF SubmitCheck, gpuVars
        <5>3. gpuLost
          BY <5>1, Zenon DEF IInv, ThreadInv
        <5> QED
          BY <5>1, <5>3
      <4>2. CASE SubmitToGpu
        <5>1. /\ outcome' \in IF gpuLost THEN {"lost"}
                               ELSE IF kind[Head(submitQueue)] = "present" THEN {"success", "error"}
                               ELSE {"success"} \cup (Failures \ {"lost"})
              /\ onGpu' = IF outcome' = "success" /\ kind[Head(submitQueue)] = "cmdlist"
                          THEN onGpu \cup {Head(submitQueue)} ELSE onGpu
          BY <4>2, Zenon DEF SubmitToGpu
        <5>2. Failures \subseteq {"lost", "error"}
          BY QueueAssumption
        <5> QED
          BY <5>1, <5>2
      <4> QED
        BY <1>5, <4>1, <4>2
    <3>3. outcome' \in Results
      BY <3>2, Zenon DEF Results
    <3>4. Status' = Append(Status, outcome')
      BY <2>1, <2>2, <2>6, <3>1, <3>3, StatusGiven
    <3>5. Len(Status) + 1 = Head(submitQueue) /\ Len(Status) + 1 <= Len(kind)
      BY <1>0, <2>3, <2>4
    <3>6. Contract!Give(outcome')
      BY <1>2, <2>1, <3>2, <3>4, <3>5 DEF Contract!Give
    <3> QED
      BY <3>2, <3>6
  <2> QED
    BY <2>1, <2>5, <2>6
<1>6. CASE SubmitStatus
  <2>1. /\ UNCHANGED <<kind, submitQueue, outcome, onGpu, gpuLost, inUse, recycled>>
        /\ submitPc = "status" /\ submitPc' = "relock"
        /\ result' = [result EXCEPT ![Head(submitQueue)] = outcome]
    BY <1>6, Zenon DEF SubmitStatus, gpuVars
  <2>2. FrontGiven /\ FrontGiven'
    BY <2>1, Zenon DEF FrontGiven
  <2>3. Given' = Given /\ Given = Submitted + 1 /\ Given <= Len(kind)
    BY <2>1, <2>2, GivenFacts DEF Given
  <2>4. Head(submitQueue) = Given
    BY <2>1, <2>3, SubmitFront
  <2>5. DOMAIN result = 1 .. Len(kind)
    BY LenProperties DEF IInv, PlaceInv
  <2>6. \A e \in 1 .. Given : result'[e] = IF e = Given THEN outcome ELSE result[e]
    BY <1>0, <2>1, <2>3, <2>4, <2>5
  <2>7. Status' = Status
    BY <2>1, <2>3, <2>6, StatusKept
  <2> QED
    BY <1>2, <2>1, <2>7, Zenon DEF CoreKept
<1>7. CASE SubmitFail
  <2>1. /\ UNCHANGED <<kind, submitQueue, result, outcome, onGpu, gpuLost, inUse, recycled>>
        /\ submitPc = "relock" /\ submitPc' # "status" /\ FrontGiven'
    BY <1>7, Zenon DEF SubmitFail, gpuVars, FrontGiven
  <2>2. FrontGiven /\ submitPc # "status"
    BY <2>1, Zenon DEF FrontGiven
  <2>3. Given' = Given
    BY <2>1, <2>2 DEF Given
  <2>4. Status' = Status
    BY <2>1, <2>2, <2>3, StatusKept
  <2> QED
    BY <1>2, <2>1, <2>4, Zenon DEF CoreKept
<1>8. CASE SubmitForward \/ SubmitDrop
  <2>1. /\ UNCHANGED <<kind, result, onGpu, gpuLost, recycled>>
        /\ submitPc = "relock" /\ submitPc' = "wait" /\ submitQueue' = Tail(submitQueue)
    BY <1>8, Zenon DEF SubmitForward, SubmitDrop, gpuVars
  <2>2. FrontGiven /\ ~FrontGiven' /\ submitPc # "status" /\ submitPc' # "status"
    BY <2>1, Zenon DEF FrontGiven
  <2>3. submitQueue # <<>> /\ Head(submitQueue) = Submitted + 1 /\ Head(submitQueue) \in Queued
    BY <2>1, SubmitFront
  <2>4. Len(submitQueue') = Len(submitQueue) - 1
    BY <2>1, <2>3, SubmitTail
  <2>5. Given' = Given /\ Given = Submitted + 1
    BY <1>0, <2>1, <2>2, <2>4, GivenFacts DEF Given
  <2>6. Status' = Status
    BY <2>1, <2>2, <2>5, StatusKept
  <2>7. CASE SubmitForward
    BY <1>2, <2>1, <2>6, <2>7, Zenon DEF CoreKept, SubmitForward, gpuVars
  <2>8. CASE SubmitDrop
    <3>1. inUse' = inUse \ {Head(submitQueue)} /\ outcome = "lost"
      BY <2>8, Zenon DEF SubmitDrop
    <3>2. gpuLost
      BY <3>1, Zenon DEF IInv, ThreadInv
    <3>3. Head(submitQueue) <= Len(Status)
      BY <1>0, <2>3, <2>5
    <3>4. Contract!Release(Head(submitQueue))
      BY <1>2, <2>1, <2>6, <3>1, <3>2, <3>3, Zenon DEF Contract!Release
    <3> QED
      BY <1>0, <2>3, <3>4
  <2> QED
    BY <1>8, <2>7, <2>8
<1>9. CASE FinishTake \/ FinishExit \/ FinishPop
  <2>1. UNCHANGED <<kind, submitQueue, result, submitPc, outcome, onGpu, gpuLost, inUse, recycled>>
    BY <1>9, Zenon DEF FinishTake, FinishExit, FinishPop, queueVars, gpuVars, submitVars
  <2> QED
    BY <1>2, <1>3, <2>1, Zenon DEF CoreKept
<1>10. CASE FinishFence \/ FinishLost \/ FinishFail
  <2>1. UNCHANGED <<kind, submitQueue, result, submitPc, outcome, onGpu, gpuLost, inUse, recycled>>
    BY <1>10, Zenon DEF FinishFence, FinishLost, FinishFail, Finish, gpuVars, submitVars
  <2> QED
    BY <1>2, <1>3, <2>1, Zenon DEF CoreKept
<1>11. CASE FinishNotify
  <2>1. /\ UNCHANGED <<kind, submitQueue, result, submitPc, outcome, onGpu, gpuLost, recycled>>
        /\ inUse' = inUse \ {entry} /\ finishPc \in {"present", "notify"}
    BY <1>11, Zenon DEF FinishNotify, queueVars, submitVars
  <2>2. /\ finishQueue # <<>> /\ entry = finishQueue[1]
        /\ entry \in Queued /\ entry <= Submitted
    BY <2>1, FinishFront
  <2>3. entry \notin onGpu \/ gpuLost
    <3>1. finishPc = "present" => entry \notin onGpu
      BY Zenon DEF IInv, ThreadInv, TypeOK, CmdLists
    <3>2. finishPc = "notify" => entry \notin onGpu \/ gpuLost
      BY Zenon DEF IInv, ThreadInv
    <3> QED
      BY <2>1, <3>1, <3>2
  <2>4. \A f \in inUse : entry <= f
    <3> SUFFICES ASSUME NEW f \in inUse PROVE entry <= f
      OBVIOUS
    <3>1. f \in Queued /\ (f > Submitted \/ f \in Elems(finishQueue))
      BY HeldFacts
    <3>2. finishQueue \in Seq(Queued)
      BY Zenon DEF IInv, TypeOK
    <3>3. CASE f \in Elems(finishQueue)
      <4>1. PICK i \in 1 .. Len(finishQueue) : f = finishQueue[i]
        BY <3>2, <3>3, LenProperties DEF Elems
      <4>2. \A j, k \in 1 .. Len(finishQueue) : j < k => finishQueue[j] < finishQueue[k]
        BY Zenon DEF IInv, PlaceInv
      <4>3. Len(finishQueue) \in Nat \ {0}
        BY <2>2, <3>2
      <4> QED
        BY <1>0, <2>2, <3>1, <4>1, <4>2, <4>3
    <3> QED
      BY <1>0, <2>2, <3>1, <3>3
  <2>5. entry <= Len(Status)
    BY <1>0, <2>2, GivenFacts
  <2>6. Contract!Release(entry)
    BY <1>2, <1>3, <2>1, <2>3, <2>4, <2>5, Zenon DEF Contract!Release
  <2> QED
    BY <1>0, <2>2, <2>6
<1>12. CASE FinishRecycle
  <2>1. /\ UNCHANGED <<kind, submitQueue, result, submitPc, outcome, onGpu, gpuLost, inUse>>
        /\ recycled' = recycled \cup {entry} /\ finishPc = "recycle"
    BY <1>12, Zenon DEF FinishRecycle, queueVars, submitVars
  <2>2. entry \in Queued /\ kind[entry] = "cmdlist" /\ entry \in Elems(retired)
    BY <2>1, Zenon DEF IInv, ThreadInv, CmdLists
  <2>3. entry \notin inUse
    BY <2>2, Zenon DEF IInv, UseInv
  <2>4. Contract!Recycle(entry)
    BY <1>2, <1>3, <2>1, <2>2, <2>3, Zenon DEF Contract!Recycle
  <2> QED
    BY <1>0, <2>2, <2>4
<1>13. CASE GpuComplete
  <2>1. UNCHANGED <<kind, submitQueue, result, submitPc, outcome, gpuLost, inUse, recycled>>
    BY <1>13, Zenon DEF GpuComplete, queueVars, submitVars
  <2>2. Contract!Complete
    BY <1>2, <1>3, <1>13, <2>1, Zenon DEF Contract!Complete, GpuComplete
  <2> QED
    BY <2>2
<1>14. CASE GpuLose
  <2>1. UNCHANGED <<kind, submitQueue, result, submitPc, outcome, onGpu, inUse, recycled>>
    BY <1>14, Zenon DEF GpuLose, queueVars, submitVars
  <2>2. Contract!Lose
    BY <1>2, <1>3, <1>14, <2>1, Zenon DEF Contract!Lose, GpuLose
  <2> QED
    BY <2>2
<1> QED
  BY <1>4, <1>5, <1>6, <1>7, <1>8, <1>9, <1>10, <1>11, <1>12, <1>13, <1>14, Zenon DEF ThreadStep

LEMMA ContractStep ==
  ASSUME IInv, WaitInv, [Next]_vars
  PROVE  [Contract!Next]_(Contract!queueVars)
<1>1. ASSUME CoreKept, WaitsFor' = WaitsFor PROVE UNCHANGED Contract!queueVars
  BY <1>1, Zenon DEF CoreKept, Contract!queueVars
<1>2. ASSUME UNCHANGED <<kind, submitQueue, result, submitPc, outcome, onGpu, gpuLost, inUse, recycled, pc, arg>>
      PROVE  UNCHANGED Contract!queueVars
  <2>1. Status' = Status /\ WaitsFor' = WaitsFor
    BY <1>2, StatusQuiet, WaitsKept, Zenon
  <2> QED
    BY <1>1, <1>2, <2>1, Zenon DEF CoreKept
<1>3. CASE ThreadStep
  BY <1>1, <1>3, ContractThread, Zenon DEF Contract!Next
<1>4. CASE SubmitThread \/ FinishThread \/ GpuComplete \/ GpuLose
  BY <1>2, <1>3, <1>4, Zenon DEF SubmitThread, SubmitWait, FinishThread, FinishWait, FallAsleep,
     ThreadStep, queueVars, gpuVars, submitVars, callVars
<1>5. CASE UNCHANGED vars \/ \E w \in Callers \cup {"submit thread", "finish thread"} : SpuriousWake(w)
  BY <1>2, <1>5, Zenon DEF vars, SpuriousWake, queueVars, gpuVars, submitVars, callVars
<1>6. ASSUME NEW c \in Callers,
             Close(c) \/ \E op \in {"submit", "poll status", "poll resource", "synchronize", "idle submit"} : Call(c, op)
      PROVE  [Contract!Next]_(Contract!queueVars)
  BY <1>1, <1>6, ContractBegin, Zenon DEF Contract!Next
<1>7. ASSUME NEW c \in Callers, Present(c) PROVE Contract!Next
  <2>1. Push("present") /\ UNCHANGED <<pc, arg>>
    BY <1>7, Zenon DEF Present
  <2>2. Contract!Accept("present")
    BY <2>1, WaitsKept, ContractAccept
  <2> QED
    BY <2>2, Zenon DEF Contract!Next
<1>8. ASSUME NEW c \in Callers, CallStep(c) PROVE [Contract!Next]_(Contract!queueVars)
  BY <1>1, <1>8, ContractCall, Zenon DEF Contract!Next
<1> QED
  BY <1>4, <1>5, <1>6, <1>7, <1>8, Zenon DEF Next

\* Whatever callers do and whatever fails, the submission queue is a
\* DeviceQueue: what the rest of DXVK relies on is in that module alone.
THEOREM ImplementsDeviceQueue == Spec => QueueSpec
<1>1. Init => Contract!Init
  <2> SUFFICES ASSUME Init PROVE Contract!Init
    OBVIOUS
  <2>1. /\ kind = <<>> /\ submitQueue = <<>> /\ onGpu = {} /\ gpuLost = FALSE /\ inUse = {}
        /\ recycled = {} /\ submitPc = "wait"
        /\ pc = [c \in Callers |-> "idle"] /\ arg = [c \in Callers |-> 0]
    BY Zenon DEF Init
  <2>2. ~FrontGiven
    BY <2>1, Zenon DEF FrontGiven
  <2>3. Given = 0
    BY <2>1, <2>2 DEF Given
  <2>4. Status = <<>>
    BY <2>3 DEF Status
  <2>5. \A c \in Callers : WaitOf(pc[c], arg[c]) = Contract!NoWait
    <3>1. "idle" \in Free
      BY Zenon DEF Free
    <3> QED
      BY <2>1, <3>1, FreeWaits
  <2>6. WaitsFor = [c \in Callers |-> Contract!NoWait]
    BY <2>5 DEF WaitsFor
  <2> QED
    BY <2>1, <2>4, <2>6, Zenon DEF Contract!Init
<1>2. ContractInv /\ [Next]_vars => [Contract!Next]_(Contract!queueVars)
  BY ContractStep DEF ContractInv
<1> QED
  BY <1>1, <1>2, ContractInvariance, PTL DEF Spec, QueueSpec, Contract!Spec

=============================================================================
