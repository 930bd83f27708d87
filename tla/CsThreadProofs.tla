-------------------------- MODULE CsThreadProofs --------------------------
(***************************************************************************)
(* Theorems about CsThread, for any set of callers, serialised or not, any  *)
(* bound on the chunks and with or without exceptions on the worker; and,   *)
(* below, about the other helper thread with a queue, DeviceFence: for any  *)
(* events and values, with or without failing Vulkan calls.                 *)
(***************************************************************************)
EXTENDS CsThread, DeviceFence, NaturalsInduction, WellFoundedInduction, TLAPS

\* The last chunk whose reference the worker has dropped.
Released == IF csPc = "release" THEN executed - 1 ELSE executed

\* Where every chunk is: ran holds the chunks up to the one that is being
\* counted, local the rest of the batch, queued what has been dispatched since.
OrderInv ==
  /\ Len(ran) = IF csPc = "count" THEN executed + 1 ELSE executed
  /\ Len(ran) <= dispatched
  /\ \A i \in 1 .. Len(ran) : ran[i] = i
  /\ csPc \in {"test", "lock", "block", "sleep", "exit", "dead"} => local = <<>>
  /\ csPc \in {"count", "release"} => local # <<>>
  /\ csPc \notin {"exit", "dead"} =>
       /\ Released \in Nat
       /\ dispatched = Released + Len(local) + Len(queued)
       /\ \A i \in 1 .. Len(local) : local[i] = Released + i
       /\ \A i \in 1 .. Len(queued) : queued[i] = Released + Len(local) + i

Waiting == {"load", "resolve", "lock", "block", "sleep"}

\* What a caller in synchronize() knows of the chunk it must wait for.
SyncInv ==
  \A c \in Callers :
    /\ floor[c] <= dispatched
    /\ pc[c] \in Waiting => floor[c] <= arg[c]
    /\ pc[c] = "done" => floor[c] <= executed

Inv == TypeOK /\ OrderInv /\ SyncInv

-----------------------------------------------------------------------------
LEMMA InitInv == Init => Inv
<1> SUFFICES ASSUME Init PROVE Inv
  OBVIOUS
<1>1. TypeOK
  <2>1. pc \in [Callers -> CallPcs]
    BY DEF Init, CallPcs
  <2>2. arg \in [Callers -> Nat] /\ floor \in [Callers -> Nat]
    BY DEF Init
  <2>3. queued \in Seq(Nat) /\ local \in Seq(Nat) /\ ran \in Seq(Nat)
    BY DEF Init
  <2>4. dispatched \in 0 .. MaxChunks /\ executed \in 0 .. MaxChunks
    BY CsAssumption DEF Init
  <2> QED
    BY <2>1, <2>2, <2>3, <2>4 DEF Init, TypeOK, CsPcs
<1>2. OrderInv
  BY DEF Init, OrderInv, Released
<1>3. SyncInv
  <2>1. ASSUME NEW c \in Callers
        PROVE  floor[c] <= dispatched /\ pc[c] \notin Waiting \cup {"done"}
    BY DEF Init, Waiting
  <2> QED
    BY <2>1 DEF SyncInv
<1> QED
  BY <1>1, <1>2, <1>3 DEF Inv

LEMMA TypeStep == Inv /\ [Next]_vars => TypeOK'
<1> SUFFICES ASSUME Inv, [Next]_vars PROVE TypeOK'
  OBVIOUS
<1> USE CsAssumption DEF Inv, TypeOK, CsPcs, CallPcs, Goto, NotifyWorker,
        csVars, callVars, sharedVars
<1>1. CASE CsTest
  BY <1>1 DEF CsTest
<1>2. CASE CsBlock
  BY <1>2 DEF CsBlock
<1>3. CASE CsSwap
  BY <1>3 DEF CsSwap
<1>4. CASE CsSleep \/ CsSpuriousWake
  BY <1>4 DEF CsSleep, CsSpuriousWake
<1>5. CASE CsExec
  BY <1>5 DEF CsExec
<1>6. CASE CsThrow
  BY <1>6 DEF CsThrow
<1>7. CASE CsCount
  <2>1. executed' \in 0 .. MaxChunks
    BY <1>7 DEF CsCount, OrderInv
  <2>2. pc' \in [Callers -> CallPcs]
    BY <1>7 DEF CsCount
  <2> QED
    BY <1>7, <2>1, <2>2 DEF CsCount
<1>8. CASE CsRelease
  <2>1. local # <<>>
    BY <1>8 DEF CsRelease, OrderInv
  <2>2. Tail(local) \in Seq(Nat)
    BY <2>1
  <2> QED
    BY <1>8, <2>2 DEF CsRelease
<1>9. CASE CsBatchDone
  BY <1>9 DEF CsBatchDone
<1>10. ASSUME NEW c \in Callers, Dispatch(c) PROVE TypeOK'
  BY <1>10 DEF Dispatch
<1>11. ASSUME NEW c \in Callers, DispatchNotify(c) \/ StopNotify(c) PROVE TypeOK'
  BY <1>11 DEF DispatchNotify, StopNotify
<1>12. ASSUME NEW c \in Callers, NEW seq \in 0 .. dispatched \cup {SynchronizeAll},
              Synchronize(c, seq)
       PROVE  TypeOK'
  BY <1>12 DEF Synchronize
<1>13. ASSUME NEW c \in Callers,
              SyncLoad(c) \/ SyncResolve(c) \/ SyncPass(c) \/ SyncBlock(c) \/ SyncSleep(c)
       PROVE  TypeOK'
  <2>1. CASE SyncLoad(c)
    BY <2>1 DEF SyncLoad
  <2>2. CASE SyncResolve(c)
    BY <2>2 DEF SyncResolve
  <2>3. CASE SyncPass(c)
    BY <2>3 DEF SyncPass
  <2>4. CASE SyncBlock(c)
    BY <2>4 DEF SyncBlock
  <2>5. CASE SyncSleep(c)
    BY <2>5 DEF SyncSleep
  <2> QED
    BY <1>13, <2>1, <2>2, <2>3, <2>4, <2>5
<1>14. ASSUME NEW c \in Callers, SyncReturn(c) \/ SpuriousWake(c) PROVE TypeOK'
  BY <1>14 DEF SyncReturn, SpuriousWake
<1>15. ASSUME NEW c \in Callers, Stop(c) \/ Join(c) PROVE TypeOK'
  <2>1. CASE Stop(c)
    BY <2>1 DEF Stop
  <2>2. CASE Join(c)
    BY <2>2 DEF Join
  <2> QED
    BY <1>15, <2>1, <2>2
<1>16. CASE UNCHANGED vars
  BY <1>16 DEF vars
<1> QED
  BY <1>1, <1>2, <1>3, <1>4, <1>5, <1>6, <1>7, <1>8, <1>9, <1>10, <1>11, <1>12,
     <1>13, <1>14, <1>15, <1>16 DEF Next, Worker, CallStep

\* Appending the next number to a run of consecutive numbers.
LEMMA AppendConsecutive ==
  ASSUME NEW q \in Seq(Nat), NEW base \in Nat,
         \A i \in 1 .. Len(q) : q[i] = base + i
  PROVE  LET q2 == Append(q, base + Len(q) + 1)
         IN  Len(q2) = Len(q) + 1 /\ \A i \in 1 .. Len(q2) : q2[i] = base + i
  OBVIOUS

LEMMA OrderStep == Inv /\ [Next]_vars => OrderInv'
<1> SUFFICES ASSUME Inv, [Next]_vars PROVE OrderInv'
  OBVIOUS
<1> USE CsAssumption DEF Inv, TypeOK, OrderInv, Released, Goto, csVars, callVars, sharedVars
<1>1. CASE CsTest
  BY <1>1 DEF CsTest
<1>2. CASE CsBlock
  BY <1>2 DEF CsBlock
<1>3. CASE CsSwap
  BY <1>3 DEF CsSwap
<1>4. CASE CsSleep
  BY <1>4 DEF CsSleep
<1>5. CASE CsSpuriousWake
  BY <1>5 DEF CsSpuriousWake
<1>6. CASE CsExec
  BY <1>6 DEF CsExec
<1>7. CASE CsThrow
  BY <1>7 DEF CsThrow
<1>8. CASE CsCount
  BY <1>8 DEF CsCount
<1>9. CASE CsRelease
  BY <1>9 DEF CsRelease
<1>10. CASE CsBatchDone
  BY <1>10 DEF CsBatchDone
<1>11. ASSUME NEW c \in Callers, Dispatch(c) PROVE OrderInv'
  <2>1. /\ UNCHANGED <<csPc, local, ran, executed>>
        /\ dispatched' = dispatched + 1
        /\ queued' = Append(queued, dispatched + 1)
    BY <1>11 DEF Dispatch
  <2>2. ASSUME csPc \notin {"exit", "dead"}
        PROVE  /\ Released \in Nat
               /\ dispatched' = Released + Len(local) + Len(queued')
               /\ \A i \in 1 .. Len(queued') : queued'[i] = Released + Len(local) + i
    <3>1. /\ Released \in Nat /\ Len(local) \in Nat /\ Len(queued) \in Nat
          /\ dispatched = Released + Len(local) + Len(queued)
          /\ \A i \in 1 .. Len(queued) : queued[i] = Released + Len(local) + i
      BY <2>2
    <3> DEFINE base == Released + Len(local)
    <3>2. queued \in Seq(Nat) /\ base \in Nat
      BY <3>1
    <3>3. queued' = Append(queued, base + Len(queued) + 1)
      BY <2>1, <3>1
    <3>4. \A i \in 1 .. Len(queued) : queued[i] = base + i
      BY <3>1
    <3> HIDE DEF base
    <3>5. Len(queued') = Len(queued) + 1 /\ \A i \in 1 .. Len(queued') : queued'[i] = base + i
      BY ONLY <3>2, <3>3, <3>4, AppendConsecutive
    <3>6. dispatched' = dispatched + 1
      BY <2>1
    <3> QED
      BY ONLY <3>1, <3>5, <3>6 DEF base
  <2>3. UNCHANGED <<csPc, local, ran, executed, Released>> /\ dispatched' = dispatched + 1
    BY <2>1
  <2>4. OrderInv /\ dispatched \in Nat /\ Len(ran) \in Nat
    OBVIOUS
  <2> HIDE DEF Released
  <2> QED
    BY ONLY <2>2, <2>3, <2>4 DEF OrderInv
<1>12. ASSUME NEW c \in Callers, DispatchNotify(c) \/ StopNotify(c) PROVE OrderInv'
  BY <1>12 DEF DispatchNotify, StopNotify, NotifyWorker
<1>13. ASSUME NEW c \in Callers, Join(c) PROVE OrderInv'
  BY <1>13 DEF Join
<1>14. ASSUME UNCHANGED <<csVars, queued, dispatched>> PROVE OrderInv'
  BY <1>14
<1>15. ASSUME NEW c \in Callers, CallStep(c) \/ SpuriousWake(c) \/ Stop(c)
       PROVE  OrderInv'
  <2>1. CASE DispatchNotify(c) \/ StopNotify(c)
    BY <1>12, <2>1
  <2>2. CASE Join(c)
    BY <1>13, <2>2
  <2>3. CASE SyncLoad(c) \/ SyncResolve(c) \/ SyncPass(c) \/ SyncBlock(c) \/ SyncSleep(c)
    BY <1>14, <2>3 DEF SyncLoad, SyncResolve, SyncPass, SyncBlock, SyncSleep
  <2>4. CASE SyncReturn(c) \/ SpuriousWake(c) \/ Stop(c)
    BY <1>14, <2>4 DEF SyncReturn, SpuriousWake, Stop
  <2> QED
    BY <1>15, <2>1, <2>2, <2>3, <2>4 DEF CallStep
<1>16. ASSUME NEW c \in Callers, NEW seq \in 0 .. dispatched \cup {SynchronizeAll},
              Synchronize(c, seq)
       PROVE  OrderInv'
  BY <1>14, <1>16 DEF Synchronize
<1>17. CASE UNCHANGED vars
  BY <1>14, <1>17 DEF vars
<1> QED
  BY <1>1, <1>2, <1>3, <1>4, <1>5, <1>6, <1>7, <1>8, <1>9, <1>10, <1>11,
     <1>15, <1>16, <1>17 DEF Next, Worker

LEMMA SyncStep == Inv /\ [Next]_vars => SyncInv'
<1> SUFFICES ASSUME Inv, [Next]_vars PROVE SyncInv'
  OBVIOUS
<1> USE CsAssumption DEF Inv, TypeOK, SyncInv, Waiting, CallPcs, Goto, csVars, callVars,
        sharedVars
<1>1. ASSUME UNCHANGED <<arg, floor, dispatched>>, executed' >= executed,
             executed' \in Nat,
             \A c \in Callers : \/ pc'[c] = pc[c]
                                \/ pc[c] \in Waiting /\ pc'[c] \in Waiting
                                \/ pc'[c] \notin Waiting \cup {"done"}
      PROVE  SyncInv'
  <2> SUFFICES ASSUME NEW c \in Callers
               PROVE  /\ floor[c] <= dispatched
                      /\ pc'[c] \in Waiting => floor[c] <= arg[c]
                      /\ pc'[c] = "done" => floor[c] <= executed'
    BY <1>1
  <2> floor[c] \in Nat /\ executed \in Nat
    OBVIOUS
  <2>1. CASE pc'[c] = pc[c]
    BY <1>1, <2>1
  <2>2. CASE pc[c] \in Waiting /\ pc'[c] \in Waiting
    BY <2>2
  <2>3. CASE pc'[c] \notin Waiting \cup {"done"}
    BY <2>3
  <2> QED
    BY <1>1, <2>1, <2>2, <2>3
<1>2. CASE CsCount
  BY <1>1, <1>2 DEF CsCount
<1>3. CASE CsTest \/ CsBlock \/ CsSwap \/ CsSleep \/ CsSpuriousWake
  BY <1>1, <1>3 DEF CsTest, CsBlock, CsSwap, CsSleep, CsSpuriousWake
<1>4. CASE CsExec \/ CsThrow \/ CsRelease \/ CsBatchDone
  BY <1>1, <1>4 DEF CsExec, CsThrow, CsRelease, CsBatchDone
<1>5. ASSUME NEW c \in Callers, Dispatch(c) PROVE SyncInv'
  BY <1>5 DEF Dispatch
<1>6. ASSUME NEW c \in Callers, NEW seq \in 0 .. dispatched \cup {SynchronizeAll},
             Synchronize(c, seq)
      PROVE  SyncInv'
  BY <1>6 DEF Synchronize
<1>7. ASSUME NEW c \in Callers,
             DispatchNotify(c) \/ SyncReturn(c) \/ SpuriousWake(c)
      PROVE  SyncInv'
  BY <1>1, <1>7 DEF DispatchNotify, SyncReturn, SpuriousWake
<1>8. ASSUME NEW c \in Callers, Stop(c) \/ StopNotify(c) \/ Join(c) PROVE SyncInv'
  BY <1>1, <1>8 DEF Stop, StopNotify, Join
<1>9. ASSUME NEW c \in Callers, SyncLoad(c) PROVE SyncInv'
  BY <1>9 DEF SyncLoad
<1>10. ASSUME NEW c \in Callers, SyncResolve(c) PROVE SyncInv'
  BY <1>10 DEF SyncResolve
<1>11. ASSUME NEW c \in Callers, SyncBlock(c) \/ SyncSleep(c) PROVE SyncInv'
  BY <1>1, <1>11 DEF SyncBlock, SyncSleep
<1>12. ASSUME NEW c \in Callers, SyncPass(c) PROVE SyncInv'
  BY <1>12 DEF SyncPass
<1>13. CASE UNCHANGED vars
  BY <1>1, <1>13 DEF vars
<1> QED
  BY <1>2, <1>3, <1>4, <1>5, <1>6, <1>7, <1>8, <1>9, <1>10, <1>11, <1>12, <1>13
  DEF Next, Worker, CallStep

\* The inductive invariant holds in every reachable state.
THEOREM Invariance == Spec => []Inv
<1>1. Inv /\ [Next]_vars => Inv'
  BY TypeStep, OrderStep, SyncStep DEF Inv
<1> QED
  BY InitInv, <1>1, PTL DEF Spec

\* The variables keep their types, and the executed counter stays in range.
THEOREM TypeCorrect == Spec => []TypeOK
<1>1. Inv => TypeOK
  BY DEF Inv
<1> QED
  BY Invariance, <1>1, PTL

\* Chunks run once each, in the order of their sequence numbers, and the counter
\* that callers trust never runs ahead of them.
THEOREM ChunksInOrder == Spec => []ExecutionOrder
<1>1. Inv => ExecutionOrder
  BY DEF Inv, TypeOK, OrderInv, ExecutionOrder
<1> QED
  BY Invariance, <1>1, PTL

\* synchronize() never returns before the chunk it was called for has run,
\* whatever other callers do meanwhile.
THEOREM SynchronizeWaits == Spec => []SynchronizeSound
<1>1. Inv => SynchronizeSound
  BY DEF Inv, TypeOK, OrderInv, SyncInv, SynchronizeSound
<1> QED
  BY Invariance, <1>1, PTL

-----------------------------------------------------------------------------
\* Every step of the thread is a step of the command stream or hidden from it.
LEMMA StreamStep == Inv /\ Inv' /\ [Next]_vars => [Stream!Next]_(Stream!streamVars)
<1> SUFFICES ASSUME Inv, Inv', [Next]_vars
             PROVE  Stream!Next \/ UNCHANGED Stream!streamVars
  OBVIOUS
<1> USE CsAssumption DEF Inv, TypeOK, Goto, csVars, callVars, sharedVars
<1>1. ASSUME UNCHANGED <<dispatched, executed, floor>>,
             \A c \in Callers : (pc'[c] \in Waiting \cup {"done"})
                                 <=> (pc[c] \in Waiting \cup {"done"})
      PROVE  UNCHANGED Stream!streamVars
  BY <1>1 DEF Stream!streamVars, Target, Waiting
<1>2. CASE CsTest \/ CsBlock \/ CsSwap \/ CsSleep \/ CsSpuriousWake
  BY <1>1, <1>2 DEF CsTest, CsBlock, CsSwap, CsSleep, CsSpuriousWake
<1>3. CASE CsExec \/ CsThrow \/ CsRelease \/ CsBatchDone
  BY <1>1, <1>3 DEF CsExec, CsThrow, CsRelease, CsBatchDone
<1>4. CASE CsCount
  <2>1. executed < dispatched /\ executed' = executed + 1 /\ dispatched' = dispatched
    BY <1>4 DEF CsCount, OrderInv
  <2>2. Target' = Target
    BY <1>4 DEF CsCount, Target
  <2> QED
    BY <2>1, <2>2 DEF Stream!Next, Stream!Complete
<1>5. ASSUME NEW c \in Callers, Dispatch(c) PROVE Stream!Next
  <2>1. dispatched' = dispatched + 1 /\ executed' = executed
    BY <1>5 DEF Dispatch
  <2>2. Target' = Target
    BY <1>5 DEF Dispatch, MayCall, Target
  <2> QED
    BY <2>1, <2>2 DEF Stream!Next, Stream!Dispatch
<1>6. ASSUME NEW c \in Callers, NEW seq \in 0 .. dispatched \cup {SynchronizeAll},
             Synchronize(c, seq)
      PROVE  Stream!Next
  <2>1. UNCHANGED <<dispatched, executed>> /\ floor'[c] \in 0 .. dispatched
    BY <1>6 DEF Synchronize
  <2>2. Target[c] = -1
    BY <1>6 DEF Synchronize, MayCall, Target
  <2>3. Target' = [Target EXCEPT ![c] = floor'[c]]
    BY <1>6 DEF Synchronize, Target
  <2> QED
    BY <2>1, <2>2, <2>3 DEF Stream!Next, Stream!Wait, Stream!NotWaiting
<1>7. ASSUME NEW c \in Callers, SyncReturn(c) PROVE Stream!Next
  <2>1. UNCHANGED <<dispatched, executed>> /\ floor[c] <= executed
    BY <1>7 DEF SyncReturn, SyncInv
  <2>2. Target[c] = floor[c] /\ floor[c] \in Nat
    BY <1>7 DEF SyncReturn, Target
  <2>3. Target' = [Target EXCEPT ![c] = -1]
    BY <1>7 DEF SyncReturn, Target
  <2>4. Stream!Return(c)
    BY <2>1, <2>2, <2>3 DEF Stream!Return, Stream!NotWaiting
  <2> QED
    BY <2>4 DEF Stream!Next
<1>8. ASSUME NEW c \in Callers, DispatchNotify(c) \/ StopNotify(c) \/ Join(c)
      PROVE  UNCHANGED Stream!streamVars
  BY <1>1, <1>8 DEF DispatchNotify, StopNotify, Join, Waiting
<1>9. ASSUME NEW c \in Callers, Stop(c) \/ SpuriousWake(c)
      PROVE  UNCHANGED Stream!streamVars
  BY <1>1, <1>9 DEF Stop, SpuriousWake, Waiting
<1>10. ASSUME NEW c \in Callers,
              SyncLoad(c) \/ SyncResolve(c) \/ SyncPass(c) \/ SyncBlock(c) \/ SyncSleep(c)
       PROVE  UNCHANGED Stream!streamVars
  BY <1>1, <1>10 DEF SyncLoad, SyncResolve, SyncPass, SyncBlock, SyncSleep, Waiting
<1>11. CASE UNCHANGED vars
  BY <1>1, <1>11 DEF vars
<1> QED
  BY <1>2, <1>3, <1>4, <1>5, <1>6, <1>7, <1>8, <1>9, <1>10, <1>11
  DEF Next, Worker, CallStep

\* The thread, with its mutexes, condition variables and unlocked reads, is a
\* command stream: callers can rely on CommandStream alone.
THEOREM ImplementsStream == Spec => StreamSpec
<1>1. Init => Stream!Init
  BY DEF Init, Stream!Init, Stream!NotWaiting, Target
<1> QED
  BY Invariance, StreamStep, <1>1, PTL DEF Spec, StreamSpec, Stream!Spec

-----------------------------------------------------------------------------
(* The device fence. *)

\* An event that is signalled has been waited for to the end: its call has returned, its value is
\* reached, and it is not queued any more. The value that the thread fires by is one the
\* semaphore has had; while it polls, it may be one that the semaphore will have.
FenceInv ==
  /\ FenceTypeOK
  /\ \A e \in Events : \/ fired[e] = 0
                       \/ /\ fired[e] = 1 /\ value[e] <= semaphore
                          /\ enqueuePc[e] = "returned" /\ e \notin queue
  /\ threadPc = "drain" => seen <= semaphore

\* A queue that is not empty has a top, since values are bounded.
LEMMA QueueHasTop ==
  ASSUME FenceTypeOK, queue # {}
  PROVE  \E e \in queue : IsTop(e)
<1> DEFINE Gap(e) == MaxValue - value[e]
           Gaps == {Gap(e) : e \in queue}
<1>1. \A e \in queue : value[e] \in Nat /\ Gap(e) \in Nat
  BY FenceAssumption DEF FenceTypeOK
<1>2. Gaps \in SUBSET Nat /\ Gaps # {}
  BY <1>1
<1>3. PICK n \in Gaps : \A k \in Gaps : <<k, n>> \notin OpToRel(<, Nat)
  <2> HIDE DEF Gaps
  <2> QED
    BY <1>2, NatLessThanWellFounded, WFMin
<1>4. PICK e \in queue : n = Gap(e)
  OBVIOUS
<1>5. \A f \in queue : ~(Gap(f) < n)
  BY <1>1, <1>2, <1>3 DEF OpToRel
<1>6. \A f \in queue : value[f] <= value[e]
  BY <1>1, <1>4, <1>5, FenceAssumption
<1> QED
  BY <1>4, <1>6 DEF IsTop

LEMMA FenceStep ==
  ASSUME FenceInv, [FenceNext]_fenceVars
  PROVE  FenceInv'
<1> USE FenceAssumption DEF FenceInv, FenceTypeOK, EnqueuePcs, ThreadPcs
<1>1. CASE UNCHANGED fenceVars
  BY <1>1 DEF fenceVars, enqueueVars, threadVars
<1>2. CASE ThreadSleep
  BY <1>2 DEF ThreadSleep, enqueueVars
<1>3. CASE ThreadQuery
  BY <1>3 DEF ThreadQuery, enqueueVars
<1>4. CASE ThreadFire
  <2>1. PICK e \in queue : /\ threadPc = "drain"
                           /\ value[e] <= seen /\ Fire(e) /\ queue' = queue \ {e}
                           /\ UNCHANGED <<semaphore, value, enqueuePc, running, threadPc, seen, failed, ownerPc>>
    BY <1>4 DEF ThreadFire, enqueueVars, threadVars
  <2>2. fired[e] = 0 /\ value[e] <= semaphore /\ enqueuePc[e] = "returned" /\ e \in Events
    BY <2>1
  <2>3. fired' = [fired EXCEPT ![e] = 1]
    BY <2>1, <2>2 DEF Fire
  <2> QED
    BY <2>1, <2>2, <2>3
<1>5. CASE ThreadDrained
  <2>1. CASE running /\ queue # {}
    <3>1. PICK e \in queue : IsTop(e)
      BY <2>1, QueueHasTop
    <3>2. value[e] > seen /\ value[e] \in 1 .. MaxValue
      BY <1>5, <3>1 DEF ThreadDrained, DrainStops
    <3>3. seen + 1 \in 0 .. MaxValue
      BY <3>2
    <3> QED
      BY <1>5, <2>1, <3>3 DEF ThreadDrained, enqueueVars
  <2>2. CASE ~(running /\ queue # {})
    BY <1>5, <2>2 DEF ThreadDrained, enqueueVars
  <2> QED
    BY <2>1, <2>2
<1>6. CASE ThreadPolled
  BY <1>6 DEF ThreadPolled, enqueueVars
<1>7. CASE ThreadFail
  BY <1>7 DEF ThreadFail, enqueueVars
<1>8. CASE SpuriousThreadWake
  BY <1>8 DEF SpuriousThreadWake, enqueueVars
<1>9. CASE Signal
  BY <1>9 DEF Signal, enqueueVars, threadVars
<1>10. ASSUME NEW e \in Events, EnqueueReached(e) PROVE FenceInv'
  BY <1>10 DEF EnqueueReached, Fire, threadVars
<1>11. ASSUME NEW e \in Events, EnqueueLater(e) PROVE FenceInv'
  BY <1>11 DEF EnqueueLater, threadVars
<1>12. ASSUME NEW e \in Events, EnqueuePush(e) PROVE FenceInv'
  BY <1>12 DEF EnqueuePush, Notify, MutexFree
<1>13. CASE Destroy
  BY <1>13 DEF Destroy, Notify, MutexFree, enqueueVars
<1>14. CASE JoinThread
  BY <1>14 DEF JoinThread, enqueueVars, threadVars
<1> QED
  BY <1>1, <1>2, <1>3, <1>4, <1>5, <1>6, <1>7, <1>8, <1>9, <1>10, <1>11, <1>12, <1>13, <1>14
     DEF FenceNext, Thread

\* However the helper thread, its timeouts and failures and calls of enqueueWait interleave, an
\* event is signalled at most once, never before its value is reached (DxvkFence::run).
THEOREM EventsFireOnce == FenceSpec => []FiredOnceReached
<1>1. FenceInit => FenceInv
  <2> SUFFICES ASSUME FenceInit PROVE FenceInv
    OBVIOUS
  <2>1. MaxValue \in Nat /\ 0 \in 0 .. MaxValue
    BY FenceAssumption
  <2>2. FenceTypeOK
    BY <2>1 DEF FenceInit, FenceTypeOK, EnqueuePcs, ThreadPcs
  <2> QED
    BY <2>2 DEF FenceInit, FenceInv
<1>2. FenceInv /\ [FenceNext]_fenceVars => FenceInv'
  BY FenceStep
<1>3. FenceInv => FiredOnceReached
  BY DEF FenceInv, FiredOnceReached
<1> QED
  BY <1>1, <1>2, <1>3, PTL DEF FenceSpec
=============================================================================
