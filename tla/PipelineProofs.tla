--------------------------- MODULE PipelineProofs ---------------------------
(***************************************************************************)
(* Theorems about PipelineManager, for any number of workers, with and      *)
(* without pipeline libraries, any number of jobs and of cached shaders,    *)
(* and whatever the state cache worker does while the device is destroyed.  *)
(***************************************************************************)
EXTENDS PipelineManager, FiniteSetTheorems, SequenceTheorems, TLAPS

\* Workers that the idle counter of bucket p counts.
Idle(p) == {w \in Workers : MaxPriority(w) = p /\ worker[w] = "wait"}

\* The counters that notifyWorkers looks at are exact.
IdleInv == \A p \in Priorities : idleWorkers[p] = Cardinality(Idle(p))

\* There are workers exactly while they run, but for the time they are joined in.
RunInv ==
  /\ ~running /\ ~Joining /\ device # "undefined" => \A w \in Workers : worker[w] = "none"
  /\ Joining => ~running
  /\ running => \A w \in Workers : worker[w] \in {"start", "wait", "compile"}
  /\ ~Gpl => queue[Low] = <<>>

PipelinesIn(q) == {i \in 1 .. Len(q) : q[i].pipeline}

\* Pipelines that queues hold, and those that workers hold.
QueuesHold == Cardinality(PipelinesIn(queue[High])) + Cardinality(PipelinesIn(queue[Normal]))
              + Cardinality(PipelinesIn(queue[Low]))

CompilingPipelines == {w \in Compiling : entry[w].pipeline}

Jobs == Len(queue[High]) + Len(queue[Normal]) + Len(queue[Low])

\* No reference is given back twice; and none is lost before a stop, which
\* drops what is queued.
CountInv ==
  /\ tasksTotal <= MaxTasks
  /\ useCount >= QueuesHold + Cardinality(CompilingPipelines)
  /\ device = "alive" => /\ useCount = QueuesHold + Cardinality(CompilingPipelines)
                         /\ tasksTotal - tasksCompleted = Jobs + Cardinality(Compiling)

IInv == TypeOK /\ IdleInv /\ RunInv /\ CountInv /\ PendingIsServed

-----------------------------------------------------------------------------
(* Workers and their priorities                                            *)

LEMMA WorkersFacts ==
  /\ IsFiniteSet(Workers) /\ Cardinality(Workers) = NumWorkers
  /\ Workers \subseteq Nat /\ 0 \in Workers
<1>1. NumWorkers \in Nat \ {0}
  BY WorkersAssumption
<1>2. /\ IsFiniteSet(0 .. NumWorkers - 1)
      /\ Cardinality(0 .. NumWorkers - 1) = NumWorkers
  BY <1>1, FS_Interval
<1> QED
  BY <1>1, <1>2 DEF Workers

LEMMA MaxOfPair ==
  ASSUME NEW a \in Int, NEW b \in Int
  PROVE  Max({a, b}) \in Int /\ Max({a, b}) >= b
<1>1. \E m \in {a, b} : \A y \in {a, b} : m >= y
  OBVIOUS
<1> QED
  BY <1>1 DEF Max

LEMMA MinOfSome ==
  ASSUME NEW S \in SUBSET Priorities, S # {}
  PROVE  Min(S) \in S /\ \A y \in S : Min(S) <= y
<1>1. \E m \in S : \A y \in S : m <= y
  <2>1. S \subseteq {0, 1, 2}
    BY DEF Priorities, High, Normal, Low
  <2>2. CASE 0 \in S
    BY <2>1, <2>2
  <2>3. CASE 0 \notin S /\ 1 \in S
    BY <2>1, <2>3
  <2>4. CASE 0 \notin S /\ 1 \notin S
    <3>1. 2 \in S
      BY <2>1, <2>4
    <3> QED
      BY <2>1, <2>4, <3>1
  <2> QED
    BY <2>2, <2>3, <2>4
<1> QED
  BY <1>1 DEF Min

\* startWorkers leaves at least one worker to the last queue that is used.
LEMMA Priority ==
  /\ \A w \in Workers : MaxPriority(w) \in Priorities
  /\ MaxPriority(0) = IF Gpl THEN Low ELSE Normal
<1>1. ((NumWorkers - 1) * 5) \div 7 \in Int /\ ((NumWorkers - 1) * 2) \div 7 \in Int
  <2>1. NumWorkers \in Nat \ {0}
    BY WorkersAssumption
  <2> QED
    BY <2>1
<1>2. /\ Max({((NumWorkers - 1) * 5) \div 7, 1}) \in Int /\ Max({((NumWorkers - 1) * 5) \div 7, 1}) >= 1
      /\ Max({((NumWorkers - 1) * 2) \div 7, 1}) \in Int /\ Max({((NumWorkers - 1) * 2) \div 7, 1}) >= 1
  BY <1>1, MaxOfPair
<1>3. MaxPriority(0) = IF Gpl THEN Low ELSE Normal
  <2> DEFINE np == Max({((NumWorkers - 1) * 5) \div 7, 1})
             lp == Max({((NumWorkers - 1) * 2) \div 7, 1})
  <2>1. ~(0 >= np) /\ 0 < lp
    BY <1>2
  <2>2. MaxPriority(0) = IF ~Gpl THEN Normal ELSE IF 0 >= np THEN High ELSE IF 0 < lp THEN Low ELSE Normal
    BY DEF MaxPriority
  <2> QED
    BY <2>1, <2>2
<1>4. ASSUME NEW w \in Workers PROVE MaxPriority(w) \in Priorities
  BY DEF MaxPriority, Priorities, High, Normal, Low
<1> QED
  BY <1>3, <1>4

-----------------------------------------------------------------------------
(* Counting                                                                *)

LEMMA CountFinite ==
  ASSUME NEW q \in Seq(Entries)
  PROVE  IsFiniteSet(PipelinesIn(q)) /\ Cardinality(PipelinesIn(q)) \in Nat
<1>1. Len(q) \in Nat
  OBVIOUS
<1>2. IsFiniteSet(1 .. Len(q))
  BY <1>1, FS_Interval
<1>3. PipelinesIn(q) \in SUBSET (1 .. Len(q))
  BY DEF PipelinesIn
<1> QED
  BY <1>2, <1>3, FS_Subset, FS_CardinalityType

LEMMA CountAppend ==
  ASSUME NEW q \in Seq(Entries), NEW e \in Entries
  PROVE  Cardinality(PipelinesIn(Append(q, e)))
           = Cardinality(PipelinesIn(q)) + IF e.pipeline THEN 1 ELSE 0
<1>1. Len(q) \in Nat /\ Len(Append(q, e)) = Len(q) + 1
  OBVIOUS
<1>2. /\ \A i \in 1 .. Len(q) : Append(q, e)[i] = q[i]
      /\ Append(q, e)[Len(q) + 1] = e
  OBVIOUS
<1>3. IsFiniteSet(PipelinesIn(q)) /\ Cardinality(PipelinesIn(q)) \in Nat
  BY CountFinite
<1>4. CASE e.pipeline
  <2>1. /\ PipelinesIn(Append(q, e)) = PipelinesIn(q) \cup {Len(q) + 1}
        /\ Len(q) + 1 \notin PipelinesIn(q)
    BY <1>1, <1>2, <1>4 DEF PipelinesIn
  <2> QED
    BY <1>3, <1>4, <2>1, FS_AddElement
<1>5. CASE ~e.pipeline
  <2>1. PipelinesIn(Append(q, e)) = PipelinesIn(q)
    BY <1>1, <1>2, <1>5 DEF PipelinesIn
  <2> QED
    BY <1>3, <1>5, <2>1
<1> QED
  BY <1>4, <1>5

LEMMA CountTail ==
  ASSUME NEW q \in Seq(Entries), q # <<>>
  PROVE  Cardinality(PipelinesIn(q))
           = Cardinality(PipelinesIn(Tail(q))) + IF Head(q).pipeline THEN 1 ELSE 0
<1> DEFINE A == PipelinesIn(q) \ {1}
           B == PipelinesIn(Tail(q))
           f == [i \in B |-> i + 1]
<1>1. /\ Len(q) \in Nat \ {0} /\ Head(q) = q[1] /\ Len(Tail(q)) = Len(q) - 1
      /\ \A i \in 1 .. Len(q) - 1 : Tail(q)[i] = q[i + 1]
      /\ Tail(q) \in Seq(Entries)
  OBVIOUS
<1>2. /\ IsFiniteSet(PipelinesIn(q)) /\ Cardinality(PipelinesIn(q)) \in Nat
      /\ IsFiniteSet(B) /\ Cardinality(B) \in Nat
  BY <1>1, CountFinite
<1>3. B \subseteq 1 .. Len(q) - 1 /\ \A i \in 1 .. Len(q) - 1 : i \in B <=> i + 1 \in A
  BY <1>1 DEF PipelinesIn
<1>4. \A j \in A : j - 1 \in B
  <2>1. ASSUME NEW j \in A PROVE j - 1 \in 1 .. Len(q) - 1 /\ (j - 1) + 1 = j
    BY <1>1 DEF PipelinesIn
  <2> QED
    BY <1>3, <2>1
<1>5. f \in Bijection(B, A)
  <2>1. f \in [B -> A]
    BY <1>3
  <2>2. \A i, j \in B : f[i] = f[j] => i = j
    BY <1>3
  <2>3. \A j \in A : \E i \in B : f[i] = j
    <3>1. ASSUME NEW j \in A PROVE j - 1 \in B /\ f[j - 1] = j
      BY <1>1, <1>4 DEF PipelinesIn
    <3> QED
      BY <3>1
  <2> QED
    BY <2>1, <2>2, <2>3 DEF Bijection, Injection, Surjection, IsInjective
<1>6. Cardinality(A) = Cardinality(B)
  <2>1. ExistsBijection(B, A)
    BY <1>5 DEF ExistsBijection
  <2> QED
    BY <1>2, <2>1, FS_Bijection
<1>7. Cardinality(A) = IF 1 \in PipelinesIn(q) THEN Cardinality(PipelinesIn(q)) - 1
                      ELSE Cardinality(PipelinesIn(q))
  BY <1>2, FS_RemoveElement
<1>8. 1 \in PipelinesIn(q) <=> Head(q).pipeline
  BY <1>1 DEF PipelinesIn
<1> QED
  BY <1>2, <1>6, <1>7, <1>8
-----------------------------------------------------------------------------
(* The inductive invariant                                                 *)

LEMMA InitInv == Init => IInv
<1> SUFFICES ASSUME Init PROVE IInv
  OBVIOUS
<1> USE DEF Init, PoolInit
<1>0. NumWorkers \in Nat \ {0} /\ MaxTasks \in Nat /\ Cardinality({}) = 0
  BY WorkersAssumption, FS_EmptySet
<1>1. TypeOK
  <2>1. queue \in [Priorities -> Seq(Entries)]
    <3>1. <<>> \in Seq(Entries)
      OBVIOUS
    <3> QED
      BY <3>1
  <2>2. idleWorkers \in [Priorities -> 0 .. NumWorkers]
    BY <1>0
  <2>3. /\ worker \in [Workers -> {"none", "start", "wait", "compile", "exited"}]
        /\ entry \in [Workers -> Entries \cup {NoEntry}]
    OBVIOUS
  <2>4. /\ tasksTotal \in Nat /\ tasksCompleted \in Nat /\ useCount \in Nat
        /\ items \in Nat /\ registered \in Nat
    OBVIOUS
  <2> QED
    BY <2>1, <2>2, <2>3, <2>4 DEF TypeOK
<1>2. \A p \in Priorities : Idle(p) = {}
  BY DEF Idle
<1>3. IdleInv
  BY <1>0, <1>2 DEF IdleInv
<1>4. Compiling = {} /\ CompilingPipelines = {}
  BY DEF Compiling, CompilingPipelines
<1>5. Jobs = 0 /\ QueuesHold = 0
  <2>1. High \in Priorities /\ Normal \in Priorities /\ Low \in Priorities
    BY DEF Priorities
  <2> QED
    <3>1. queue[High] = <<>> /\ queue[Normal] = <<>> /\ queue[Low] = <<>>
      BY <2>1
    <3>2. Cardinality(PipelinesIn(<<>>)) = 0
      BY <1>0 DEF PipelinesIn
    <3>3. Len(<<>>) = 0
      OBVIOUS
    <3> HIDE DEF Init, PoolInit
    <3> QED
      BY <3>1, <3>2, <3>3 DEF Jobs, QueuesHold
<1>7. CountInv
  BY <1>0, <1>4, <1>5 DEF CountInv
<1>8. RunInv
  BY DEF RunInv, Joining, Priorities
<1>9. PendingIsServed
  BY DEF PendingIsServed
<1> QED
  BY <1>1, <1>3, <1>7, <1>8, <1>9 DEF IInv

\* The compiler threads are told to stop, at one of two stages of ~DxvkDevice.
Stopping ==
  \/ device = "stop" /\ device' = "join"
  \/ device = "objects" /\ device' = "joinAgain"

\* They have been joined.
Joined ==
  \/ device = "join" /\ device' = "cache"
  \/ device = "joinAgain" /\ device' = "gone"

\* What a step does to the pool, and how far the device is then.
PoolCases ==
  \/ /\ UNCHANGED poolVars
     /\ \/ device' = device \/ device' = "undefined"
        \/ ~Joining /\ device' \notin {"alive", "join", "joinAgain"}
  \/ /\ device' = device
     /\ ~Joining \/ running
     /\ \E p \in Priorities, b \in BOOLEAN : Compile(p, b) /\ (p = Low => Gpl)
  \/ device' = device /\ \E w \in Workers : Worker(w)
  \/ running /\ Stopping /\ Stop
  \/ Joined /\ Join

LEMMA ThreePriorities ==
  /\ High \in Priorities /\ Normal \in Priorities /\ Low \in Priorities
  /\ High # Low /\ Normal # Low /\ High # Normal
  BY DEF Priorities, High, Normal, Low

LEMMA PoolKept ==
  ASSUME UNCHANGED poolVars, device' = device \/ device' = "undefined"
  PROVE  PoolCases
BY Zenon DEF PoolCases

LEMMA PoolLeft ==
  ASSUME UNCHANGED poolVars, ~Joining, device' \notin {"alive", "join", "joinAgain"}
  PROVE  PoolCases
BY Zenon DEF PoolCases

LEMMA PoolCompiles ==
  ASSUME NEW p \in Priorities, NEW b \in BOOLEAN, Compile(p, b), p = Low => Gpl,
         device' = device, ~Joining \/ running
  PROVE  PoolCases
BY Zenon DEF PoolCases

LEMMA PoolCompilesNormal ==
  ASSUME NEW b \in BOOLEAN, Compile(Normal, b), device' = device, ~Joining \/ running
  PROVE  PoolCases
<1>1. Normal \in Priorities /\ (Normal = Low => Gpl)
  BY ThreePriorities
<1> QED
  BY <1>1, PoolCompiles, Zenon

LEMMA CacheCompiles ==
  ASSUME CacheCompile
  PROVE  PoolCases
<1>1. CASE Joining /\ ~running
  <2>1. UNCHANGED poolVars /\ device' = "undefined"
    BY <1>1, Zenon DEF CacheCompile
  <2> QED
    BY <2>1, PoolKept
<1>2. CASE ~(Joining /\ ~running)
  <2>1. PICK b \in BOOLEAN : Compile(Normal, b)
    BY <1>2, Zenon DEF CacheCompile
  <2>2. device' = device
    BY <1>2, Zenon DEF CacheCompile
  <2> QED
    BY <1>2, <2>1, <2>2, PoolCompilesNormal, Zenon
<1> QED
  BY <1>1, <1>2

LEMMA StepCases ==
  ASSUME [Next]_vars
  PROVE  PoolCases
<1>1. CASE UNCHANGED vars
  <2>1. UNCHANGED poolVars
    BY <1>1, Zenon DEF vars
  <2>2. device' = device
    BY <1>1, Zenon DEF vars
  <2> QED
    BY <2>1, <2>2, PoolKept, Zenon
<1>2. CASE RegisterShader
  BY <1>2, PoolCompilesNormal DEF RegisterShader, Joining
<1>3. CASE RequestCompileShader
  BY <1>3, ThreePriorities, PoolCompiles DEF RequestCompileShader, Joining
<1>4. CASE CompileOptimized
  BY <1>4, ThreePriorities, PoolCompiles DEF CompileOptimized, Joining
<1>5. CASE CacheRegisterShader
  BY <1>5, PoolKept, Zenon DEF CacheRegisterShader
<1>6. CASE CacheLoop
  BY <1>6, PoolKept, Zenon DEF CacheLoop
<1>7. CASE CacheItemDone
  BY <1>7, PoolKept, Zenon DEF CacheItemDone
<1>8. CASE Destroy
  <2>1. UNCHANGED poolVars /\ device = "alive" /\ device' = "stop"
    BY <1>8, Zenon DEF Destroy
  <2> QED
    BY <2>1, PoolLeft DEF Joining
<1>9. CASE StopWorkers
  <2>1. CASE running
    BY <1>9, <2>1, Zenon DEF StopWorkers, PoolCases, Stopping
  <2>2. CASE ~running
    <3>1. UNCHANGED poolVars /\ device = "stop" /\ device' = "cache"
      BY <1>9, <2>2, Zenon DEF StopWorkers
    <3> QED
      BY <3>1, PoolLeft DEF Joining
  <2> QED
    BY <2>1, <2>2
<1>10. CASE JoinWorkers
  BY <1>10, Zenon DEF JoinWorkers, PoolCases, Joined
<1>11. CASE StopCache \/ JoinCache
  <2>1. UNCHANGED poolVars /\ device \in {"cache", "cacheJoin"} /\ device' \in {"cacheJoin", "objects"}
    BY <1>11 DEF StopCache, JoinCache
  <2> QED
    BY <2>1, PoolLeft DEF Joining
<1>14. CASE StopAgain
  <2>1. CASE running
    BY <1>14, <2>1, Zenon DEF StopAgain, PoolCases, Stopping
  <2>2. CASE ~running
    <3>1. UNCHANGED poolVars /\ device = "objects" /\ device' = "gone"
      BY <1>14, <2>2, Zenon DEF StopAgain
    <3> QED
      BY <3>1, PoolLeft DEF Joining
  <2> QED
    BY <2>1, <2>2
<1>15. CASE JoinAgain
  BY <1>15, Zenon DEF JoinAgain, PoolCases, Joined
<1>12. ASSUME NEW w \in Workers, Worker(w)
       PROVE  PoolCases
  <2>1. device' = device
    BY <1>12, Zenon DEF Worker
  <2> QED
    BY <1>12, <2>1, Zenon DEF PoolCases
<1>13. CASE Next
  BY <1>2, <1>3, <1>4, <1>5, <1>6, <1>7, <1>8, <1>9, <1>10, <1>11, <1>12, <1>13, <1>14, <1>15,
     CacheCompiles DEF Next, CacheWorker, Teardown
<1> QED
  BY <1>1, <1>13

LEMMA NotUndefined ==
  ASSUME [Next]_vars
  PROVE  device # "undefined" \/ UNCHANGED vars
BY DEF Next

\* The rest of the state.
LEMMA OtherTypes ==
  ASSUME TypeOK, [Next]_vars
  PROVE  /\ items' \in Nat /\ registered' \in Nat /\ stopThreads' \in BOOLEAN
         /\ cache' \in {"none", "loop", "wait", "notified", "item", "exited"}
         /\ device' \in {"alive", "stop", "join", "cache", "cacheJoin", "objects", "joinAgain", "gone",
                        "undefined"}
         /\ restarted' \in BOOLEAN
<1>0. /\ items \in Nat /\ registered \in Nat /\ stopThreads \in BOOLEAN
      /\ cache \in {"none", "loop", "wait", "notified", "item", "exited"}
      /\ device \in {"alive", "stop", "join", "cache", "cacheJoin", "objects", "joinAgain", "gone",
                    "undefined"}
      /\ restarted \in BOOLEAN
  BY DEF TypeOK
<1>1. CASE UNCHANGED <<cacheVars, device>>
  BY <1>0, <1>1 DEF cacheVars
<1>2. CASE RegisterShader \/ RequestCompileShader \/ CompileOptimized
  BY <1>1, <1>2 DEF RegisterShader, RequestCompileShader, CompileOptimized
<1>3. CASE CacheRegisterShader \/ Destroy
  BY <1>0, <1>3 DEF CacheRegisterShader, Destroy, cacheVars
<1>4. CASE CacheLoop \/ CacheItemDone
  BY <1>0, <1>4 DEF CacheLoop, CacheItemDone
<1>5. CASE CacheCompile
  BY <1>0, <1>5 DEF CacheCompile, cacheVars
<1>6. CASE Teardown
  BY <1>0, <1>6 DEF Teardown, StopWorkers, JoinWorkers, StopCache, JoinCache, StopAgain, JoinAgain,
                    cacheVars
<1>7. ASSUME NEW w \in Workers, Worker(w)
      PROVE  UNCHANGED <<cacheVars, device>>
  BY <1>7 DEF Worker
<1>8. CASE UNCHANGED vars
  BY <1>1, <1>8 DEF vars
<1> QED
  BY <1>1, <1>2, <1>3, <1>4, <1>5, <1>6, <1>7, <1>8 DEF Next, CacheWorker

-----------------------------------------------------------------------------
(* Steps of the pool, one by one                                           *)

LEMMA NotifyTypes ==
  ASSUME TypeOK, NEW p \in Priorities, NotifyWorkers(p)
  PROVE  /\ notified \subseteq notified'
         /\ notified' \subseteq {w \in Workers : worker[w] = "wait"}
<1>1. CASE notified' = notified
  BY <1>1 DEF TypeOK
<1>2. ASSUME NEW i, NEW w \in Waiting(i), notified' = notified \cup {w}
      PROVE  notified' \subseteq {v \in Workers : worker[v] = "wait"}
  BY <1>2 DEF TypeOK, Waiting
<1> QED
  BY <1>1, <1>2 DEF NotifyWorkers

\* compileGraphicsPipeline wakes someone up who serves the queue, if nobody does.
LEMMA NotifyServes ==
  ASSUME TypeOK, IdleInv, RunInv, running,
         NEW p \in Priorities, p = Low => Gpl, NotifyWorkers(p)
  PROVE  \E w \in Workers : MaxPriority(w) >= p
                            /\ (worker[w] \in {"start", "compile"} \/ w \in notified')
<1> DEFINE idle == {i \in p .. Low : idleWorkers[i] > 0}
<1>1. p .. Low \subseteq Priorities
  BY DEF Priorities, High, Normal, Low
<1>2. \A i \in Priorities : IsFiniteSet(Idle(i)) /\ idleWorkers[i] = Cardinality(Idle(i))
  <2>1. ASSUME NEW i \in Priorities PROVE Idle(i) \subseteq Workers
    BY DEF Idle
  <2> QED
    BY <2>1, WorkersFacts, FS_Subset DEF IdleInv
<1>3. CASE idle = {}
  <2>1. 0 \in Workers /\ MaxPriority(0) \in p .. Low
    <3>1. MaxPriority(0) = IF Gpl THEN Low ELSE Normal
      BY Priority
    <3> QED
      BY <3>1, WorkersFacts DEF Priorities, High, Normal, Low
  <2>2. ~(idleWorkers[MaxPriority(0)] > 0) /\ MaxPriority(0) \in Priorities
    BY <1>1, <1>3, <2>1
  <2>3. Cardinality(Idle(MaxPriority(0))) = 0
    BY <1>2, <2>2, FS_CardinalityType
  <2>4. Idle(MaxPriority(0)) = {}
    BY <1>2, <2>2, <2>3, FS_EmptySet
  <2>5. worker[0] # "wait"
    BY <2>1, <2>4 DEF Idle
  <2>6. worker[0] \in {"start", "compile"}
    BY <2>1, <2>5 DEF RunInv
  <2>7. MaxPriority(0) >= p
    BY <2>1 DEF Priorities, High, Normal, Low
  <2> QED
    BY <2>1, <2>6, <2>7
<1>4. CASE idle # {}
  <2>1. PICK i \in Priorities : i = Min(idle) /\ i \in idle
    <3>1. idle \in SUBSET Priorities
      BY <1>1
    <3> QED
      BY <1>4, <3>1, MinOfSome
  <2>2. i >= p /\ idleWorkers[i] > 0
    BY <2>1 DEF Priorities, High, Normal, Low
  <2>3. \E v \in Workers : v \in Idle(i)
    <3>1. Idle(i) # {}
      BY <1>2, <2>2, FS_EmptySet
    <3> QED
      BY <3>1 DEF Idle
  <2>4. CASE Waiting(i) = {}
    <3>1. PICK v \in Workers : v \in Idle(i)
      BY <2>3
    <3>2. v \in notified /\ MaxPriority(v) = i
      BY <2>4, <3>1 DEF Waiting, Idle
    <3>3. notified \subseteq notified'
      BY NotifyTypes
    <3> QED
      BY <2>2, <3>2, <3>3
  <2>5. CASE Waiting(i) # {}
    <3>1. \E w \in Waiting(i) : notified' = notified \cup {w}
      BY <1>4, <2>1, <2>5 DEF NotifyWorkers
    <3>2. PICK w \in Waiting(i) : notified' = notified \cup {w}
      BY <3>1
    <3>3. w \in Workers /\ MaxPriority(w) = i /\ w \in notified'
      BY <3>2 DEF Waiting
    <3> QED
      BY <2>2, <3>3
  <2> QED
    BY <2>4, <2>5
<1> QED
  BY <1>3, <1>4

LEMMA QueueTypes ==
  ASSUME TypeOK
  PROVE  /\ \A p \in Priorities : queue[p] \in Seq(Entries) /\ Len(queue[p]) \in Nat
         /\ Jobs \in Nat /\ QueuesHold \in Nat
<1> DEFINE L(p) == Len(queue[p])
           H(p) == Cardinality(PipelinesIn(queue[p]))
<1>1. \A p \in Priorities : queue[p] \in Seq(Entries)
  BY DEF TypeOK
<1>2. \A p \in Priorities : L(p) \in Nat
  BY <1>1, LenProperties
<1>3. \A p \in Priorities : H(p) \in Nat
  BY <1>1, CountFinite
<1>4. Jobs = L(High) + L(Normal) + L(Low) /\ QueuesHold = H(High) + H(Normal) + H(Low)
  BY Zenon DEF Jobs, QueuesHold
<1> HIDE DEF L, H
<1>5. Jobs \in Nat /\ QueuesHold \in Nat
  BY <1>2, <1>3, <1>4, ThreePriorities
<1> QED
  BY <1>1, <1>2, <1>5 DEF L

\* A queue is replaced.
LEMMA OneQueue ==
  ASSUME TypeOK, NEW p \in Priorities, NEW s \in Seq(Entries),
         queue' = [queue EXCEPT ![p] = s]
  PROVE  /\ queue' \in [Priorities -> Seq(Entries)]
         /\ Jobs' = Jobs + (Len(s) - Len(queue[p]))
         /\ QueuesHold' = QueuesHold + (Cardinality(PipelinesIn(s)) - Cardinality(PipelinesIn(queue[p])))
         /\ queue'[p] = s /\ \A q \in Priorities \ {p} : queue'[q] = queue[q]
<1> DEFINE L(q) == Len(queue[q])
           H(q) == Cardinality(PipelinesIn(queue[q]))
           L1(q) == Len(queue'[q])
           H1(q) == Cardinality(PipelinesIn(queue'[q]))
           k == Len(s) - Len(queue[p])
           h == Cardinality(PipelinesIn(s)) - Cardinality(PipelinesIn(queue[p]))
<1>1. queue \in [Priorities -> Seq(Entries)]
  BY DEF TypeOK
<1>2. queue' \in [Priorities -> Seq(Entries)]
  BY <1>1
<1>3. queue'[p] = s /\ \A q \in Priorities \ {p} : queue'[q] = queue[q]
  BY <1>1
<1>4. \A q \in Priorities : L(q) \in Nat /\ H(q) \in Nat
  BY <1>1, QueueTypes, CountFinite
<1>5. L1(p) = L(p) + k /\ H1(p) = H(p) + h /\ k \in Int /\ h \in Int
  <2>1. L1(p) = Len(s) /\ H1(p) = Cardinality(PipelinesIn(s))
    BY <1>3
  <2>2. Len(s) \in Nat /\ Cardinality(PipelinesIn(s)) \in Nat /\ L(p) \in Nat /\ H(p) \in Nat
    BY <1>4, CountFinite, LenProperties
  <2> QED
    BY <2>1, <2>2
<1>6. \A q \in Priorities \ {p} : L1(q) = L(q) /\ H1(q) = H(q)
  BY <1>3
<1>7. Jobs = L(High) + L(Normal) + L(Low) /\ QueuesHold = H(High) + H(Normal) + H(Low)
  BY Zenon DEF Jobs, QueuesHold
<1>8. Jobs' = L1(High) + L1(Normal) + L1(Low) /\ QueuesHold' = H1(High) + H1(Normal) + H1(Low)
  BY Zenon DEF Jobs, QueuesHold, PipelinesIn
<1>9. p = High \/ p = Normal \/ p = Low
  BY DEF Priorities
<1> HIDE DEF L, H, L1, H1, k, h
<1>10. Jobs' = Jobs + k /\ QueuesHold' = QueuesHold + h
  <2>1. /\ L(High) \in Nat /\ L(Normal) \in Nat /\ L(Low) \in Nat
        /\ H(High) \in Nat /\ H(Normal) \in Nat /\ H(Low) \in Nat
    BY <1>4, ThreePriorities
  <2>2. CASE p = High
    <3>1. /\ L1(High) = L(High) + k /\ L1(Normal) = L(Normal) /\ L1(Low) = L(Low)
          /\ H1(High) = H(High) + h /\ H1(Normal) = H(Normal) /\ H1(Low) = H(Low)
      BY <1>5, <1>6, <2>2, ThreePriorities
    <3>2. Jobs' = Jobs + k
      BY <1>5, <1>7, <1>8, <2>1, <3>1
    <3>3. QueuesHold' = QueuesHold + h
      BY <1>5, <1>7, <1>8, <2>1, <3>1
    <3> QED
      BY <3>2, <3>3
  <2>3. CASE p = Normal
    <3>1. /\ L1(High) = L(High) /\ L1(Normal) = L(Normal) + k /\ L1(Low) = L(Low)
          /\ H1(High) = H(High) /\ H1(Normal) = H(Normal) + h /\ H1(Low) = H(Low)
      BY <1>5, <1>6, <2>3, ThreePriorities
    <3>2. Jobs' = Jobs + k
      BY <1>5, <1>7, <1>8, <2>1, <3>1
    <3>3. QueuesHold' = QueuesHold + h
      BY <1>5, <1>7, <1>8, <2>1, <3>1
    <3> QED
      BY <3>2, <3>3
  <2>4. CASE p = Low
    <3>1. /\ L1(High) = L(High) /\ L1(Normal) = L(Normal) /\ L1(Low) = L(Low) + k
          /\ H1(High) = H(High) /\ H1(Normal) = H(Normal) /\ H1(Low) = H(Low) + h
      BY <1>5, <1>6, <2>4, ThreePriorities
    <3>2. /\ L(High) + L(Normal) + (L(Low) + k) = (L(High) + L(Normal) + L(Low)) + k
          /\ H(High) + H(Normal) + (H(Low) + h) = (H(High) + H(Normal) + H(Low)) + h
      <4>1. k \in Int /\ h \in Int
        BY <1>5
      <4> QED
        BY <2>1, <4>1
    <3> QED
      BY <1>7, <1>8, <3>1, <3>2, Zenon
  <2> QED
    BY <1>9, <2>2, <2>3, <2>4
<1> QED
  BY <1>2, <1>3, <1>10 DEF k, h

LEMMA QueuePut ==
  ASSUME TypeOK, NEW p \in Priorities, NEW e \in Entries,
         queue' = [queue EXCEPT ![p] = Append(@, e)]
  PROVE  /\ queue' \in [Priorities -> Seq(Entries)]
         /\ Jobs' = Jobs + 1 /\ QueuesHold' = QueuesHold + (IF e.pipeline THEN 1 ELSE 0)
         /\ \A q \in Priorities \ {p} : queue'[q] = queue[q]
<1> DEFINE h == IF e.pipeline THEN 1 ELSE 0
           n == Len(queue[p])
           c == Cardinality(PipelinesIn(queue[p]))
<1>1. queue[p] \in Seq(Entries)
  BY QueueTypes
<1>2. PICK s \in Seq(Entries) : s = Append(queue[p], e)
  <2>1. Append(queue[p], e) \in Seq(Entries)
    BY <1>1
  <2> QED
    BY <2>1
<1> DEFINE n1 == Len(s)
           c1 == Cardinality(PipelinesIn(s))
<1>3. n1 = n + 1 /\ n \in Nat
  BY <1>1, <1>2
<1>4. c1 = c + h
  BY <1>1, <1>2, CountAppend
<1>5. c \in Nat /\ h \in Nat /\ Jobs \in Nat /\ QueuesHold \in Nat
  BY <1>1, CountFinite, QueueTypes
<1>6. /\ queue' \in [Priorities -> Seq(Entries)]
      /\ Jobs' = Jobs + (n1 - n) /\ QueuesHold' = QueuesHold + (c1 - c)
      /\ \A q \in Priorities \ {p} : queue'[q] = queue[q]
  <2>1. queue' = [queue EXCEPT ![p] = s]
    BY <1>2
  <2> QED
    BY <2>1, OneQueue, Zenon
<1> HIDE DEF n, n1, c, c1
<1>7. n1 - n = 1 /\ c1 - c = h
  BY <1>3, <1>4, <1>5
<1> QED
  BY <1>6, <1>7

LEMMA QueueTake ==
  ASSUME TypeOK, NEW p \in Priorities, queue[p] # <<>>,
         queue' = [queue EXCEPT ![p] = Tail(@)]
  PROVE  /\ queue' \in [Priorities -> Seq(Entries)]
         /\ Head(queue[p]) \in Entries
         /\ Jobs' = Jobs - 1 /\ QueuesHold' = QueuesHold - (IF Head(queue[p]).pipeline THEN 1 ELSE 0)
         /\ \A q \in Priorities : queue'[q] # <<>> => queue[q] # <<>>
<1> DEFINE h == IF Head(queue[p]).pipeline THEN 1 ELSE 0
           n == Len(queue[p])
           c == Cardinality(PipelinesIn(queue[p]))
<1>1. queue[p] \in Seq(Entries)
  BY QueueTypes
<1>2. Head(queue[p]) \in Entries /\ Tail(queue[p]) \in Seq(Entries) /\ Len(Tail(queue[p])) = n - 1
  BY <1>1, HeadTailProperties
<1>3. PICK s \in Seq(Entries) : s = Tail(queue[p])
  BY <1>2
<1> DEFINE n1 == Len(s)
           c1 == Cardinality(PipelinesIn(s))
<1>4. n1 = n - 1 /\ n \in Nat
  BY <1>1, <1>2, <1>3, LenProperties
<1>5. c = c1 + h
  BY <1>1, <1>3, CountTail
<1>6. c1 \in Nat /\ h \in Nat /\ Jobs \in Nat /\ QueuesHold \in Nat
  BY CountFinite, QueueTypes
<1>7. /\ queue' \in [Priorities -> Seq(Entries)]
      /\ Jobs' = Jobs + (n1 - n) /\ QueuesHold' = QueuesHold + (c1 - c)
      /\ \A q \in Priorities \ {p} : queue'[q] = queue[q]
  <2>1. queue' = [queue EXCEPT ![p] = s]
    BY <1>3
  <2> QED
    BY <2>1, OneQueue, Zenon
<1>8. \A q \in Priorities : queue'[q] # <<>> => queue[q] # <<>>
  BY <1>7
<1> HIDE DEF n, n1, c, c1, h
<1>9. Jobs + (n1 - n) = Jobs - 1 /\ QueuesHold + (c1 - c) = QueuesHold - h
  BY <1>4, <1>5, <1>6
<1> QED
  BY <1>2, <1>7, <1>8, <1>9 DEF h

\* What a worker fetches.
LEMMA FetchCases ==
  ASSUME TypeOK, NEW w \in Workers, Fetch(w)
  PROVE  \/ ~running /\ UNCHANGED <<queue, entry>>
         \/ \E p \in Priorities : /\ queue[p] # <<>>
                                  /\ queue' = [queue EXCEPT ![p] = Tail(@)]
                                  /\ entry' = [entry EXCEPT ![w] = IF running THEN Head(queue[p]) ELSE NoEntry]
<1>1. CASE Pending(w) = {}
  BY <1>1 DEF Fetch
<1>2. CASE Pending(w) # {}
  <2>1. MaxPriority(w) \in Priorities
    BY Priority
  <2>2. Pending(w) \in SUBSET Priorities
    BY <2>1 DEF Pending, Priorities, High, Normal, Low
  <2>3. Min(Pending(w)) \in Pending(w)
    BY <1>2, <2>2, MinOfSome
  <2>4. TakeEntry(w)
    BY <1>2 DEF Fetch
  <2>5. Min(Pending(w)) \in Priorities /\ queue[Min(Pending(w))] # <<>>
    BY <2>2, <2>3 DEF Pending
  <2> QED
    BY <2>4, <2>5 DEF TakeEntry
<1> QED
  BY <1>1, <1>2

-----------------------------------------------------------------------------
(* Workers that fall asleep, wake up, begin to compile and end             *)

LEMMA WorkerSets ==
  /\ \A p \in Priorities : IsFiniteSet(Idle(p)) /\ Cardinality(Idle(p)) \in 0 .. NumWorkers
  /\ \A p \in Priorities : IsFiniteSet(Idle(p)') /\ Cardinality(Idle(p)') \in 0 .. NumWorkers
  /\ IsFiniteSet(Compiling) /\ Cardinality(Compiling) \in Nat
  /\ IsFiniteSet(CompilingPipelines) /\ Cardinality(CompilingPipelines) \in Nat
  /\ IsFiniteSet(Compiling') /\ Cardinality(Compiling') \in Nat
  /\ IsFiniteSet(CompilingPipelines') /\ Cardinality(CompilingPipelines') \in Nat
<1>1. ASSUME NEW S \in SUBSET Workers
      PROVE  IsFiniteSet(S) /\ Cardinality(S) \in Nat /\ Cardinality(S) \in 0 .. NumWorkers
  <2>1. IsFiniteSet(S) /\ Cardinality(S) <= Cardinality(Workers)
    BY WorkersFacts, FS_Subset
  <2>2. Cardinality(S) \in Nat
    BY <2>1, FS_CardinalityType
  <2> QED
    BY <2>1, <2>2, WorkersFacts, WorkersAssumption
<1>2. \A p \in Priorities : Idle(p) \in SUBSET Workers /\ Idle(p)' \in SUBSET Workers
  BY DEF Idle
<1>3. /\ Compiling \in SUBSET Workers /\ Compiling' \in SUBSET Workers
      /\ CompilingPipelines \in SUBSET Workers /\ CompilingPipelines' \in SUBSET Workers
  BY DEF Compiling, CompilingPipelines
<1> QED
  BY <1>1, <1>2, <1>3, Zenon

LEMMA IdleTypes ==
  ASSUME TypeOK, IdleInv', idleWorkers' \in [Priorities -> Int]
  PROVE  idleWorkers' \in [Priorities -> 0 .. NumWorkers]
<1>1. \A p \in Priorities : idleWorkers'[p] = Cardinality(Idle(p)')
  BY DEF IdleInv
<1> QED
  BY <1>1, WorkerSets

LEMMA IdleSame ==
  ASSUME TypeOK, IdleInv, UNCHANGED idleWorkers,
         \A v \in Workers : worker'[v] = "wait" <=> worker[v] = "wait"
  PROVE  IdleInv'
<1>1. \A p \in Priorities : Idle(p)' = Idle(p)
  BY DEF Idle
<1> QED
  BY <1>1 DEF IdleInv

LEMMA IdleEnters ==
  ASSUME TypeOK, IdleInv, NEW w \in Workers, worker[w] # "wait",
         worker' = [worker EXCEPT ![w] = "wait"],
         idleWorkers' = [idleWorkers EXCEPT ![MaxPriority(w)] = @ + 1]
  PROVE  IdleInv' /\ idleWorkers' \in [Priorities -> Int]
<1>1. idleWorkers \in [Priorities -> 0 .. NumWorkers] /\ DOMAIN worker = Workers
  BY DEF TypeOK
<1>2. MaxPriority(w) \in Priorities
  BY Priority
<1>3. ASSUME NEW p \in Priorities
      PROVE  idleWorkers'[p] = Cardinality(Idle(p)')
  <2>1. CASE p = MaxPriority(w)
    <3>1. Idle(p)' = Idle(p) \cup {w} /\ w \notin Idle(p)
      BY <1>1, <2>1 DEF Idle
    <3>2. Cardinality(Idle(p)') = Cardinality(Idle(p)) + 1
      BY <3>1, WorkerSets, FS_AddElement
    <3>3. idleWorkers'[p] = idleWorkers[p] + 1
      BY <1>1, <1>2, <2>1
    <3> QED
      BY <3>2, <3>3 DEF IdleInv
  <2>2. CASE p # MaxPriority(w)
    <3>1. Idle(p)' = Idle(p)
      BY <1>1, <2>2 DEF Idle
    <3>2. idleWorkers'[p] = idleWorkers[p]
      BY <1>1, <2>2
    <3> QED
      BY <3>1, <3>2 DEF IdleInv
  <2> QED
    BY <2>1, <2>2
<1>4. idleWorkers' \in [Priorities -> Int]
  BY <1>1, <1>2
<1> QED
  BY <1>3, <1>4 DEF IdleInv

LEMMA IdleLeaves ==
  ASSUME TypeOK, IdleInv, NEW w \in Workers, worker[w] = "wait", NEW v, v # "wait",
         worker' = [worker EXCEPT ![w] = v],
         idleWorkers' = [idleWorkers EXCEPT ![MaxPriority(w)] = @ - 1]
  PROVE  IdleInv' /\ idleWorkers' \in [Priorities -> Int]
<1>1. idleWorkers \in [Priorities -> 0 .. NumWorkers] /\ DOMAIN worker = Workers
  BY DEF TypeOK
<1>2. MaxPriority(w) \in Priorities
  BY Priority
<1>3. ASSUME NEW p \in Priorities
      PROVE  idleWorkers'[p] = Cardinality(Idle(p)')
  <2>1. CASE p = MaxPriority(w)
    <3>1. Idle(p)' = Idle(p) \ {w} /\ w \in Idle(p)
      BY <1>1, <2>1 DEF Idle
    <3>2. Cardinality(Idle(p)') = Cardinality(Idle(p)) - 1
      BY <3>1, WorkerSets, FS_RemoveElement
    <3>3. idleWorkers'[p] = idleWorkers[p] - 1
      BY <1>1, <1>2, <2>1
    <3> QED
      BY <3>2, <3>3 DEF IdleInv
  <2>2. CASE p # MaxPriority(w)
    <3>1. Idle(p)' = Idle(p)
      BY <1>1, <2>2 DEF Idle
    <3>2. idleWorkers'[p] = idleWorkers[p]
      BY <1>1, <2>2
    <3> QED
      BY <3>1, <3>2 DEF IdleInv
  <2> QED
    BY <2>1, <2>2
<1>4. idleWorkers' \in [Priorities -> Int]
  BY <1>1, <1>2
<1> QED
  BY <1>3, <1>4 DEF IdleInv

LEMMA CompilingSame ==
  ASSUME TypeOK,
         \A v \in Workers : worker'[v] = "compile" <=> worker[v] = "compile",
         \A v \in Workers : worker[v] = "compile" => entry'[v] = entry[v]
  PROVE  Compiling' = Compiling /\ CompilingPipelines' = CompilingPipelines
BY DEF Compiling, CompilingPipelines

LEMMA CompilingEnters ==
  ASSUME TypeOK, NEW w \in Workers, worker[w] # "compile", NEW e \in Entries,
         worker' = [worker EXCEPT ![w] = "compile"],
         entry' = [entry EXCEPT ![w] = e]
  PROVE  /\ Cardinality(Compiling') = Cardinality(Compiling) + 1
         /\ Cardinality(CompilingPipelines')
              = Cardinality(CompilingPipelines) + (IF e.pipeline THEN 1 ELSE 0)
<1>1. DOMAIN worker = Workers /\ DOMAIN entry = Workers
  BY DEF TypeOK
<1>2. Compiling' = Compiling \cup {w} /\ w \notin Compiling
  BY <1>1 DEF Compiling
<1>3. Cardinality(Compiling') = Cardinality(Compiling) + 1
  BY <1>2, WorkerSets, FS_AddElement
<1>4. CASE e.pipeline
  <2>1. CompilingPipelines' = CompilingPipelines \cup {w} /\ w \notin CompilingPipelines
    BY <1>1, <1>2, <1>4 DEF CompilingPipelines
  <2> QED
    BY <1>3, <1>4, <2>1, WorkerSets, FS_AddElement
<1>5. CASE ~e.pipeline
  <2>1. CompilingPipelines' = CompilingPipelines
    BY <1>1, <1>2, <1>5 DEF CompilingPipelines
  <2> QED
    BY <1>3, <1>5, <2>1, WorkerSets
<1> QED
  BY <1>4, <1>5

LEMMA CompilingLeaves ==
  ASSUME TypeOK, NEW w \in Workers, worker[w] = "compile",
         worker' = [worker EXCEPT ![w] = "start"],
         entry' = [entry EXCEPT ![w] = NoEntry]
  PROVE  /\ Cardinality(Compiling') = Cardinality(Compiling) - 1
         /\ Cardinality(CompilingPipelines')
              = Cardinality(CompilingPipelines) - (IF entry[w].pipeline THEN 1 ELSE 0)
<1>1. DOMAIN worker = Workers /\ DOMAIN entry = Workers
  BY DEF TypeOK
<1>2. Compiling' = Compiling \ {w} /\ w \in Compiling
  BY <1>1 DEF Compiling
<1>3. Cardinality(Compiling') = Cardinality(Compiling) - 1
  BY <1>2, WorkerSets, FS_RemoveElement
<1>4. CompilingPipelines' = CompilingPipelines \ {w}
  BY <1>1, <1>2 DEF CompilingPipelines
<1>5. w \in CompilingPipelines <=> entry[w].pipeline
  BY <1>2 DEF CompilingPipelines
<1> QED
  BY <1>3, <1>4, <1>5, WorkerSets, FS_RemoveElement

-----------------------------------------------------------------------------
(* Steps of the pool preserve the invariant                                *)

\* TypeOK without the variables of the state cache and of the device.
PoolTypeOK ==
  /\ queue \in [Priorities -> Seq(Entries)]
  /\ idleWorkers \in [Priorities -> 0 .. NumWorkers]
  /\ running \in BOOLEAN
  /\ worker \in [Workers -> {"none", "start", "wait", "compile", "exited"}]
  /\ notified \subseteq {w \in Workers : worker[w] = "wait"}
  /\ entry \in [Workers -> Entries \cup {NoEntry}]
  /\ tasksTotal \in Nat /\ tasksCompleted \in Nat /\ useCount \in Nat

PoolInv == PoolTypeOK /\ IdleInv /\ RunInv /\ CountInv /\ PendingIsServed

LEMMA PoolTypes == TypeOK => PoolTypeOK
BY DEF TypeOK, PoolTypeOK

LEMMA FirstWorkerServes ==
  ASSUME NEW p \in Priorities, p = Low => Gpl
  PROVE  MaxPriority(0) >= p /\ 0 \in Workers
<1>1. MaxPriority(0) = (IF Gpl THEN Low ELSE Normal) /\ 0 \in Workers
  BY Priority, WorkersFacts
<1> QED
  BY <1>1 DEF Priorities, High, Normal, Low

LEMMA StepKept ==
  ASSUME IInv, UNCHANGED poolVars,
         device # "undefined" \/ device' = device,
         \/ device' = device \/ device' = "undefined"
         \/ ~Joining /\ device' \notin {"alive", "join", "joinAgain"}
  PROVE  PoolInv'
<1> USE DEF poolVars
<1>1. PoolTypeOK'
  BY PoolTypes DEF IInv, PoolTypeOK
<1>2. IdleInv'
  BY DEF IInv, IdleInv, Idle
<1>3. RunInv'
  BY DEF IInv, RunInv, Joining
<1>4. UNCHANGED <<Compiling, CompilingPipelines, Jobs, QueuesHold>>
  BY DEF Compiling, CompilingPipelines, Jobs, QueuesHold, PipelinesIn
<1>5. CountInv'
  BY <1>4 DEF IInv, CountInv
<1>6. PendingIsServed'
  BY DEF IInv, PendingIsServed
<1> QED
  BY <1>1, <1>2, <1>3, <1>5, <1>6 DEF PoolInv

LEMMA StepStop ==
  ASSUME IInv, running, Stopping, Stop
  PROVE  PoolInv'
<1> USE DEF Stop
<1>1. PoolTypeOK'
  BY PoolTypes DEF IInv, PoolTypeOK
<1>2. IdleInv'
  BY DEF IInv, IdleInv, Idle
<1>3. RunInv'
  BY DEF IInv, RunInv, Joining, Stopping
<1>4. UNCHANGED <<Compiling, CompilingPipelines, Jobs, QueuesHold>>
  BY DEF Compiling, CompilingPipelines, Jobs, QueuesHold, PipelinesIn
<1>5. CountInv'
  BY <1>4 DEF IInv, CountInv, Stopping
<1>6. PendingIsServed'
  BY DEF PendingIsServed
<1> QED
  BY <1>1, <1>2, <1>3, <1>5, <1>6 DEF PoolInv

LEMMA StepJoin ==
  ASSUME IInv, Joined, Join
  PROVE  PoolInv'
<1>0. TypeOK /\ ~running /\ UNCHANGED <<queue, idleWorkers, running, notified, entry, tasksTotal,
                                        tasksCompleted, useCount>>
  BY DEF IInv, RunInv, Joining, Joined, Join
<1>1. \A v \in Workers : worker[v] = "exited" /\ worker'[v] = "none"
  BY DEF Join
<1>2. PoolTypeOK'
  <2>1. notified' \subseteq {w \in Workers : worker'[w] = "wait"}
    BY <1>0, <1>1 DEF TypeOK
  <2>2. worker' \in [Workers -> {"none", "start", "wait", "compile", "exited"}]
    BY DEF Join
  <2> QED
    BY <1>0, <2>1, <2>2 DEF TypeOK, PoolTypeOK
<1>3. IdleInv'
  BY <1>0, <1>1, IdleSame DEF IInv
<1>4. RunInv'
  BY <1>0, <1>1 DEF IInv, RunInv, Joining, Joined
<1>5. CountInv'
  <2>1. Compiling' = Compiling /\ CompilingPipelines' = CompilingPipelines
    BY <1>0, <1>1, CompilingSame
  <2>2. UNCHANGED <<Jobs, QueuesHold>>
    BY <1>0 DEF Jobs, QueuesHold, PipelinesIn
  <2> QED
    BY <1>0, <2>1, <2>2 DEF IInv, CountInv, Joined
<1>6. PendingIsServed'
  BY <1>0 DEF PendingIsServed
<1> QED
  BY <1>2, <1>3, <1>4, <1>5, <1>6 DEF PoolInv

LEMMA StepCompile ==
  ASSUME IInv, NEW p \in Priorities, NEW b \in BOOLEAN, Compile(p, b), p = Low => Gpl,
         device' = device, ~Joining \/ running, device # "undefined"
  PROVE  PoolInv'
<1>0. TypeOK /\ IdleInv /\ RunInv /\ CountInv /\ PendingIsServed
  BY DEF IInv
<1>1. /\ tasksTotal \in Nat /\ tasksTotal < MaxTasks /\ MaxTasks \in Nat /\ tasksTotal' = tasksTotal + 1
      /\ running' = TRUE
      /\ worker' = IF running THEN worker ELSE [w \in Workers |-> "start"]
      /\ useCount' = IF b THEN useCount + 1 ELSE useCount
      /\ NotifyWorkers(p)
      /\ UNCHANGED <<idleWorkers, entry, tasksCompleted>>
  BY <1>0, WorkersAssumption DEF Compile, TypeOK
<1>2. PICK e \in Entries : /\ e.pipeline = b
                           /\ queue' = [queue EXCEPT ![p] = Append(@, e)]
  <2>1. [id |-> tasksTotal + 1, pipeline |-> b] \in Entries
    BY <1>1 DEF Entries
  <2> QED
    BY <2>1 DEF Compile
<1>3. /\ queue' \in [Priorities -> Seq(Entries)]
      /\ Jobs' = Jobs + 1 /\ QueuesHold' = QueuesHold + (IF b THEN 1 ELSE 0)
      /\ \A q \in Priorities \ {p} : queue'[q] = queue[q]
  BY <1>0, <1>2, QueuePut
<1>4. ~running => \A v \in Workers : worker[v] = "none" /\ worker'[v] = "start"
  <2>1. ~running => ~Joining /\ device # "undefined"
    OBVIOUS
  <2> QED
    BY <1>0, <1>1, <2>1 DEF RunInv
<1>5. running => worker' = worker
  BY <1>1
<1>6. /\ notified \subseteq notified'
      /\ notified' \subseteq {w \in Workers : worker[w] = "wait"}
  BY <1>0, <1>1, NotifyTypes
<1>7. PoolTypeOK'
  <2>1. worker' \in [Workers -> {"none", "start", "wait", "compile", "exited"}]
    BY <1>0, <1>1 DEF TypeOK
  <2>2. notified' \subseteq {w \in Workers : worker'[w] = "wait"}
    BY <1>4, <1>5, <1>6
  <2>3. useCount' \in Nat /\ tasksTotal' \in Nat /\ tasksCompleted' \in Nat
    BY <1>0, <1>1 DEF TypeOK
  <2>4. /\ idleWorkers' \in [Priorities -> 0 .. NumWorkers] /\ running' \in BOOLEAN
        /\ entry' \in [Workers -> Entries \cup {NoEntry}]
    BY <1>0, <1>1 DEF TypeOK
  <2> QED
    BY <1>3, <2>1, <2>2, <2>3, <2>4 DEF PoolTypeOK
<1>8. IdleInv'
  BY <1>0, <1>1, <1>4, <1>5, IdleSame
<1>9. RunInv'
  <2>1. \A v \in Workers : worker'[v] \in {"start", "wait", "compile"}
    BY <1>0, <1>4, <1>5 DEF RunInv
  <2>2. ~Joining'
    BY <1>0 DEF RunInv, Joining
  <2>3. ~Gpl => queue'[Low] = <<>>
    BY <1>0, <1>3, ThreePriorities DEF RunInv
  <2> QED
    BY <1>1, <2>1, <2>2, <2>3 DEF RunInv
<1>10. CountInv'
  <2>1. Compiling' = Compiling /\ CompilingPipelines' = CompilingPipelines
    BY <1>0, <1>1, <1>4, <1>5, CompilingSame
  <2>2. Jobs \in Nat /\ QueuesHold \in Nat /\ Cardinality(Compiling) \in Nat
        /\ Cardinality(CompilingPipelines) \in Nat
    BY <1>0, QueueTypes, WorkerSets
  <2>3. tasksTotal \in Nat /\ tasksCompleted \in Nat /\ useCount \in Nat
    BY <1>0 DEF TypeOK
  <2>4. tasksTotal' <= MaxTasks
    BY <1>1
  <2> DEFINE h == IF b THEN 1 ELSE 0
  <2>5. useCount' = useCount + h /\ QueuesHold' = QueuesHold + h /\ h \in Nat
    BY <1>1, <1>3, <2>3
  <2>6. useCount' \in Nat /\ QueuesHold' \in Nat /\ Jobs' = Jobs + 1
    BY <1>1, <1>3, <2>2, <2>3
  <2> DEFINE c == Cardinality(CompilingPipelines)
             d == Cardinality(Compiling)
  <2>7. /\ useCount >= QueuesHold + c
        /\ device = "alive" => useCount = QueuesHold + c /\ tasksTotal - tasksCompleted = Jobs + d
    BY <1>0 DEF CountInv
  <2>8. c \in Nat /\ d \in Nat
    BY <2>2
  <2>9. Cardinality(CompilingPipelines') = c /\ Cardinality(Compiling') = d
    BY <2>1
  <2> HIDE DEF c, d, h
  <2>10. useCount' >= QueuesHold' + c /\ (device = "alive" => useCount' = QueuesHold' + c)
    <3>1. /\ useCount >= QueuesHold + c => useCount + h >= (QueuesHold + h) + c
          /\ useCount = QueuesHold + c => useCount + h = (QueuesHold + h) + c
      BY <2>2, <2>3, <2>5, <2>8
    <3> QED
      BY <2>5, <2>7, <3>1
  <2>11. device = "alive" => tasksTotal' - tasksCompleted' = Jobs' + d
    BY <1>1, <2>2, <2>3, <2>6, <2>7, <2>8
  <2> QED
    BY <2>4, <2>9, <2>10, <2>11 DEF CountInv
<1>11. PendingIsServed'
  <2> SUFFICES ASSUME NEW q \in Priorities, queue'[q] # <<>>
               PROVE  \E w \in Workers : MaxPriority(w) >= q
                        /\ (worker'[w] \in {"start", "compile"} \/ w \in notified')
    BY DEF PendingIsServed
  <2>1. q = Low => Gpl
    BY <1>0, <1>3 DEF RunInv
  <2>2. CASE ~running
    BY <1>4, <2>1, <2>2, FirstWorkerServes
  <2>3. CASE running /\ q = p
    <3>1. \E w \in Workers : MaxPriority(w) >= p /\ (worker[w] \in {"start", "compile"} \/ w \in notified')
      BY <1>0, <1>1, <2>3, NotifyServes
    <3> QED
      BY <1>5, <2>3, <3>1
  <2>4. CASE running /\ q # p
    <3>1. queue[q] # <<>>
      BY <1>3, <2>4
    <3>2. PICK w \in Workers : MaxPriority(w) >= q /\ (worker[w] \in {"start", "compile"} \/ w \in notified)
      BY <1>0, <2>4, <3>1 DEF PendingIsServed
    <3> QED
      BY <1>5, <1>6, <2>4, <3>2
  <2> QED
    BY <2>2, <2>3, <2>4
<1> QED
  BY <1>7, <1>8, <1>9, <1>10, <1>11 DEF PoolInv

\* A worker that has looked at the queues, with w's state and idle counter kept
\* in step by the caller.
LEMMA FetchCounts ==
  ASSUME IInv, NEW w \in Workers, worker[w] \in {"start", "wait"}, Fetch(w), Proceed(w),
         UNCHANGED <<running, tasksTotal, tasksCompleted, useCount, device>>
  PROVE  /\ queue' \in [Priorities -> Seq(Entries)]
         /\ entry' \in [Workers -> Entries \cup {NoEntry}]
         /\ \A q \in Priorities : queue'[q] # <<>> => queue[q] # <<>>
         /\ CountInv'
<1>0. TypeOK /\ RunInv /\ CountInv
  BY DEF IInv
<1>1. /\ queue \in [Priorities -> Seq(Entries)]
      /\ entry \in [Workers -> Entries \cup {NoEntry}]
      /\ worker \in [Workers -> {"none", "start", "wait", "compile", "exited"}]
      /\ worker' = [worker EXCEPT ![w] = IF running THEN "compile" ELSE "exited"]
  BY <1>0 DEF TypeOK, Proceed
<1> DEFINE c == Cardinality(CompilingPipelines)
           d == Cardinality(Compiling)
           c1 == Cardinality(CompilingPipelines')
           d1 == Cardinality(Compiling')
<1>2. /\ Jobs \in Nat /\ QueuesHold \in Nat /\ c \in Nat /\ d \in Nat /\ c1 \in Nat /\ d1 \in Nat
      /\ tasksTotal \in Nat /\ tasksCompleted \in Nat /\ useCount \in Nat
  BY <1>0, QueueTypes, WorkerSets DEF TypeOK
<1>3. /\ useCount >= QueuesHold + c /\ tasksTotal <= MaxTasks
      /\ device = "alive" => useCount = QueuesHold + c /\ tasksTotal - tasksCompleted = Jobs + d
  BY <1>0 DEF CountInv
<1>4. ~running => device # "alive"
  BY <1>0 DEF RunInv, Joining
<1>5. ~running => c1 = c
  <2>1. ASSUME ~running
        PROVE  \A v \in Workers : worker[v] = "compile" => entry'[v] = entry[v]
    BY <1>0, <1>1, <2>1, FetchCases
  <2>2. ASSUME ~running
        PROVE  \A v \in Workers : worker'[v] = "compile" <=> worker[v] = "compile"
    BY <1>1, <2>2
  <2> QED
    BY <1>0, <2>1, <2>2, CompilingSame
<1>6. CASE ~running /\ UNCHANGED <<queue, entry>>
  <2>1. UNCHANGED <<Jobs, QueuesHold>>
    BY <1>6 DEF Jobs, QueuesHold, PipelinesIn
  <2>2. CountInv'
    BY <1>3, <1>4, <1>5, <1>6, <2>1 DEF CountInv
  <2> QED
    BY <1>1, <1>6, <2>2
<1>7. ASSUME NEW p \in Priorities, queue[p] # <<>>, queue' = [queue EXCEPT ![p] = Tail(@)],
             entry' = [entry EXCEPT ![w] = IF running THEN Head(queue[p]) ELSE NoEntry]
      PROVE  /\ queue' \in [Priorities -> Seq(Entries)]
             /\ entry' \in [Workers -> Entries \cup {NoEntry}]
             /\ \A q \in Priorities : queue'[q] # <<>> => queue[q] # <<>>
             /\ CountInv'
  <2> DEFINE h == IF Head(queue[p]).pipeline THEN 1 ELSE 0
  <2>1. /\ queue' \in [Priorities -> Seq(Entries)]
        /\ Head(queue[p]) \in Entries
        /\ Jobs' = Jobs - 1 /\ QueuesHold' = QueuesHold - h
        /\ \A q \in Priorities : queue'[q] # <<>> => queue[q] # <<>>
    BY <1>0, <1>7, QueueTake
  <2>2. entry' \in [Workers -> Entries \cup {NoEntry}]
    BY <1>1, <1>7, <2>1
  <2>3. h \in Nat /\ QueuesHold' = QueuesHold - h
    BY <2>1
  <2>4. running => d1 = d + 1 /\ c1 = c + h
    <3>1. PICK e \in Entries : e = Head(queue[p])
      BY <2>1
    <3>2. ASSUME running
          PROVE  worker' = [worker EXCEPT ![w] = "compile"] /\ entry' = [entry EXCEPT ![w] = e]
      BY <1>1, <1>7, <3>1, <3>2
    <3> QED
      BY <1>0, <3>1, <3>2, CompilingEnters
  <2> HIDE DEF c, d, c1, d1, h
  <2>5. useCount >= QueuesHold' + c1
    BY <1>2, <1>3, <1>5, <2>3, <2>4
  <2>6. device = "alive" => useCount = QueuesHold' + c1
    BY <1>2, <1>3, <1>4, <2>3, <2>4
  <2>7. device = "alive" => tasksTotal - tasksCompleted = Jobs' + d1
    BY <1>2, <1>3, <1>4, <2>1, <2>4
  <2>8. CountInv'
    BY <1>3, <2>5, <2>6, <2>7 DEF CountInv, c1, d1
  <2> QED
    BY <2>1, <2>2, <2>8
<1> QED
  BY <1>0, <1>6, <1>7, FetchCases

LEMMA StepFetch ==
  ASSUME IInv, NEW w \in Workers, device' = device, Begin(w) \/ WakeUp(w)
  PROVE  PoolInv'
<1>0. TypeOK /\ IdleInv /\ RunInv /\ PendingIsServed
  BY DEF IInv
<1>1. /\ worker[w] \in {"start", "wait"} /\ Fetch(w) /\ Proceed(w)
      /\ UNCHANGED <<running, tasksTotal, tasksCompleted, useCount>>
  BY DEF Begin, WakeUp
<1>2. /\ queue' \in [Priorities -> Seq(Entries)]
      /\ entry' \in [Workers -> Entries \cup {NoEntry}]
      /\ \A q \in Priorities : queue'[q] # <<>> => queue[q] # <<>>
      /\ CountInv'
  BY <1>1, FetchCounts
<1>3. /\ worker \in [Workers -> {"none", "start", "wait", "compile", "exited"}]
      /\ worker' = [worker EXCEPT ![w] = IF running THEN "compile" ELSE "exited"]
      /\ notified \subseteq {v \in Workers : worker[v] = "wait"}
      /\ tasksTotal \in Nat /\ tasksCompleted \in Nat /\ useCount \in Nat /\ running \in BOOLEAN
      /\ idleWorkers \in [Priorities -> 0 .. NumWorkers]
  BY <1>0, <1>1 DEF TypeOK, Proceed
<1>4. notified' = notified \ {w}
  BY <1>3 DEF Begin, WakeUp
<1>5. IdleInv' /\ idleWorkers' \in [Priorities -> 0 .. NumWorkers]
  <2>1. CASE Begin(w)
    <3>1. UNCHANGED idleWorkers /\ worker[w] = "start"
      BY <2>1 DEF Begin
    <3>2. \A v \in Workers : worker'[v] = "wait" <=> worker[v] = "wait"
      BY <1>3, <3>1
    <3> QED
      BY <1>0, <1>3, <3>1, <3>2, IdleSame
  <2>2. CASE WakeUp(w)
    <3>1. worker[w] = "wait" /\ idleWorkers' = [idleWorkers EXCEPT ![MaxPriority(w)] = @ - 1]
      BY <2>2 DEF WakeUp
    <3>2. PICK v : v # "wait" /\ worker' = [worker EXCEPT ![w] = v]
      BY <1>3
    <3>3. IdleInv' /\ idleWorkers' \in [Priorities -> Int]
      BY <1>0, <3>1, <3>2, IdleLeaves
    <3> QED
      BY <1>0, <3>3, IdleTypes
  <2> QED
    BY <2>1, <2>2
<1>6. PoolTypeOK'
  <2>1. worker' \in [Workers -> {"none", "start", "wait", "compile", "exited"}]
    BY <1>3
  <2>2. notified' \subseteq {v \in Workers : worker'[v] = "wait"}
    BY <1>3, <1>4
  <2> QED
    BY <1>1, <1>2, <1>3, <1>5, <2>1, <2>2 DEF PoolTypeOK
<1>7. RunInv'
  <2>1. running \/ Joining \/ device = "undefined" \/ worker[w] = "none"
    BY <1>0 DEF RunInv
  <2>2. running => \A v \in Workers : worker'[v] \in {"start", "wait", "compile"}
    BY <1>0, <1>3 DEF RunInv
  <2>3. ~Gpl => queue'[Low] = <<>>
    BY <1>0, <1>2, ThreePriorities DEF RunInv
  <2> QED
    BY <1>0, <1>1, <2>1, <2>2, <2>3 DEF RunInv, Joining
<1>8. PendingIsServed'
  <2> SUFFICES ASSUME running', NEW q \in Priorities, queue'[q] # <<>>
               PROVE  \E v \in Workers : MaxPriority(v) >= q
                        /\ (worker'[v] \in {"start", "compile"} \/ v \in notified')
    BY DEF PendingIsServed
  <2>1. running /\ queue[q] # <<>>
    BY <1>1, <1>2
  <2>2. PICK v \in Workers : MaxPriority(v) >= q /\ (worker[v] \in {"start", "compile"} \/ v \in notified)
    BY <1>0, <2>1 DEF PendingIsServed
  <2>3. worker'[v] \in {"start", "compile"} \/ v \in notified'
    BY <1>3, <1>4, <2>1, <2>2
  <2> QED
    BY <2>2, <2>3
<1> QED
  BY <1>2, <1>5, <1>6, <1>7, <1>8 DEF PoolInv

\* A worker that finds nothing leaves every pending job to another.
LEMMA StillServed ==
  ASSUME IInv, NEW w \in Workers, Pending(w) = {}, UNCHANGED <<queue, running>>,
         \A v \in Workers \ {w} : worker'[v] = worker[v] /\ (v \in notified => v \in notified')
  PROVE  PendingIsServed'
<1> SUFFICES ASSUME running, NEW q \in Priorities, queue[q] # <<>>
             PROVE  \E v \in Workers : MaxPriority(v) >= q
                      /\ (worker'[v] \in {"start", "compile"} \/ v \in notified')
  BY DEF PendingIsServed
<1>1. PICK v \in Workers : MaxPriority(v) >= q /\ (worker[v] \in {"start", "compile"} \/ v \in notified)
  BY DEF IInv, PendingIsServed
<1>2. v # w
  <2>1. ASSUME v = w
        PROVE  q \in Pending(w)
    <3>1. MaxPriority(w) >= q /\ MaxPriority(w) \in Priorities
      BY <1>1, <2>1, Priority
    <3> QED
      BY <3>1 DEF Pending, Priorities, High, Normal, Low
  <2> QED
    BY <2>1
<1> QED
  BY <1>1, <1>2

LEMMA StepSleep ==
  ASSUME IInv, NEW w \in Workers, device' = device, Sleep(w)
  PROVE  PoolInv'
<1>0. TypeOK /\ IdleInv /\ RunInv /\ CountInv
  BY DEF IInv
<1>1. /\ worker[w] = "start" /\ Pending(w) = {} /\ running
      /\ worker' = [worker EXCEPT ![w] = "wait"]
      /\ idleWorkers' = [idleWorkers EXCEPT ![MaxPriority(w)] = @ + 1]
      /\ UNCHANGED <<queue, running, notified, entry, tasksTotal, tasksCompleted, useCount>>
  BY DEF Sleep
<1>2. /\ worker \in [Workers -> {"none", "start", "wait", "compile", "exited"}]
      /\ notified \subseteq {v \in Workers : worker[v] = "wait"}
  BY <1>0 DEF TypeOK
<1>3. IdleInv' /\ idleWorkers' \in [Priorities -> 0 .. NumWorkers]
  <2>1. worker[w] # "wait"
    BY <1>1
  <2>2. IdleInv' /\ idleWorkers' \in [Priorities -> Int]
    BY <1>0, <1>1, <2>1, IdleEnters
  <2> QED
    BY <1>0, <2>2, IdleTypes
<1>4. PoolTypeOK'
  <2>1. worker' \in [Workers -> {"none", "start", "wait", "compile", "exited"}]
    BY <1>1, <1>2
  <2>2. notified' \subseteq {v \in Workers : worker'[v] = "wait"}
    BY <1>1, <1>2
  <2> QED
    BY <1>0, <1>1, <1>3, <2>1, <2>2 DEF PoolTypeOK, TypeOK
<1>5. RunInv'
  BY <1>0, <1>1, <1>2 DEF RunInv, Joining
<1>6. CountInv'
  <2>1. Compiling' = Compiling /\ CompilingPipelines' = CompilingPipelines
    BY <1>0, <1>1, <1>2, CompilingSame
  <2>2. UNCHANGED <<Jobs, QueuesHold>>
    BY <1>1 DEF Jobs, QueuesHold, PipelinesIn
  <2> QED
    BY <1>0, <1>1, <2>1, <2>2 DEF CountInv
<1>7. PendingIsServed'
  BY <1>1, <1>2, StillServed
<1> QED
  BY <1>3, <1>4, <1>5, <1>6, <1>7 DEF PoolInv

LEMMA StepSleepAgain ==
  ASSUME IInv, NEW w \in Workers, device' = device, SleepAgain(w)
  PROVE  PoolInv'
<1>0. TypeOK /\ IdleInv /\ RunInv /\ CountInv
  BY DEF IInv
<1>1. /\ Pending(w) = {} /\ notified' = notified \ {w}
      /\ UNCHANGED <<queue, idleWorkers, running, worker, entry, tasksTotal, tasksCompleted, useCount>>
  BY DEF SleepAgain
<1>2. PoolTypeOK'
  BY <1>0, <1>1 DEF PoolTypeOK, TypeOK
<1>3. IdleInv'
  BY <1>0, <1>1, IdleSame
<1>4. RunInv'
  BY <1>0, <1>1 DEF RunInv, Joining
<1>5. CountInv'
  <2>1. UNCHANGED <<Compiling, CompilingPipelines, Jobs, QueuesHold>>
    BY <1>1 DEF Compiling, CompilingPipelines, Jobs, QueuesHold, PipelinesIn
  <2> QED
    BY <1>0, <1>1, <2>1 DEF CountInv
<1>6. PendingIsServed'
  BY <1>1, StillServed
<1> QED
  BY <1>2, <1>3, <1>4, <1>5, <1>6 DEF PoolInv

LEMMA StepFinish ==
  ASSUME IInv, NEW w \in Workers, device' = device, Finish(w)
  PROVE  PoolInv'
<1>0. TypeOK /\ IdleInv /\ RunInv /\ CountInv /\ PendingIsServed
  BY DEF IInv
<1>1. /\ worker[w] = "compile"
      /\ worker' = [worker EXCEPT ![w] = "start"]
      /\ useCount' = IF entry[w].pipeline THEN useCount - 1 ELSE useCount
      /\ entry' = [entry EXCEPT ![w] = NoEntry]
      /\ tasksCompleted' = tasksCompleted + 1
      /\ UNCHANGED <<queue, idleWorkers, running, notified, tasksTotal>>
  BY DEF Finish
<1>2. /\ worker \in [Workers -> {"none", "start", "wait", "compile", "exited"}]
      /\ notified \subseteq {v \in Workers : worker[v] = "wait"}
      /\ entry \in [Workers -> Entries \cup {NoEntry}]
      /\ tasksTotal \in Nat /\ tasksCompleted \in Nat /\ useCount \in Nat
  BY <1>0 DEF TypeOK
<1> DEFINE c == Cardinality(CompilingPipelines)
           d == Cardinality(Compiling)
           c1 == Cardinality(CompilingPipelines')
           d1 == Cardinality(Compiling')
           h == IF entry[w].pipeline THEN 1 ELSE 0
<1>3. d1 = d - 1 /\ c1 = c - h
  BY <1>0, <1>1, CompilingLeaves
<1>4. UNCHANGED <<Jobs, QueuesHold>>
  BY <1>1 DEF Jobs, QueuesHold, PipelinesIn
<1>5. useCount' = useCount - h /\ h \in Nat
  BY <1>1, <1>2
<1>6. /\ Jobs \in Nat /\ QueuesHold \in Nat /\ c \in Nat /\ d \in Nat /\ c1 \in Nat /\ d1 \in Nat
  BY <1>0, QueueTypes, WorkerSets
<1>7. /\ useCount >= QueuesHold + c /\ tasksTotal <= MaxTasks
      /\ device = "alive" => useCount = QueuesHold + c /\ tasksTotal - tasksCompleted = Jobs + d
  BY <1>0 DEF CountInv
<1>8. CountInv'
  <2> HIDE DEF c, d, c1, d1, h
  <2>1. useCount' >= QueuesHold + c1
    BY <1>2, <1>3, <1>5, <1>6, <1>7
  <2>2. device = "alive" => useCount' = QueuesHold + c1
    BY <1>2, <1>3, <1>5, <1>6, <1>7
  <2>3. device = "alive" => tasksTotal - tasksCompleted' = Jobs + d1
    BY <1>1, <1>2, <1>3, <1>6, <1>7
  <2> QED
    BY <1>1, <1>4, <1>7, <2>1, <2>2, <2>3 DEF CountInv, c1, d1
<1>9. PoolTypeOK'
  <2>1. useCount' \in Nat
    <3> HIDE DEF c, d, c1, d1, h
    <3> QED
      BY <1>2, <1>3, <1>5, <1>6, <1>7
  <2>2. worker' \in [Workers -> {"none", "start", "wait", "compile", "exited"}]
    BY <1>1, <1>2
  <2>3. notified' \subseteq {v \in Workers : worker'[v] = "wait"}
    BY <1>1, <1>2
  <2>4. entry' \in [Workers -> Entries \cup {NoEntry}]
    BY <1>1, <1>2
  <2> QED
    BY <1>0, <1>1, <1>2, <2>1, <2>2, <2>3, <2>4 DEF PoolTypeOK, TypeOK
<1>10. IdleInv'
  BY <1>0, <1>1, <1>2, IdleSame
<1>11. RunInv'
  BY <1>0, <1>1, <1>2 DEF RunInv, Joining
<1>12. PendingIsServed'
  BY <1>0, <1>1, <1>2 DEF PendingIsServed
<1> QED
  BY <1>8, <1>9, <1>10, <1>11, <1>12 DEF PoolInv

LEMMA NextInv == IInv /\ [Next]_vars => IInv'
<1> SUFFICES ASSUME IInv, [Next]_vars PROVE IInv'
  OBVIOUS
<1>1. TypeOK
  BY DEF IInv
<1>2. device # "undefined" \/ (UNCHANGED poolVars /\ device' = device)
  BY NotUndefined DEF vars
<1>3. PoolInv'
  <2>1. CASE /\ UNCHANGED poolVars
             /\ \/ device' = device \/ device' = "undefined"
                \/ ~Joining /\ device' \notin {"alive", "join", "joinAgain"}
    BY <1>2, <2>1, StepKept
  <2>2. ASSUME NEW p \in Priorities, NEW b \in BOOLEAN, Compile(p, b), p = Low => Gpl,
               device' = device, ~Joining \/ running, device # "undefined"
        PROVE  PoolInv'
    BY <2>2, StepCompile
  <2>3. ASSUME device' = device, NEW w \in Workers, Worker(w)
        PROVE  PoolInv'
    BY <2>3, StepFetch, StepSleep, StepSleepAgain, StepFinish DEF Worker
  <2>4. CASE running /\ Stopping /\ Stop
    BY <2>4, StepStop
  <2>5. CASE Joined /\ Join
    BY <2>5, StepJoin
  <2> QED
    BY <1>2, <2>1, <2>2, <2>3, <2>4, <2>5, StepCases, Zenon DEF PoolCases
<1>4. TypeOK'
  BY <1>1, <1>3, OtherTypes DEF PoolInv, PoolTypeOK, TypeOK
<1> QED
  BY <1>3, <1>4 DEF PoolInv, IInv

\* The idle counters are exact, the counts are kept, and nobody sleeps on a job.
THEOREM Invariance == Spec => []IInv
BY InitInv, NextInv, PTL DEF Spec

\* No job waits for another job to be queued before a worker looks at it: the
\* notification of notifyWorkers, which goes to one bucket only and is lost if
\* that bucket's workers have all been notified, is always enough.
THEOREM PendingServed == Spec => []PendingIsServed
<1>1. IInv => PendingIsServed
  BY DEF IInv
<1> QED
  BY <1>1, Invariance, PTL

-----------------------------------------------------------------------------
(* JobsAccounted                                                           *)

LEMMA PairCount ==
  ASSUME NEW p, NEW S, IsFiniteSet(S)
  PROVE  /\ IsFiniteSet({<<p, i>> : i \in S})
         /\ Cardinality({<<p, i>> : i \in S}) = Cardinality(S)
<1> DEFINE T == {<<p, i>> : i \in S}
           f == [i \in S |-> <<p, i>>]
<1>1. f \in Bijection(S, T)
  <2>1. f \in [S -> T]
    OBVIOUS
  <2>2. \A i, j \in S : f[i] = f[j] => i = j
    OBVIOUS
  <2>3. \A t \in T : \E i \in S : f[i] = t
    OBVIOUS
  <2> QED
    BY <2>1, <2>2, <2>3 DEF Bijection, Injection, Surjection, IsInjective
<1>2. ExistsBijection(S, T)
  BY <1>1 DEF ExistsBijection
<1> QED
  BY <1>2, FS_Bijection

LEMMA TwoDisjoint ==
  ASSUME NEW A, NEW B, IsFiniteSet(A), IsFiniteSet(B), A \cap B = {}
  PROVE  IsFiniteSet(A \cup B) /\ Cardinality(A \cup B) = Cardinality(A) + Cardinality(B)
<1>1. /\ IsFiniteSet(A \cup B)
      /\ Cardinality(A \cup B) = Cardinality(A) + Cardinality(B) - Cardinality(A \cap B)
  BY FS_Union
<1>2. Cardinality(A \cap B) = 0 /\ Cardinality(A) \in Nat /\ Cardinality(B) \in Nat
  BY FS_EmptySet, FS_CardinalityType
<1> QED
  BY <1>1, <1>2

LEMMA ThreeDisjoint ==
  ASSUME NEW A, NEW B, NEW C, IsFiniteSet(A), IsFiniteSet(B), IsFiniteSet(C),
         A \cap B = {}, (A \cup B) \cap C = {}
  PROVE  Cardinality((A \cup B) \cup C) = Cardinality(A) + Cardinality(B) + Cardinality(C)
<1>1. IsFiniteSet(A \cup B) /\ Cardinality(A \cup B) = Cardinality(A) + Cardinality(B)
  BY TwoDisjoint
<1>2. Cardinality((A \cup B) \cup C) = Cardinality(A \cup B) + Cardinality(C)
  BY <1>1, TwoDisjoint
<1> QED
  BY <1>1, <1>2

LEMMA QueuedCounts ==
  ASSUME TypeOK
  PROVE  /\ Cardinality(Queued) = Jobs
         /\ Cardinality({x \in Queued : queue[x[1]][x[2]].pipeline}) = QueuesHold
<1> DEFINE All(p) == {<<p, i>> : i \in 1 .. Len(queue[p])}
           Held(p) == {<<p, i>> : i \in PipelinesIn(queue[p])}
<1>1. ASSUME NEW p \in Priorities
      PROVE  /\ IsFiniteSet(All(p)) /\ Cardinality(All(p)) = Len(queue[p])
             /\ IsFiniteSet(Held(p)) /\ Cardinality(Held(p)) = Cardinality(PipelinesIn(queue[p]))
  <2>1. queue[p] \in Seq(Entries) /\ Len(queue[p]) \in Nat
    BY QueueTypes
  <2>2. IsFiniteSet(1 .. Len(queue[p])) /\ Cardinality(1 .. Len(queue[p])) = Len(queue[p])
    BY <2>1, FS_Interval
  <2>3. IsFiniteSet(PipelinesIn(queue[p]))
    BY <2>1, CountFinite
  <2> QED
    BY <2>2, <2>3, PairCount
<1>2. Queued = (All(High) \cup All(Normal)) \cup All(Low)
  BY DEF Queued, Priorities
<1>3. {x \in Queued : queue[x[1]][x[2]].pipeline} = (Held(High) \cup Held(Normal)) \cup Held(Low)
  <2>1. \A p \in Priorities : \A i \in 1 .. Len(queue[p]) :
          i \in PipelinesIn(queue[p]) <=> queue[p][i].pipeline
    BY DEF PipelinesIn
  <2>2. \A p \in Priorities : PipelinesIn(queue[p]) \subseteq 1 .. Len(queue[p])
    BY DEF PipelinesIn
  <2>3. ASSUME NEW p \in Priorities
        PROVE  Held(p) = {x \in All(p) : queue[x[1]][x[2]].pipeline}
    BY <2>1, <2>2
  <2>4. /\ Held(High) = {x \in All(High) : queue[x[1]][x[2]].pipeline}
        /\ Held(Normal) = {x \in All(Normal) : queue[x[1]][x[2]].pipeline}
        /\ Held(Low) = {x \in All(Low) : queue[x[1]][x[2]].pipeline}
    BY <2>3, ThreePriorities
  <2> HIDE DEF All, Held
  <2> QED
    BY <1>2, <2>4
<1>4. /\ All(High) \cap All(Normal) = {} /\ (All(High) \cup All(Normal)) \cap All(Low) = {}
      /\ Held(High) \cap Held(Normal) = {} /\ (Held(High) \cup Held(Normal)) \cap Held(Low) = {}
  BY ThreePriorities
<1> HIDE DEF All, Held
<1>5. Cardinality(Queued) = Len(queue[High]) + Len(queue[Normal]) + Len(queue[Low])
  <2>1. Cardinality((All(High) \cup All(Normal)) \cup All(Low))
          = Cardinality(All(High)) + Cardinality(All(Normal)) + Cardinality(All(Low))
    BY <1>1, <1>4, ThreePriorities, ThreeDisjoint
  <2> QED
    BY <1>1, <1>2, <2>1, ThreePriorities
<1>6. Cardinality((Held(High) \cup Held(Normal)) \cup Held(Low)) = QueuesHold
  <2>1. Cardinality((Held(High) \cup Held(Normal)) \cup Held(Low))
          = Cardinality(Held(High)) + Cardinality(Held(Normal)) + Cardinality(Held(Low))
    BY <1>1, <1>4, ThreePriorities, ThreeDisjoint
  <2> QED
    BY <1>1, <2>1, ThreePriorities DEF QueuesHold
<1> QED
  BY <1>3, <1>5, <1>6 DEF Jobs

\* The progress that is shown is exact while the device lives, and no pipeline is
\* released twice or never: m_tasksTotal - m_tasksCompleted is what is queued or
\* compiled, and m_useCount what queues and compiler threads hold.
THEOREM JobsAreAccounted == Spec => []JobsAccounted
<1>1. ASSUME IInv
      PROVE  JobsAccounted
  <2>1. TypeOK /\ CountInv
    BY <1>1 DEF IInv
  <2> QED
    BY <2>1, QueuedCounts DEF JobsAccounted, CountInv, CompilingPipelines
<1> QED
  BY <1>1, Invariance, PTL
-----------------------------------------------------------------------------
(* Teardown                                                                *)

\* The compiler threads stay stopped unless the state cache worker starts them, which it
\* can do until it has been joined.
TearInv ==
  /\ device \in {"cache", "cacheJoin", "objects"} /\ ~restarted => ~running
  /\ device = "joinAgain" => restarted
  /\ device \in {"objects", "joinAgain", "gone"} => cache \in {"none", "exited"}
  /\ device = "gone" => ~running

LEMMA NextTear == IInv /\ TearInv /\ [Next]_vars => TearInv'
<1> SUFFICES ASSUME IInv, TearInv, [Next]_vars PROVE TearInv'
  OBVIOUS
<1> USE DEF TearInv
<1>1. CASE UNCHANGED vars
  BY <1>1 DEF vars, poolVars, cacheVars
<1>2. CASE RegisterShader \/ RequestCompileShader \/ CompileOptimized
  BY <1>2 DEF RegisterShader, RequestCompileShader, CompileOptimized, cacheVars
<1>3. CASE CacheRegisterShader
  BY <1>3 DEF CacheRegisterShader, poolVars
<1>4. CASE CacheLoop
  BY <1>4 DEF CacheLoop, poolVars
<1>5. CASE CacheCompile
  BY <1>5 DEF CacheCompile, Joining
<1>6. CASE CacheItemDone
  BY <1>6 DEF CacheItemDone, poolVars
<1>7. CASE Destroy
  BY <1>7 DEF Destroy, poolVars, cacheVars
<1>8. CASE StopWorkers
  BY <1>8 DEF StopWorkers, Stop, poolVars, cacheVars
<1>9. CASE JoinWorkers
  BY <1>9 DEF JoinWorkers, Join, cacheVars, IInv, RunInv, Joining
<1>10. CASE StopCache \/ JoinCache
  BY <1>10 DEF StopCache, JoinCache, poolVars, cacheVars
<1>11. CASE StopAgain
  BY <1>11 DEF StopAgain, Stop, poolVars, cacheVars
<1>12. CASE JoinAgain
  BY <1>12 DEF JoinAgain, Join, cacheVars, IInv, RunInv, Joining
<1>13. CASE \E w \in Workers : Worker(w)
  BY <1>13 DEF Worker, Begin, Sleep, WakeUp, SleepAgain, Finish, cacheVars
<1> QED
  BY <1>1, <1>2, <1>3, <1>4, <1>5, <1>6, <1>7, <1>8, <1>9, <1>10, <1>11, <1>12, <1>13
  DEF Next, CacheWorker, Teardown

\* The safety half of DestroyReturns, whatever the state cache worker is doing while the
\* device is destroyed: the compiler threads are there again when shaders and pipelines are
\* destroyed only if it has started them after the first stop, and none is left, or
\* joinable, at the end, as the second stop (~DxvkPipelineWorkers) comes when the state
\* cache worker is gone.
THEOREM DestroyJoinsAll == Spec => []TornDown
<1>1. Init => TearInv
  BY DEF Init, PoolInit, TearInv
<1>2. IInv /\ TearInv /\ [Next]_vars => TearInv'
  BY NextTear
<1>3. IInv /\ TearInv => TornDown
  BY DEF IInv, RunInv, Joining, TearInv, TornDown
<1> QED
  BY <1>1, <1>2, <1>3, Invariance, PTL DEF Spec

=============================================================================
