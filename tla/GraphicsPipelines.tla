------------------------- MODULE GraphicsPipelines -------------------------
(***************************************************************************)
(* The lifetime of Vulkan pipelines (DxvkGraphicsPipeline and               *)
(* DxvkShaderPipelineLibrary) on a device that tracks it, as 32-bit ones    *)
(* do. An instance for a state vector is linked from shader libraries       *)
(* first; a compiler thread replaces it by an optimized pipeline later.     *)
(* What is linked is destroyed when nobody uses the DxvkGraphicsPipeline    *)
(* any more: no command list, and no compile job. Libraries are compiled    *)
(* when they are needed and destroyed with the last pipeline linked from    *)
(* them.                                                                   *)
(*                                                                         *)
(* A critical section of a pipeline's m_mutex is one action. Each pipeline  *)
(* has one base pipeline, all of them of one library; compiling succeeds    *)
(* and linking may fail. Compile jobs are taken in any order, since there   *)
(* are several threads (PipelineWorkers).                                   *)
(***************************************************************************)
EXTENDS Integers, Sequences, FiniteSets

CONSTANTS
  Pipelines,    \* DxvkGraphicsPipeline objects
  States,       \* state vectors
  Drawn,        \* pairs of them that draws use
  Linkable,     \* ... and canCreateBasePipeline accepts
  MaxJobs,      \* bound: compile jobs
  MaxInFlight   \* bound: command lists that are submitted and not reset

ASSUME PipelinesAssumption ==
  /\ Linkable \subseteq Drawn /\ Drawn \subseteq Pipelines \X States
  /\ MaxJobs \in Nat /\ MaxInFlight \in Nat

VARIABLES
  instance,      \* m_pipelines of a pipeline: for a state, the handles an instance has
  basePipeline,  \* m_basePipelines of a pipeline: "none", "linked" or, without handle, "failed"
  useCount,      \* m_useCount of a pipeline
  library,       \* the shader library: its handle, m_useCount, m_compiledOnce
  context,       \* the CS thread: "idle", or in getPipelineHandle: "job", "fast", "base"
  bound,         \* ... for this pipeline and state
  current,       \* its command list: the pipelines it uses, and the base ones among them
  inFlight,      \* command lists that are submitted, or being reset
  jobs           \* compile jobs, with how far they are: "queued", "compile", "release", "done"

pipelineVars == <<instance, basePipeline, useCount, library>>
contextVars  == <<context, bound, current, inFlight>>
vars         == <<pipelineVars, contextVars, jobs>>

NoInstance == [exists |-> FALSE, base |-> FALSE, fast |-> FALSE, isCompiling |-> FALSE]

Unused == [pipelines |-> {}, base |-> {}]

Init ==
  /\ instance = [g \in Pipelines |-> [s \in States |-> NoInstance]]
  /\ basePipeline = [g \in Pipelines |-> "none"]
  /\ useCount = [g \in Pipelines |-> 0]
  /\ library = [handle |-> FALSE, useCount |-> 0, compiledOnce |-> FALSE]
  /\ context = "idle" /\ bound = <<>>
  /\ current = Unused /\ inFlight = <<>>
  /\ jobs = <<>>

-----------------------------------------------------------------------------
(* Instances and use counts                                                *)

\* Mutant: an instance that is linked counts as compiled.
NewInstanceCompiled(g, base) ==
  [exists |-> TRUE, base |-> base, fast |-> ~base, isCompiling |-> TRUE]

\* createInstance: without a base pipeline it is compiled at once.
NewInstance(g, base) ==
  [exists |-> TRUE, base |-> base, fast |-> ~base, isCompiling |-> ~base]

\* acquirePipelineHandle compiles the library when it is not there; the last
\* releasePipelineHandle destroys it.
AcquireLibrary ==
  library' = [handle |-> TRUE, useCount |-> library.useCount + 1, compiledOnce |-> TRUE]

ReleaseLibrary ==
  library' = [library EXCEPT !.useCount = @ - 1, !.handle = @ /\ library.useCount > 1]

\* getBasePipeline finds the base pipeline or links it, for which it needs the library. All the
\* linked instances of the pipeline have this handle.
LinkBase(g) ==
  IF basePipeline[g] # "none" THEN UNCHANGED <<basePipeline, library>>
  ELSE /\ \E result \in {"linked", "failed"} : basePipeline' = [basePipeline EXCEPT ![g] = result]
       /\ AcquireLibrary

CreateInstance(g, s, link) ==
  /\ IF link THEN LinkBase(g) ELSE UNCHANGED <<basePipeline, library>>
  /\ instance' = [instance EXCEPT ![g][s] = NewInstance(g, link /\ basePipeline'[g] = "linked")]

AcquirePipeline(g) == useCount' = [useCount EXCEPT ![g] = @ + 1]

DestroyBase(g) ==
  /\ instance' = [instance EXCEPT ![g] = [s \in States |-> [@[s] EXCEPT !.base = FALSE]]]
  /\ basePipeline' = [basePipeline EXCEPT ![g] = "none"]
  /\ ReleaseLibrary

\* The last user destroys what is linked; optimized pipelines stay.
ReleasePipeline(g) ==
  /\ useCount' = [useCount EXCEPT ![g] = @ - 1]
  /\ IF useCount[g] > 1 \/ basePipeline[g] = "none"
     THEN UNCHANGED <<instance, basePipeline, library>>
     ELSE DestroyBase(g)

-----------------------------------------------------------------------------
(* The CS thread                                                           *)

\* Mutant: a job does not hold its pipeline.
QueueUnheld(g, s) ==
  /\ Len(jobs) < MaxJobs
  /\ UNCHANGED useCount
  /\ jobs' = Append(jobs, [pipeline |-> g, state |-> s, at |-> "queued"])
  /\ UNCHANGED <<instance, basePipeline, library>>

\* compileGraphicsPipeline
Queue(g, s) ==
  /\ Len(jobs) < MaxJobs
  /\ AcquirePipeline(g)
  /\ jobs' = Append(jobs, [pipeline |-> g, state |-> s, at |-> "queued"])
  /\ UNCHANGED <<instance, basePipeline, library>>

\* updateGraphicsPipeline: the command list uses the pipeline from now on. It does so again
\* when the pipeline is bound again; one use stands for all of them.
TrackGraphicsPipeline(g) ==
  /\ context = "idle" /\ g \notin current.pipelines
  /\ AcquirePipeline(g)
  /\ current' = [current EXCEPT !.pipelines = @ \cup {g}]
  /\ UNCHANGED <<instance, basePipeline, library, context, bound, inFlight, jobs>>

\* getPipelineHandle: the instance is found or created ...
GetPipelineHandle(g, s) ==
  /\ context = "idle" /\ g \in current.pipelines
  /\ bound' = <<g, s>>
  /\ IF instance[g][s].exists THEN context' = "fast" /\ UNCHANGED <<instance, basePipeline, library>>
     ELSE /\ CreateInstance(g, s, <<g, s>> \in Linkable)
          /\ context' = IF instance'[g][s].fast THEN "fast" ELSE "job"
  /\ UNCHANGED <<useCount, current, inFlight, jobs>>

\* ... and is to be optimized, which is queued without holding m_mutex; ...
CompileOptimized ==
  /\ context = "job"
  /\ Queue(bound[1], bound[2])
  /\ context' = "fast"
  /\ UNCHANGED <<bound, current, inFlight>>

\* ... then the handles are read one after the other, and one is recorded.
LoadFast ==
  /\ context = "fast"
  /\ IF instance[bound[1]][bound[2]].fast THEN context' = "idle" /\ bound' = <<>>
     ELSE context' = "base" /\ UNCHANGED bound
  /\ UNCHANGED <<pipelineVars, current, inFlight, jobs>>

LoadBase ==
  /\ context = "base"
  /\ context' = "idle" /\ bound' = <<>>
  /\ current' = IF instance[bound[1]][bound[2]].base
                THEN [current EXCEPT !.base = @ \cup {bound[1]}] ELSE current
  /\ UNCHANGED <<pipelineVars, inFlight, jobs>>

FlushCommandList ==
  /\ context = "idle" /\ current # Unused /\ Len(inFlight) < MaxInFlight
  /\ inFlight' = Append(inFlight, current) /\ current' = Unused
  /\ UNCHANGED <<pipelineVars, context, bound, jobs>>

-----------------------------------------------------------------------------
(* Other threads                                                           *)

\* DxvkCommandList::reset, after the GPU is done: pipelines are released one by one.
ResetCommandList ==
  /\ inFlight # <<>>
  /\ \E g \in Head(inFlight).pipelines :
       LET left == [pipelines |-> Head(inFlight).pipelines \ {g}, base |-> {}]
       IN /\ ReleasePipeline(g)
          /\ inFlight' = IF left = Unused THEN Tail(inFlight) ELSE [inFlight EXCEPT ![1] = left]
  /\ UNCHANGED <<context, bound, current, jobs>>

\* The state cache knows states the pipeline was used with.
CacheCompile(g, s) == Queue(g, s) /\ UNCHANGED contextVars

Step(i, from, to) == jobs[i].at = from /\ jobs' = [jobs EXCEPT ![i].at = to]

\* compilePipeline creates instances that cannot be linked. Another thread may compile the
\* instance already.
CompilePipeline(i) ==
  LET g == jobs[i].pipeline
      s == jobs[i].state
  IN /\ IF instance[g][s].exists /\ ~instance[g][s].isCompiling
        THEN /\ Step(i, "queued", "compile")
             /\ instance' = [instance EXCEPT ![g][s].isCompiling = TRUE]
             /\ UNCHANGED <<basePipeline, library>>
        ELSE /\ Step(i, "queued", "release")
             /\ IF instance[g][s].exists \/ <<g, s>> \in Linkable
                THEN UNCHANGED <<instance, basePipeline, library>>
                ELSE CreateInstance(g, s, FALSE)
     /\ UNCHANGED <<useCount, contextVars>>

\* The optimized pipeline is compiled ...
StoreFast(i) ==
  /\ Step(i, "compile", "release")
  /\ instance' = [instance EXCEPT ![jobs[i].pipeline][jobs[i].state].fast = TRUE]
  /\ UNCHANGED <<basePipeline, useCount, library, contextVars>>

\* ... and the pipeline is released.
FinishJob(i) ==
  /\ Step(i, "release", "done")
  /\ ReleasePipeline(jobs[i].pipeline)
  /\ UNCHANGED contextVars

\* DxvkShaderPipelineLibrary::compilePipeline, for the driver's cache only: the handle is
\* destroyed at once.
CompileLibrary ==
  /\ ~library.compiledOnce
  /\ library' = [library EXCEPT !.handle = FALSE, !.compiledOnce = TRUE]
  /\ UNCHANGED <<instance, basePipeline, useCount, contextVars, jobs>>

-----------------------------------------------------------------------------
Compiler(i) == CompilePipeline(i) \/ StoreFast(i) \/ FinishJob(i)

Next ==
  \/ \E g \in Pipelines : TrackGraphicsPipeline(g)
  \/ \E d \in Drawn : GetPipelineHandle(d[1], d[2]) \/ CacheCompile(d[1], d[2])
  \/ CompileOptimized \/ LoadFast \/ LoadBase \/ FlushCommandList
  \/ ResetCommandList
  \/ CompileLibrary
  \/ \E i \in DOMAIN jobs : Compiler(i)

Spec == Init /\ [][Next]_vars

\* Compiler threads take every job, and compiling takes a finite time.
FairSpec == Spec /\ \A i \in 1 .. MaxJobs : WF_vars(i \in DOMAIN jobs /\ Compiler(i))

-----------------------------------------------------------------------------
(* Properties                                                              *)

Handles == [exists : BOOLEAN, base : BOOLEAN, fast : BOOLEAN, isCompiling : BOOLEAN]

TypeOK ==
  /\ instance \in [Pipelines -> [States -> Handles]]
  /\ basePipeline \in [Pipelines -> {"none", "linked", "failed"}]
  /\ useCount \in [Pipelines -> Nat]
  /\ library \in [handle : BOOLEAN, useCount : Nat, compiledOnce : BOOLEAN]
  /\ context \in {"idle", "job", "fast", "base"}
  /\ current.base \subseteq current.pipelines

Recorded == current.base \cup UNION {inFlight[i].base : i \in DOMAIN inFlight}

\* What is linked lives as long as a command list that may execute it, and no instance keeps
\* the handle of what is destroyed; yet no instance is ever left without a handle, so that no
\* draw is skipped. The library lives as long as something is linked from it, and no longer.
HandlesAlive ==
  /\ TypeOK
  /\ \A g \in Recorded : basePipeline[g] = "linked"
  /\ \A g \in Pipelines, s \in States :
       /\ instance[g][s].base => basePipeline[g] = "linked"
       /\ instance[g][s].exists => instance[g][s].base \/ instance[g][s].fast
  /\ library.useCount = Cardinality({g \in Pipelines : basePipeline[g] # "none"})
  /\ library.handle = (library.useCount > 0)

\* Every instance that is linked gets its optimized pipeline, whoever compiles it, as soon as
\* this could be queued; and base pipelines are destroyed when they are no longer needed.
InstancesOptimized ==
  /\ \A g \in Pipelines, s \in States :
       (instance[g][s].exists /\ ~(context = "job" /\ bound = <<g, s>>)) ~> instance[g][s].fast
  /\ \A g \in Pipelines :
       []((\A i \in DOMAIN jobs : jobs[i].pipeline = g => jobs[i].at = "done")
            /\ (\A l \in {current} \cup {inFlight[i] : i \in DOMAIN inFlight} : g \notin l.pipelines)
          => basePipeline[g] = "none")
=============================================================================
