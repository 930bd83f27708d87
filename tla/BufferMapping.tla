--------------------------- MODULE BufferMapping ---------------------------
(***************************************************************************)
(* One mappable buffer of the D3D11 immediate context, from the application *)
(* to the GPU: MapBuffer and WaitForResource (src/d3d11/                    *)
(* d3d11_context_imm.cpp), chunks of commands on their way to the CS        *)
(* thread, the renaming of the buffer (DxvkContext::invalidateBuffer), its  *)
(* two free lists of slices (DxvkBuffer), and command lists until they are  *)
(* reset.  A contents is a number: every write in program order makes the   *)
(* next one.  That DxvkCsThread::synchronize waits for the chunk it is      *)
(* asked for, and the submission queue for command lists, is what CsThread  *)
(* and SubmissionQueue show.                                                *)
(***************************************************************************)
EXTENDS Integers, Sequences, FiniteSets

CONSTANTS
  Slices,       \* backing slices of the buffer
  MaxSliceCount, \* bound: slices of a new backing buffer
  MaxCalls      \* bound: calls of the application

ASSUME MappingAssumption ==
  Slices # {} /\ IsFiniteSet(Slices) /\ MaxSliceCount \in Nat \ {0} /\ MaxCalls \in Nat

VARIABLES
  kind,        \* what is fixed when the buffer is created, see Kinds
  calls,       \* calls of the application so far
  pc,          \* where it is in MapBuffer
  map,         \* the call of MapBuffer: type, flags, what it found
  access,      \* what it may do with the mapped memory: "none", "read", "write"
  latest,      \* contents of the buffer in program order
  mapped,      \* D3D11Buffer::m_mapped
  seqNum,      \* D3D11Buffer::m_seq
  chunk,       \* m_csChunk
  csSeqNum,    \* m_csSeqNum
  flushSeqNum, \* m_flushSeqNum
  chunks,      \* dispatched chunks, the first of which is being executed
  executed,    \* m_chunksExecuted
  physSlice,   \* DxvkBuffer::m_physSlice
  freeSlices,  \* m_freeSlices
  nextSlices,  \* m_nextSlices
  allocated,   \* history: slices of the backing buffers that exist
  list,        \* the command list that is being recorded
  submitted,   \* command lists in the submission queue
  retired,     \* slices of the command list that is to be reset
  contents     \* contents of the slices

appVars  == <<kind, calls, pc, map, access, latest, mapped, seqNum>>
csVars   == <<chunk, csSeqNum, flushSeqNum, chunks>>
freeVars == <<freeSlices, nextSlices, allocated>>
execVars == <<executed, physSlice, list>>
gpuVars  == <<submitted, retired>>
vars     == <<appVars, csVars, freeVars, execVars, gpuVars, contents>>

\* tracked: HasSequenceNumber, the last chunk that uses the buffer is known.
\* copy: it is too large to be discarded implicitly, or has memory that is slow
\* or fast to read.  slices: m_physSliceCount, which does not grow here.
Kinds == [tracked : BOOLEAN, copy : {"too large", "uncached", "cached"}, slices : 1 .. MaxSliceCount]

\* A command list: what it does with the buffer, how much of that the GPU has
\* done, and the slices that are free once it is reset.
NewList == [uses |-> <<>>, done |-> 0, freed |-> {}]

NoMap == [type |-> "none", wait |-> FALSE, target |-> 0, written |-> FALSE]

\* The slice the buffer is created with.
FirstSlice == CHOOSE s \in Slices : TRUE

Init ==
  /\ kind \in Kinds
  /\ calls = 0 /\ pc = "idle" /\ map = NoMap /\ access = "none" /\ latest = 0
  /\ mapped = FirstSlice /\ physSlice = FirstSlice
  /\ seqNum = 0
  /\ chunk = <<>> /\ csSeqNum = 0 /\ flushSeqNum = 0 /\ chunks = <<>> /\ executed = 0
  /\ freeSlices = {} /\ nextSlices = {} /\ allocated = {FirstSlice}
  /\ list = NewList /\ submitted = <<>> /\ retired = <<>>
  /\ contents = [s \in Slices |-> 0]

-----------------------------------------------------------------------------
(* Commands and chunks                                                     *)

\* A command; the slice and contents are those of its time in program order.
Command(op) == [op |-> op, slice |-> mapped, contents |-> latest]

Invalidate(s) == [Command("invalidate") EXCEPT !.slice = s]

FlushCommand == [op |-> "flush", slice |-> mapped, contents |-> 0]

\* GetCurrentSequenceNumber: an empty chunk is never dispatched.
CurrentSequenceNumber == IF chunk = <<>> THEN csSeqNum ELSE csSeqNum + 1

EmitCsChunk(c) ==
  /\ chunks' = Append(chunks, c)
  /\ csSeqNum' = csSeqNum + 1
  /\ chunk' = <<>>

EmitCs(c) == chunk' = Append(chunk, c) /\ UNCHANGED <<csSeqNum, chunks>>

\* ExecuteFlush: nothing to do if there are no chunks since the last one.
ExecuteFlush ==
  IF CurrentSequenceNumber = flushSeqNum THEN UNCHANGED csVars
  ELSE EmitCsChunk(Append(chunk, FlushCommand)) /\ flushSeqNum' = csSeqNum'

FlushCsChunk ==
  IF chunk = <<>> THEN UNCHANGED <<chunk, csSeqNum, chunks>> ELSE EmitCsChunk(chunk)

SequenceNumber == IF kind.tracked THEN seqNum ELSE csSeqNum'

\* SynchronizeCsThread up to its wait.
SynchronizeBegin(next) ==
  /\ IF kind.tracked /\ seqNum <= csSeqNum
     THEN UNCHANGED <<chunk, csSeqNum, chunks>> ELSE FlushCsChunk
  /\ map' = [map EXCEPT !.target = SequenceNumber]
  /\ pc' = next
  /\ UNCHANGED flushSeqNum

Synchronized == executed >= map.target

-----------------------------------------------------------------------------
(* Slices                                                                  *)

Unallocated == Slices \ allocated

\* The slices of a new backing buffer; Slices may hold fewer for the last one.
NewSlices ==
  CHOOSE new \in SUBSET Unallocated :
    \/ Cardinality(new) = kind.slices
    \/ new = Unallocated /\ Cardinality(new) < kind.slices

\* allocSlice: from the free list, the other one, or new memory, all slices of
\* which become free at once.
AllocSlice(s) ==
  \/ /\ s \in freeSlices
     /\ freeSlices' = freeSlices \ {s}
     /\ UNCHANGED <<nextSlices, allocated>>
  \/ /\ freeSlices = {} /\ s \in nextSlices
     /\ freeSlices' = nextSlices \ {s} /\ nextSlices' = {}
     /\ UNCHANGED allocated
  \/ /\ freeSlices = {} /\ nextSlices = {} /\ s \in NewSlices
     /\ s = CHOOSE x \in NewSlices : TRUE
     /\ allocated' = allocated \cup NewSlices
     /\ freeSlices' = NewSlices \ {s}
     /\ UNCHANGED nextSlices

\* isInUse: tracked from the execution of a command by the CS thread until its
\* command list is done.
InUse(type) ==
  \E l \in {list} \cup {submitted[i] : i \in 1 .. Len(submitted)} :
    \E i \in 1 .. Len(l.uses) : type = "read" \/ l.uses[i].op = "write"

-----------------------------------------------------------------------------
(* The application                                                         *)

Idle == pc = "idle" /\ access = "none"

Call == Idle /\ calls < MaxCalls /\ calls' = calls + 1

\* A command of the context reads or writes the buffer.  If it tracks another
\* resource first, ConsiderFlush may flush before this one is tracked.
Use(op) ==
  /\ Call
  /\ latest' = IF op = "write" THEN latest + 1 ELSE latest
  /\ LET command == [Command(op) EXCEPT !.contents = latest']
     IN \/ EmitCs(command) /\ UNCHANGED flushSeqNum
        \/ EmitCsChunk(chunk \o <<command, FlushCommand>>) /\ flushSeqNum' = csSeqNum'
  /\ seqNum' = IF kind.tracked THEN CurrentSequenceNumber' ELSE seqNum
  /\ UNCHANGED <<kind, pc, map, access, mapped, freeVars, execVars, gpuVars, contents>>

\* EmitCs of some command, maybe one of MapBuffer, finds the chunk full.
ChunkFull ==
  /\ Idle \/ pc = "probed"
  /\ chunk # <<>>
  /\ EmitCsChunk(chunk)
  /\ UNCHANGED <<appVars, flushSeqNum, freeVars, execVars, gpuVars, contents>>

\* The application, or ConsiderFlush in EmitCs, flushes.
Flush ==
  /\ Idle \/ pc = "probed"
  /\ ExecuteFlush
  /\ UNCHANGED <<appVars, freeVars, execVars, gpuVars, contents>>

\* D3D11_MAP_WRITE_DISCARD
MapDiscard ==
  /\ Call
  /\ \E s \in Slices : AllocSlice(s) /\ mapped' = s /\ EmitCs(Invalidate(s))
  /\ access' = "write" /\ map' = [NoMap EXCEPT !.type = "discard"]
  /\ UNCHANGED <<kind, pc, latest, seqNum, flushSeqNum, execVars, gpuVars, contents>>

\* D3D11_MAP_READ, _WRITE and _READ_WRITE: first, whether a small buffer that
\* the GPU only reads can be copied.
Map(type, wait) ==
  /\ Call
  /\ map' = [NoMap EXCEPT !.type = type, !.wait = wait]
  /\ pc' = IF type = "write" /\ wait /\ kind.copy # "too large" THEN "implicit" ELSE "check"
  /\ UNCHANGED <<kind, access, latest, mapped, seqNum, csVars, freeVars, execVars, gpuVars, contents>>

ImplicitSync ==
  /\ pc = "implicit"
  /\ SynchronizeBegin("probe")
  /\ UNCHANGED <<kind, calls, access, latest, mapped, seqNum, freeVars, execVars, gpuVars, contents>>

\* hasWoAccess
ProbeWrites ==
  /\ pc = "probe"
  /\ Synchronized
  /\ map' = [map EXCEPT !.written = InUse("write")]
  /\ pc' = "probed"
  /\ UNCHANGED <<kind, calls, access, latest, mapped, seqNum, csVars, freeVars, execVars, gpuVars,
                 contents>>

CanPreserve == InUse("read") /\ ~map.written /\ kind.copy = "cached"

\* hasRwAccess: the slice is replaced by a copy, ...
Preserve ==
  /\ pc = "probed"
  /\ CanPreserve
  /\ \E s \in Slices :
        /\ AllocSlice(s) /\ mapped' = s /\ EmitCs(Invalidate(s))
        /\ contents' = [contents EXCEPT ![s] = contents[mapped]]
  /\ access' = "write" /\ pc' = "idle"
  /\ UNCHANGED <<kind, calls, map, latest, seqNum, flushSeqNum, execVars, gpuVars>>

\* ... or has to be waited for.
NoPreserve ==
  /\ pc = "probed"
  /\ ~CanPreserve
  /\ pc' = "check"
  /\ UNCHANGED <<kind, calls, map, access, latest, mapped, seqNum, csVars, freeVars, execVars, gpuVars,
                 contents>>

\* The accesses to wait for: writes, or all.
Conflict == IF map.type = "read" THEN "write" ELSE "read"

\* Mutant: chunks are not waited for.
CheckUnsynchronized ==
  /\ pc = "check"
  /\ pc' = IF InUse(Conflict) THEN "busy" ELSE "recheck"
  /\ UNCHANGED <<kind, calls, map, access, latest, mapped, seqNum, csVars, freeVars, execVars, gpuVars,
                 contents>>

\* WaitForResource
Check ==
  /\ pc = "check"
  /\ IF InUse(Conflict) THEN pc' = "busy" /\ UNCHANGED <<map, csVars>>
     ELSE SynchronizeBegin("recheck")
  /\ UNCHANGED <<kind, calls, access, latest, mapped, seqNum, freeVars, execVars, gpuVars, contents>>

Succeed == access' = map.type /\ pc' = "idle"

Recheck ==
  /\ pc = "recheck"
  /\ Synchronized
  /\ IF InUse(Conflict) THEN pc' = "busy" /\ UNCHANGED access ELSE Succeed
  /\ UNCHANGED <<kind, calls, map, latest, mapped, seqNum, csVars, freeVars, execVars, gpuVars,
                 contents>>

\* D3D11_MAP_FLAG_DO_NOT_WAIT; the flush tracker decides whether to flush.
Refuse ==
  /\ pc = "busy" /\ ~map.wait
  /\ ExecuteFlush \/ UNCHANGED csVars
  /\ pc' = "idle"
  /\ UNCHANGED <<kind, calls, map, access, latest, mapped, seqNum, freeVars, execVars, gpuVars,
                 contents>>

\* Mutant: the GPU is waited for without a flush.
BusyUnflushed ==
  /\ pc = "busy" /\ map.wait
  /\ UNCHANGED csVars
  /\ map' = [map EXCEPT !.target = SequenceNumber]
  /\ pc' = "wait"
  /\ UNCHANGED <<kind, calls, access, latest, mapped, seqNum, freeVars, execVars, gpuVars, contents>>

\* ExecuteFlush and SynchronizeCsThread, for which there is no chunk left.
Busy ==
  /\ pc = "busy" /\ map.wait
  /\ ExecuteFlush
  /\ map' = [map EXCEPT !.target = SequenceNumber]
  /\ pc' = "wait"
  /\ UNCHANGED <<kind, calls, access, latest, mapped, seqNum, freeVars, execVars, gpuVars, contents>>

\* Mutant: a map for writing waits for the writes of the GPU only.
WaitForWrites ==
  /\ pc = "wait"
  /\ Synchronized /\ ~InUse("write")
  /\ Succeed
  /\ UNCHANGED <<kind, calls, map, latest, mapped, seqNum, csVars, freeVars, execVars, gpuVars,
                 contents>>

\* DxvkDevice::waitForResource
WaitForResource ==
  /\ pc = "wait"
  /\ Synchronized /\ ~InUse(Conflict)
  /\ Succeed
  /\ UNCHANGED <<kind, calls, map, latest, mapped, seqNum, csVars, freeVars, execVars, gpuVars,
                 contents>>

\* The application is done with the memory, which it has written if it may.
Unmap ==
  /\ pc = "idle" /\ access # "none"
  /\ access' = "none"
  /\ IF access = "write"
     THEN latest' = latest + 1 /\ contents' = [contents EXCEPT ![mapped] = latest + 1]
     ELSE UNCHANGED <<latest, contents>>
  /\ UNCHANGED <<kind, calls, pc, map, mapped, seqNum, csVars, freeVars, execVars, gpuVars>>

-----------------------------------------------------------------------------
(* The CS thread                                                           *)

Current == Head(Head(chunks))

\* The next command of the chunk is executed.
ExecuteCommand ==
  /\ chunks # <<>> /\ Head(chunks) # <<>>
  /\ chunks' = [chunks EXCEPT ![1] = Tail(@)]
  /\ CASE Current.op \in {"read", "write"} ->
            /\ list' = [list EXCEPT !.uses = Append(@, [Current EXCEPT !.slice = physSlice])]
            /\ UNCHANGED <<physSlice, submitted>>
       [] Current.op = "invalidate" ->
            /\ physSlice' = Current.slice
            /\ list' = [list EXCEPT !.freed = @ \cup {physSlice}]
            /\ UNCHANGED submitted
       [] Current.op = "flush" ->
            /\ submitted' = Append(submitted, list)
            /\ list' = NewList
            /\ UNCHANGED physSlice
  /\ UNCHANGED <<appVars, chunk, csSeqNum, flushSeqNum, executed, freeVars, retired, contents>>

FinishChunk ==
  /\ chunks # <<>> /\ Head(chunks) = <<>>
  /\ chunks' = Tail(chunks)
  /\ executed' = executed + 1
  /\ UNCHANGED <<appVars, chunk, csSeqNum, flushSeqNum, freeVars, physSlice, list, gpuVars,
                 contents>>

-----------------------------------------------------------------------------
(* The GPU and the finisher thread                                         *)

NextUse == submitted[1].uses[submitted[1].done + 1]

HasNextUse == submitted # <<>> /\ submitted[1].done < Len(submitted[1].uses)

\* The GPU runs the next command of the oldest command list.
GpuExecute ==
  /\ HasNextUse
  /\ submitted' = [submitted EXCEPT ![1].done = @ + 1]
  /\ contents' = IF NextUse.op = "write"
                 THEN [contents EXCEPT ![NextUse.slice] = NextUse.contents]
                 ELSE contents
  /\ UNCHANGED <<appVars, csVars, freeVars, execVars, retired>>

\* Mutant: slices are free when their command list is submitted.
FinishListEarly ==
  /\ submitted # <<>> /\ retired = <<>>
  /\ IF submitted[1].done = Len(submitted[1].uses)
     THEN submitted' = Tail(submitted) /\ retired' = <<submitted[1].freed>>
     ELSE /\ submitted[1].freed # {}
          /\ submitted' = [submitted EXCEPT ![1].freed = {}]
          /\ retired' = <<submitted[1].freed>>
  /\ UNCHANGED <<appVars, csVars, freeVars, execVars, contents>>

\* finishCmdLists: notifyObjects, and the entry leaves the queue ...
FinishList ==
  /\ submitted # <<>> /\ ~HasNextUse /\ retired = <<>>
  /\ submitted' = Tail(submitted)
  /\ retired' = <<submitted[1].freed>>
  /\ UNCHANGED <<appVars, csVars, freeVars, execVars, contents>>

\* Mutant: the slices are not given back.
ResetListLeak ==
  /\ retired # <<>>
  /\ retired' = <<>>
  /\ UNCHANGED <<appVars, csVars, freeVars, execVars, submitted, contents>>

\* ... and the command list is reset.
ResetList ==
  /\ retired # <<>>
  /\ nextSlices' = nextSlices \cup retired[1]
  /\ retired' = <<>>
  /\ UNCHANGED <<appVars, csVars, freeSlices, allocated, execVars, submitted, contents>>

-----------------------------------------------------------------------------
MapStep ==
  \/ ImplicitSync \/ ProbeWrites \/ Preserve \/ NoPreserve
  \/ Check \/ Recheck \/ Refuse \/ Busy \/ WaitForResource

CsThread == ExecuteCommand \/ FinishChunk

Next ==
  \/ \E op \in {"read", "write"} : Use(op)
  \/ ChunkFull
  \/ Flush
  \/ MapDiscard
  \/ \E type \in {"read", "write"}, wait \in BOOLEAN : Map(type, wait)
  \/ MapStep
  \/ Unmap
  \/ CsThread
  \/ GpuExecute
  \/ FinishList
  \/ ResetList

\* The application finishes its calls, threads run, and the GPU executes.
\* Nothing makes the application flush.
Fairness ==
  /\ WF_vars(MapStep)
  /\ WF_vars(CsThread)
  /\ WF_vars(GpuExecute) /\ WF_vars(FinishList) /\ WF_vars(ResetList)

Spec == Init /\ [][Next]_vars

FairSpec == Spec /\ Fairness

-----------------------------------------------------------------------------
(* Properties                                                              *)

PendingCommands ==
  UNION {{c[i] : i \in 1 .. Len(c)} : c \in {chunk} \cup {chunks[i] : i \in 1 .. Len(chunks)}}

PendingUses ==
  {list.uses[i] : i \in 1 .. Len(list.uses)}
    \cup UNION {{l.uses[i] : i \in l.done + 1 .. Len(l.uses)} :
                  l \in {submitted[i] : i \in 1 .. Len(submitted)}}

TypeOK ==
  /\ {calls, latest, seqNum, csSeqNum, flushSeqNum, executed} \subseteq Nat
  /\ access \in {"none", "read", "write"}
  /\ mapped \in Slices /\ physSlice \in Slices
  /\ allocated \subseteq Slices
  /\ contents \in [Slices -> 0 .. latest]
  /\ Len(retired) <= 1
  /\ csSeqNum = executed + Len(chunks)

\* While the application may write the memory it has mapped, no command that it
\* has recorded will still access it; while it may read, none will write it.
MappedExclusive ==
  \A c \in PendingCommands \cup PendingUses :
    c.op \in {"read", "write"} /\ c.slice = mapped
      => access # "write" /\ (access = "read" => c.op = "read")

\* A map that keeps the contents, by waiting or by a copy, shows the result of
\* every command and every write of the application before it.
MapSeesLatest == access # "none" /\ map.type # "discard" => contents[mapped] = latest

\* A command that reads finds what was written last before it was recorded,
\* whatever the application has done with the buffer since.
GpuReadsInOrder == HasNextUse /\ NextUse.op = "read" => contents[NextUse.slice] = NextUse.contents

\* Who holds slice s: the CS thread, a free list, the command list that is to be reset, a
\* pending command that renames the buffer to s (no two of which have one number), or a
\* command list that frees it.
Holds == [physSlice |-> {physSlice}, freeSlices |-> freeSlices, nextSlices |-> nextSlices,
          retired |-> UNION {retired[i] : i \in 1 .. Len(retired)}]

Holders(s) ==
  {<<p, 0>> : p \in {q \in DOMAIN Holds : s \in Holds[q]}}
    \cup {<<"command", c.contents>> :
            c \in {x \in PendingCommands : x.op = "invalidate" /\ x.slice = s}}
    \cup {<<"list", i>> :
            i \in {j \in 1 .. Len(submitted) + 1 : s \in Append(submitted, list)[j].freed}}

\* A slice of a backing buffer is in exactly one place, in use, on its way into use or
\* out of it, or free: none is lost, and none is given out twice.  The slice that
\* the application has mapped is in use or will be.  (TypeOK is its first part.)
SlicesConserved ==
  /\ TypeOK
  /\ \A s \in Slices : Cardinality(Holders(s)) = IF s \in allocated THEN 1 ELSE 0
  /\ \E h \in Holders(mapped) : h[1] \in {"physSlice", "command"}

\* Map returns: what it waits for has been submitted, or will be.
MapReturns == pc # "idle" ~> pc = "idle"

=============================================================================
