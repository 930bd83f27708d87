-------------------------- MODULE MemoryAllocator --------------------------
(***************************************************************************)
(* DxvkMemoryAllocator (src/dxvk/dxvk_memory.cpp): allocations come from    *)
(* chunks of device memory or have device memory of their own.  alloc()     *)
(* holds m_mutex for as long as it tries one memory type after another; in  *)
(* the model it is a sequence of steps with `call' as its state, while the  *)
(* other threads can neither allocate nor free.                             *)
(***************************************************************************)
EXTENDS MemoryChunk, FiniteSets, FiniteSetsExt

CONSTANTS
  Memories,         \* VkDeviceMemory handles
  NumTypes,         \* memoryTypeCount
  TypeFlags,        \* TypeFlags[t]: propertyFlags of memory type t
  TypeHeap,         \* TypeHeap[t]: heapIndex of memory type t
  HeapSize,         \* HeapSize[h]: size of heap h
  MaxChunkSize,     \* determineMaxChunkSize
  SmallChunkSize,   \* chunk size limit for small allocations
  HostChunkSize,    \* chunk size limit for host-visible memory
  SmallAllocation,  \* SmallAllocationThreshold
  MaxTries,         \* sizes tried for a new chunk, each half of the last: 6
  MaxEmptyHost,     \* empty chunks kept of host memory
  Granularity,      \* bufferImageGranularity
  Requests,         \* what alloc() may be asked for
  CounterRange,     \* numbers a 64-bit counter of the adapter can hold
  MaxUsed           \* bound: allocations alive at once

Types == 1 .. NumTypes

Flags == {"local", "visible", "cached"}

\* The hints that tell chunks apart, as in checkHints.
Category == {"small", "readable", "writable", "transient"}

ASSUME MemoryAssumption ==
  /\ NumTypes \in Nat \ {0}
  \* Vulkan: maxMemoryAllocationCount.
  /\ IsFiniteSet(Memories)
  /\ {MaxTries, MaxEmptyHost} \subseteq Nat /\ CounterRange \in Nat \ {0}
  /\ {MaxChunkSize, SmallChunkSize, HostChunkSize, Granularity} \subseteq Nat \ {0}
  /\ \A t \in Types : HeapSize[TypeHeap[t]] \in Nat
  /\ Requests \subseteq
       [size : Nat \ {0}, align : Nat \ {0}, types : SUBSET Types, flags : SUBSET Flags,
        hints : SUBSET Category, dedicated : BOOLEAN, required : BOOLEAN, optimal : BOOLEAN]
  \* Vulkan: what requires a dedicated allocation prefers it, and then alloc() is given a handle.
  /\ \A r \in Requests : r.required => r.dedicated

VARIABLES
  memory,        \* memory[m]: size, type and, for a chunk, flags and hints of m
  chunks,        \* chunks[t]: the chunks of memory type t
  ahead,         \* ahead[m]: those that come before chunk m in the list chunks
  free,          \* free[m]: m_freeList of chunk m
  used,          \* used[m]: the DxvkMemory objects alive in m
  memoryUsed,        \* stats.memoryUsed of each heap
  memoryAllocated,   \* stats.memoryAllocated of each heap
  adapterUsed,       \* DxvkAdapter::m_memoryUsed
  adapterAllocated,  \* DxvkAdapter::m_memoryAllocated
  call               \* the alloc() that holds m_mutex

memVars  == <<memory, chunks, ahead, free, used>>
statVars == <<memoryUsed, memoryAllocated, adapterUsed, adapterAllocated>>
vars     == <<memVars, statVars, call>>

Heaps == {TypeHeap[t] : t \in Types}

NoMemory == [size |-> 0, type |-> 1, flags |-> {}, hints |-> {}]

NoCall == [stage |-> "none"]

Init ==
  /\ memory = [m \in Memories |-> NoMemory]
  /\ chunks = [t \in Types |-> {}] /\ ahead = [m \in Memories |-> {}]
  /\ free = [m \in Memories |-> {}] /\ used = [m \in Memories |-> {}]
  /\ memoryUsed = [h \in Heaps |-> 0] /\ memoryAllocated = [h \in Heaps |-> 0]
  /\ adapterUsed = [h \in Heaps |-> 0] /\ adapterAllocated = [h \in Heaps |-> 0]
  /\ call = NoCall

-----------------------------------------------------------------------------
(* Sizes and limits                                                        *)

Smaller(a, b) == IF a < b THEN a ELSE b

\* pickChunkSize: halved until the heap holds fifteen chunks.
ChunkSize(t, hints) ==
  LET size == Smaller(IF "small" \in hints THEN SmallChunkSize ELSE MaxChunkSize,
                      IF "visible" \in TypeFlags[t] THEN HostChunkSize ELSE MaxChunkSize)
      Room(i) == (size \div 2^i) * 15 <= HeapSize[TypeHeap[t]]
  IN size \div 2^(CHOOSE i \in 0 .. size : Room(i) /\ \A j \in 0 .. i - 1 : ~Room(j))

\* A new chunk that is no smaller than an allocation holds it, its end rounded up.
ChunkHolds(size, align) ==
  \A t \in Types, hints \in SUBSET (Category \cup {"ignore"}), i \in 0 .. MaxTries - 1 :
    LET chunk == ChunkSize(t, hints) \div 2^i
    IN chunk >= size => Fits(Slice(0, chunk), size, align)

\* With dxvk.maxChunkSize at its default the sizes of chunks are powers of two, and so are
\* Vulkan's alignments: what is no larger than a chunk is so when it is rounded up, too.
ASSUME ChunkAssumption ==
  \A r \in Requests :
    LET unit == IF r.optimal THEN Granularity ELSE 1
    IN ChunkHolds(Align(r.size, unit), Align(r.align, unit))

\* shouldFreeEmptyChunks: the heap is more than four fifths full.
Pressure(h, size) == memoryAllocated[h] + size > (HeapSize[h] * 4) \div 5

IsChunk(m) == \E t \in Types : m \in chunks[t]

Unused(m) == IsEmpty(free[m], memory[m].size)

\* Mutant: chunks in use are freed, too.
EvictedAll(h, size) ==
  {m \in Memories : /\ Pressure(h, size)
                    /\ \E t \in Types : TypeHeap[t] = h /\ m \in chunks[t]}

\* The chunks freed before size bytes are allocated from heap h.
Evicted(h, size) ==
  {m \in Memories : /\ Pressure(h, size)
                    /\ Unused(m)
                    /\ \E t \in Types : TypeHeap[t] = h /\ m \in chunks[t]}

SizeOf(ms) == SumFunctionOnSet([m \in Memories |-> memory[m].size], ms)

\* maxEmptyChunks of a type: host memory keeps more.
MaxEmpty(t) ==
  IF "local" \in TypeFlags[t] \/ "visible" \notin TypeFlags[t] THEN 1 ELSE MaxEmptyHost

\* Other empty chunks like m: isCompatible compares flags and hints.
EmptyLike(m) == {c \in chunks[memory[m].type] \ {m} :
                   /\ Unused(c)
                   /\ memory[c].flags = memory[m].flags /\ memory[c].hints = memory[m].hints}

\* Mutant: one empty chunk too many is kept.
ShouldFreeLate(m) ==
  \/ Pressure(TypeHeap[memory[m].type], 0)
  \/ Cardinality(EmptyLike(m)) > MaxEmpty(memory[m].type)

\* shouldFreeChunk
ShouldFree(m) ==
  \/ Pressure(TypeHeap[memory[m].type], 0)
  \/ Cardinality(EmptyLike(m)) >= MaxEmpty(memory[m].type)

-----------------------------------------------------------------------------
(* alloc()                                                                 *)

Hints(r) ==
  LET hints == IF r.size <= SmallAllocation
               THEN (r.hints \ {"readable", "writable"}) \cup {"small"}
               ELSE r.hints
  IN IF "visible" \in r.flags THEN hints \cap {"transient"} ELSE hints

\* Mutant: images are not kept away from buffers.
SharedUnaligned(c) ==
  [c EXCEPT !.stage = "shared", !.next = 1, !.dedicated = FALSE]

\* The stages of alloc(): dedicated if asked for, not dedicated, without regard
\* to hints, and at last slower memory types.
Shared(c) ==
  LET unit == IF c.optimal THEN Granularity ELSE 1
  IN [c EXCEPT !.stage = "shared", !.next = 1, !.dedicated = FALSE,
               !.size = Align(@, unit), !.align = Align(@, unit)]

Relaxed(c) == [c EXCEPT !.stage = "relaxed", !.next = 1, !.hints = @ \cup {"ignore"}]

Optional == {"local", "cached"}

Slower(c) ==
  IF c.flags \cap Optional = {}
  THEN [c EXCEPT !.stage = "failed", !.next = 1]
  ELSE [c EXCEPT !.stage = "slower", !.next = 1, !.flags = @ \ Optional,
                 !.hints = @ \ {"ignore"}]

Alloc(r) ==
  /\ call = NoCall
  /\ Cardinality(UNION {{<<m, u>> : u \in used[m]} : m \in Memories}) < MaxUsed
  /\ LET c == [stage |-> "dedicated", next |-> 1, size |-> r.size, align |-> r.align,
               types |-> r.types, flags |-> r.flags, hints |-> Hints(r),
               dedicated |-> r.dedicated, required |-> r.required, optimal |-> r.optimal]
     IN call' = IF r.dedicated THEN c ELSE IF r.required THEN Slower(c) ELSE Shared(c)
  /\ UNCHANGED <<memVars, statVars>>

\* The types that tryAlloc has still to try.
Candidates ==
  {t \in call.next .. NumTypes : t \in call.types /\ call.flags \subseteq TypeFlags[t]}

Trying(t) ==
  /\ call.stage \notin {"none", "failed"}
  /\ t \in Candidates /\ \A u \in Candidates : t <= u

NextStage ==
  /\ call.stage \notin {"none", "failed"}
  /\ Candidates = {}
  /\ call' = CASE call.stage = "dedicated" -> IF call.required THEN Slower(call) ELSE Shared(call)
               [] call.stage = "shared"    -> Relaxed(call)
               [] call.stage = "relaxed"   -> Slower(call)
               [] call.stage = "slower"    -> [call EXCEPT !.stage = "failed"]
  /\ UNCHANGED <<memVars, statVars>>

\* A DxvkError is thrown and m_mutex unlocked.
Throw ==
  /\ call.stage = "failed"
  /\ call' = NoCall
  /\ UNCHANGED <<memVars, statVars>>

Needs(t) == call.dedicated \/ call.size >= ChunkSize(t, call.hints)

Wants(t) == 3 * call.size >= ChunkSize(t, call.hints)

Exceeded(t) ==
  5 * memoryUsed[TypeHeap[t]] + call.size > 4 * HeapSize[TypeHeap[t]]

FromChunks(t) == ~Needs(t) /\ (~Wants(t) \/ Exceeded(t))

\* Property flags and hints of chunk m allow the allocation.
Matches(m) ==
  /\ memory[m].flags = call.flags
  /\ "ignore" \in call.hints \/ memory[m].hints \cap Category = call.hints \cap Category

\* Chunk m turns the allocation down.
Refuses(m) ==
  \/ ~Matches(m)
  \/ free[m] = {}
  \/ \E s \in BestSlices(free[m], call.size) : ~Fits(s, call.size, call.align)

NoChunk(t) == FromChunks(t) => \A m \in chunks[t] : Refuses(m)

DxvkMemory(slice) ==
  [offset |-> slice.offset, length |-> slice.length, optimal |-> call.optimal]

\* The statistics for length bytes more in use on heap h.
UseMemory(h, length) ==
  /\ memoryUsed' = [memoryUsed EXCEPT ![h] = @ + length]
  /\ adapterUsed' = [adapterUsed EXCEPT ![h] = @ + length]

\* The first chunk of the list that can hold the allocation does.
Suballocate(t) ==
  /\ Trying(t) /\ FromChunks(t)
  /\ \E m \in chunks[t] :
        /\ \A c \in ahead[m] : Refuses(c)
        /\ Matches(m)
        /\ \E s \in BestSlices(free[m], call.size) :
              LET slice == Allocated(s, call.size, call.align)
              IN /\ Fits(s, call.size, call.align)
                 /\ free' = [free EXCEPT ![m] = AllocFrom(@, s, call.size, call.align)]
                 /\ used' = [used EXCEPT ![m] = @ \cup {DxvkMemory(slice)}]
                 /\ UseMemory(TypeHeap[t], slice.length)
  /\ call' = NoCall
  /\ UNCHANGED <<memory, chunks, ahead, memoryAllocated, adapterAllocated>>

\* New memory is for the allocation alone, or for a new chunk.
Alone(t) == Needs(t) \/ Wants(t)

NewSize(t) == IF Alone(t) THEN call.size ELSE ChunkSize(t, call.hints)

\* The sizes that are tried for a new chunk.
TriedSizes(t) ==
  {NewSize(t) \div 2^i : i \in 0 .. MaxTries - 1} \cap (1 .. HeapSize[TypeHeap[t]])

\* vkAllocateMemory may succeed: m is a new handle, and the heap has room.
Available(t, m, size) ==
  LET h == TypeHeap[t]
  IN /\ memory[m].size = 0
     /\ memoryAllocated[h] - SizeOf(Evicted(h, NewSize(t))) + size <= HeapSize[h]

\* notifyMemoryAlloc, with what the allocator passes: the size of new memory, and that of
\* freed memory as well, without a minus sign (dxvk_memory.cpp:488).
NotifyAlloc(h, freed, gain) ==
  adapterAllocated' = [adapterAllocated EXCEPT ![h] = (@ + freed + gain) % CounterRange]

\* Mutant: the heap statistics, too, miss that memory is freed.
ReplaceUncounted(h, E, gain) ==
  /\ memoryAllocated' = [memoryAllocated EXCEPT ![h] = @ + gain]
  /\ NotifyAlloc(h, SizeOf(E), gain)

\* The memory E is returned to the driver; `gain' is what is allocated anew.
Replace(h, E, gain) ==
  /\ memoryAllocated' = [memoryAllocated EXCEPT ![h] = @ - SizeOf(E) + gain]
  /\ NotifyAlloc(h, SizeOf(E), gain)

\* Function f without what it says of the memory in E, and with v for m.
Renewed(f, E, none, m, v) ==
  [x \in Memories |-> IF x = m THEN v ELSE IF x \in E THEN none ELSE f[x]]

Listed(E) == [t \in Types |-> chunks[t] \ E]

Ordered(E) == [m \in Memories |-> IF m \in E THEN {} ELSE ahead[m] \ E]

NewMemory(t, size) ==
  [size |-> size, type |-> t, flags |-> call.flags, hints |-> call.hints]

\* A new chunk, as large as the driver allows, and an allocation from it.
NewChunk(t, m, size) ==
  LET h     == TypeHeap[t]
      E     == Evicted(h, NewSize(t))
      whole == Slice(0, size)
      slice == Allocated(whole, call.size, call.align)
  IN /\ Trying(t) /\ NoChunk(t) /\ ~Alone(t)
     /\ size >= call.size /\ Available(t, m, size)
     /\ Replace(h, E, size)
     /\ memory' = Renewed(memory, E, NoMemory, m, NewMemory(t, size))
     /\ chunks' = [Listed(E) EXCEPT ![t] = @ \cup {m}]
     /\ ahead' = [Ordered(E) EXCEPT ![m] = chunks[t] \ E]
     /\ IF Fits(whole, call.size, call.align)
        THEN /\ free' = Renewed(free, E, {}, m,
                                AllocFrom({whole}, whole, call.size, call.align))
             /\ used' = [used EXCEPT ![m] = {DxvkMemory(slice)}]
             /\ UseMemory(h, slice.length)
             /\ call' = NoCall
        ELSE /\ free' = Renewed(free, E, {}, m, {whole})
             /\ call' = [call EXCEPT !.next = t + 1]
             /\ UNCHANGED <<used, memoryUsed, adapterUsed>>

\* Device memory of its own for the allocation.
Dedicated(t, m) ==
  LET h == TypeHeap[t]
      E == Evicted(h, NewSize(t))
  IN /\ Trying(t) /\ NoChunk(t) /\ Alone(t)
     /\ Available(t, m, call.size)
     /\ Replace(h, E, call.size)
     /\ memory' = Renewed(memory, E, NoMemory, m, NewMemory(t, call.size))
     /\ chunks' = Listed(E) /\ ahead' = Ordered(E)
     /\ free' = Renewed(free, E, {}, m, {})
     /\ used' = [used EXCEPT ![m] = {DxvkMemory(Slice(0, call.size))}]
     /\ UseMemory(h, call.size)
     /\ call' = NoCall

\* The driver allocates nothing; empty chunks are freed all the same.
Refused(t) ==
  LET h == TypeHeap[t]
      E == Evicted(h, NewSize(t))
  IN /\ Trying(t) /\ NoChunk(t)
     /\ Replace(h, E, 0)
     /\ memory' = [m \in Memories |-> IF m \in E THEN NoMemory ELSE memory[m]]
     /\ chunks' = Listed(E) /\ ahead' = Ordered(E)
     /\ free' = [m \in Memories |-> IF m \in E THEN {} ELSE free[m]]
     /\ call' = [call EXCEPT !.next = t + 1]
     /\ UNCHANGED <<used, memoryUsed, adapterUsed>>

-----------------------------------------------------------------------------
(* free()                                                                  *)

\* m_mutex is free, and u is no longer in use.
Release(m, u) ==
  LET h == TypeHeap[memory[m].type]
  IN /\ call = NoCall
     /\ u \in used[m]
     /\ used' = [used EXCEPT ![m] = @ \ {u}]
     /\ memoryUsed' = [memoryUsed EXCEPT ![h] = @ - u.length]
     /\ adapterUsed' = [adapterUsed EXCEPT ![h] = @ - u.length]
     /\ UNCHANGED call

LeavesEmpty(m, u) == IsEmpty(FreeInto(free[m], u), memory[m].size)

\* The chunk stays in use, or stays empty at the end of the list ...
FreeSlice(m, u) ==
  /\ Release(m, u)
  /\ IsChunk(m)
  /\ LeavesEmpty(m, u) => ~ShouldFree(m)
  /\ free' = [free EXCEPT ![m] = FreeInto(@, u)]
  /\ ahead' = IF LeavesEmpty(m, u)
              THEN [Ordered({m}) EXCEPT ![m] = chunks[memory[m].type] \ {m}]
              ELSE ahead
  /\ UNCHANGED <<memory, chunks, memoryAllocated, adapterAllocated>>

\* ... or is destroyed.
FreeChunk(m, u) ==
  /\ Release(m, u)
  /\ IsChunk(m)
  /\ LeavesEmpty(m, u) /\ ShouldFree(m)
  /\ Replace(TypeHeap[memory[m].type], {m}, 0)
  /\ memory' = [memory EXCEPT ![m] = NoMemory]
  /\ chunks' = Listed({m}) /\ ahead' = Ordered({m})
  /\ free' = [free EXCEPT ![m] = {}]

FreeDedicated(m, u) ==
  /\ Release(m, u)
  /\ ~IsChunk(m)
  /\ Replace(TypeHeap[memory[m].type], {m}, 0)
  /\ memory' = [memory EXCEPT ![m] = NoMemory]
  /\ UNCHANGED <<chunks, ahead, free>>

-----------------------------------------------------------------------------
Next ==
  \/ \E r \in Requests : Alloc(r)
  \/ NextStage
  \/ Throw
  \/ \E t \in Types :
        \/ Suballocate(t)
        \/ Refused(t)
        \/ \E m \in Memories : Dedicated(t, m)
        \/ /\ call # NoCall
           /\ \E m \in Memories, size \in TriedSizes(t) : NewChunk(t, m, size)
  \/ \E m \in Memories : \E u \in used[m] :
        FreeSlice(m, u) \/ FreeChunk(m, u) \/ FreeDedicated(m, u)

Spec == Init /\ [][Next]_vars

-----------------------------------------------------------------------------
(* Properties                                                              *)

TypeOK ==
  /\ memory \in [Memories -> [size : Nat, type : Types,
                              flags : SUBSET Flags,
                              hints : SUBSET (Category \cup {"ignore"})]]
  /\ chunks \in [Types -> SUBSET Memories]
  /\ ahead \in [Memories -> SUBSET Memories]
  /\ \A m \in Memories : \A s \in free[m] \cup used[m] : {s.offset, s.length} \subseteq Nat
  /\ call.stage \in {"none", "dedicated", "shared", "relaxed", "slower", "failed"}

\* The allocations in a chunk overlap neither each other nor the free list, the
\* free list is coalesced, and nothing of the chunk is lost.
ChunksPartitioned ==
  \A m \in Memories : IsChunk(m) => Partition(free[m], used[m], memory[m].size)

\* An allocation is backed by device memory for as long as it lives, device
\* memory without a use is a listed chunk, and a chunk is in the one list of
\* its type, at one place. (TypeOK is its first part.)
MemoryBacked ==
  /\ TypeOK
  /\ \A m \in Memories : memory[m].size > 0 <=> IsChunk(m) \/ used[m] # {}
  /\ \A m \in Memories : ~IsChunk(m) => free[m] = {} /\ Cardinality(used[m]) <= 1
  /\ \A t \in Types : \A m \in chunks[t] :
        /\ memory[m].type = t
        /\ ahead[m] \subseteq chunks[t]
        /\ \A c \in chunks[t] \ {m} : c \in ahead[m] <=> m \notin ahead[c]

TotalLength(slices) == SumFunctionOnSet([s \in slices |-> s.length], slices)

\* The heap statistics, which decide about eviction and chunk sizes, are exact in spite
\* of refusals, and so is the adapter's copy of what is in use. Nothing is said of the adapter's
\* count of what is allocated: it counts what is freed as allocated once more.
StatsExact ==
  \A h \in Heaps :
    LET ms == {m \in Memories : TypeHeap[memory[m].type] = h}
    IN /\ memoryAllocated[h] = SizeOf(ms)
       /\ memoryUsed[h] = SumFunctionOnSet([m \in Memories |-> TotalLength(used[m])], ms)
       /\ adapterUsed[h] = memoryUsed[h]
       /\ memoryUsed[h] <= memoryAllocated[h] /\ memoryAllocated[h] <= HeapSize[h]

\* No more empty chunks of a kind are kept than the type allows.
EmptyChunksBounded ==
  \A t \in Types : \A m \in chunks[t] :
    Unused(m) => Cardinality(EmptyLike(m)) < MaxEmpty(t)

\* Buffers and optimally tiled images do not share a page of device memory.
GranularityRespected ==
  LET Page(b) == b \div Granularity
  IN \A m \in Memories : \A u, v \in used[m] :
       u.optimal /\ ~v.optimal =>
         Page(End(u) - 1) < Page(v.offset) \/ Page(End(v) - 1) < Page(u.offset)

=============================================================================
