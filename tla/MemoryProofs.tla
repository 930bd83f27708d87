---------------------------- MODULE MemoryProofs ----------------------------
(***************************************************************************)
(* Proofs about DxvkMemoryChunk and DxvkMemoryAllocator: for any memory     *)
(* types, requests and behaviour of the driver, a chunk is partitioned into *)
(* the slices in use and a coalesced free list; what is allocated has its   *)
(* use and its place; images do not share a page with buffers; few empty    *)
(* chunks are kept; and the statistics of a heap are the sums of what is    *)
(* allocated and in use.                                                    *)
(***************************************************************************)
EXTENDS MemoryAllocator, FiniteSetTheorems, WellFoundedInduction, TLAPS

\* Aligning never moves a value down.
LEMMA AlignUp ==
  ASSUME NEW x \in Nat, NEW a \in Nat \ {0}
  PROVE  Align(x, a) \in Nat /\ Align(x, a) >= x
<1> DEFINE q == (x + a - 1) \div a
<1>1. x + a - 1 \in Nat
  OBVIOUS
<1>2. q \in Int /\ q * a <= x + a - 1 /\ x + a - 1 < q * a + a
  BY <1>1
<1>3. q >= 0
  BY <1>1
<1>4. q * a \in Nat
  BY <1>2, <1>3
<1> QED
  BY <1>2, <1>4 DEF Align

\* What an allocation that fits takes lies inside its free slice.
LEMMA AllocatedInside ==
  ASSUME NEW s, s.offset \in Nat, s.length \in Nat,
         NEW size \in Nat \ {0}, NEW align \in Nat \ {0},
         Fits(s, size, align)
  PROVE  LET a == Allocated(s, size, align)
         IN /\ a.offset \in Nat /\ a.length \in Nat \ {0}
            /\ s.offset <= a.offset /\ End(a) <= End(s)
            /\ End(a) = a.offset + a.length
<1> DEFINE start == Align(s.offset, align)
           stop  == Align(start + size, align)
<1>1. start \in Nat /\ start >= s.offset
  BY AlignUp
<1>2. stop \in Nat /\ stop >= start + size
  <2>1. start + size \in Nat
    BY <1>1
  <2> QED
    BY <2>1, AlignUp
<1>3. Allocated(s, size, align) = [offset |-> start, length |-> stop - start]
  BY DEF Allocated, Slice
<1> HIDE DEF start, stop
<1>4. End(Allocated(s, size, align)) = stop
  BY <1>1, <1>2, <1>3 DEF End
<1> QED
  BY <1>1, <1>2, <1>3, <1>4 DEF End, Fits

\* Taking an allocation out of a free slice keeps the partition.
LEMMA AllocPartition ==
  ASSUME NEW F, NEW U, NEW n \in Nat, Partition(F, U, n),
         NEW s \in F, NEW size \in Nat \ {0}, NEW align \in Nat \ {0},
         Fits(s, size, align),
         NEW u, u.offset = Allocated(s, size, align).offset,
         u.length = Allocated(s, size, align).length
  PROVE  Partition(AllocFrom(F, s, size, align), U \cup {u}, n)
<1> DEFINE a == Allocated(s, size, align)
           front == Slice(s.offset, a.offset)
           back  == Slice(End(a), End(s))
           G == AllocFrom(F, s, size, align)
<1>1. /\ \A f \in F \cup U : f.offset \in Nat /\ f.length \in Nat \ {0} /\ End(f) <= n
      /\ \A f \in F \cup U : End(f) = f.offset + f.length
  BY DEF Partition, WithinChunk, End
<1>2. /\ a.offset \in Nat /\ a.length \in Nat \ {0} /\ End(a) = a.offset + a.length
      /\ s.offset <= a.offset /\ End(a) <= End(s)
  BY <1>1, AllocatedInside
<1>3. /\ front.offset = s.offset /\ front.length = a.offset - s.offset
      /\ back.offset = End(a) /\ back.length = End(s) - End(a)
  BY DEF Slice
<1>4. End(front) = a.offset /\ End(back) = End(s) /\ End(u) = End(a)
  BY <1>1, <1>2, <1>3 DEF End
<1>5. \A g \in G : g \in F \ {s} \/ (g = front /\ front.length # 0)
                                  \/ (g = back /\ back.length # 0)
  BY DEF AllocFrom
<1>6. /\ F \ {s} \subseteq G
      /\ front.length # 0 => front \in G
      /\ back.length # 0 => back \in G
  BY DEF AllocFrom
<1>7. \A f \in (F \ {s}) \cup U : Apart(f, s)
  BY DEF Partition, Disjoint, Apart
<1> HIDE DEF a, front, back, G
<1>8. WithinChunk(G, n) /\ WithinChunk(U \cup {u}, n)
  BY <1>1, <1>2, <1>3, <1>4, <1>5 DEF WithinChunk, a
<1>9. Disjoint(G, U \cup {u})
  <2>1. \A f, g \in G : f # g => Apart(f, g)
    BY <1>1, <1>2, <1>3, <1>4, <1>5, <1>7 DEF Partition, Disjoint, Apart
  <2>2. \A f, g \in U \cup {u} : f # g => Apart(f, g)
    BY <1>1, <1>2, <1>4, <1>7 DEF Partition, Disjoint, Apart, a
  <2>3. \A f \in G, g \in U \cup {u} : Apart(f, g)
    BY <1>1, <1>2, <1>3, <1>4, <1>5, <1>7 DEF Partition, Disjoint, Apart, a
  <2> QED
    BY <2>1, <2>2, <2>3 DEF Disjoint
<1>10. Coalesced(G)
  <2>1. \A f \in F : End(f) # s.offset /\ End(s) # f.offset
    BY DEF Partition, Coalesced
  <2> QED
    BY <1>1, <1>2, <1>3, <1>4, <1>5, <1>7, <2>1 DEF Partition, Coalesced, Apart
<1>11. Covered(G, U \cup {u}, n)
  <2> SUFFICES ASSUME NEW b \in 0 .. n - 1
               PROVE  \E f \in G \cup (U \cup {u}) : f.offset <= b /\ b < End(f)
    BY DEF Covered
  <2>1. PICK f \in F \cup U : f.offset <= b /\ b < End(f)
    BY DEF Partition, Covered
  <2>2. CASE f # s
    BY <1>6, <2>1, <2>2
  <2>3. CASE f = s
    <3>1. CASE b < a.offset
      BY <1>1, <1>2, <1>3, <1>4, <1>6, <2>1, <2>3, <3>1
    <3>2. CASE a.offset <= b /\ b < End(a)
      BY <1>4, <3>2 DEF a
    <3>3. CASE End(a) <= b
      BY <1>1, <1>2, <1>3, <1>4, <1>6, <2>1, <2>3, <3>3
    <3> QED
      BY <1>1, <1>2, <3>1, <3>2, <3>3
  <2> QED
    BY <2>2, <2>3
<1> QED
  BY <1>8, <1>9, <1>10, <1>11 DEF Partition, G

\* Giving a slice back keeps the partition: it merges with both neighbours.
LEMMA FreePartition ==
  ASSUME NEW F, NEW U, NEW n \in Nat, Partition(F, U, n), NEW u \in U
  PROVE  Partition(FreeInto(F, u), U \ {u}, n)
<1> DEFINE before == {f \in F : End(f) = u.offset}
           after  == {f \in F : f.offset = End(u)}
           start  == IF before = {} THEN u.offset ELSE (CHOOSE f \in before : TRUE).offset
           stop   == IF after = {} THEN End(u) ELSE End(CHOOSE f \in after : TRUE)
           new    == Slice(start, stop)
           G      == FreeInto(F, u)
<1>1. /\ \A f \in F \cup U : f.offset \in Nat /\ f.length \in Nat \ {0} /\ End(f) <= n
      /\ \A f \in F \cup U : End(f) = f.offset + f.length
  BY DEF Partition, WithinChunk, End
<1>2. G = (F \ (before \cup after)) \cup {new}
  BY DEF FreeInto
<1>3. \A f \in before : start = f.offset
  BY <1>1 DEF Partition, Disjoint, Apart
<1>4. \A f \in after : stop = End(f)
  BY <1>1 DEF Partition, Disjoint, Apart
<1>5. before = {} => start = u.offset
  OBVIOUS
<1>6. after = {} => stop = End(u)
  OBVIOUS
<1>7. \A f \in F : f \in before <=> End(f) = u.offset
  OBVIOUS
<1>8. \A f \in F : f \in after <=> f.offset = End(u)
  OBVIOUS
<1>9. before \subseteq F /\ after \subseteq F
  OBVIOUS
<1> HIDE DEF before, after, start, stop, new, G
<1>10. start \in Nat /\ stop \in Nat /\ start <= u.offset /\ End(u) <= stop /\ stop <= n
  <2>1. start \in Nat /\ start <= u.offset
    <3>1. CASE before = {}
      BY <1>1, <1>5, <3>1
    <3>2. CASE before # {}
      BY <1>1, <1>3, <1>7, <1>9, <3>2
    <3> QED
      BY <3>1, <3>2
  <2>2. stop \in Nat /\ End(u) <= stop /\ stop <= n
    <3>1. CASE after = {}
      BY <1>1, <1>6, <3>1
    <3>2. CASE after # {}
      BY <1>1, <1>4, <1>8, <1>9, <3>2
    <3> QED
      BY <3>1, <3>2
  <2> QED
    BY <2>1, <2>2
<1>11. new.offset = start /\ new.length = stop - start /\ End(new) = stop
  BY <1>10 DEF new, Slice, End
\* Nothing that remains overlaps the merged slice.
<1>12. \A f \in (F \ (before \cup after)) \cup (U \ {u}) : Apart(f, new) /\ Apart(new, f)
  <2> SUFFICES ASSUME NEW f \in (F \ (before \cup after)) \cup (U \ {u})
               PROVE  Apart(f, new) /\ Apart(new, f)
    OBVIOUS
  <2>1. Apart(f, u)
    BY DEF Partition, Disjoint, Apart
  <2>2. \A g \in before \cup after : Apart(f, g)
    BY <1>9 DEF Partition, Disjoint, Apart
  <2>3. End(f) <= u.offset => End(f) <= start
    <3>1. CASE before = {}
      BY <1>5, <3>1
    <3>2. CASE before # {}
      BY <1>1, <1>3, <1>7, <1>9, <2>2, <3>2 DEF Apart
    <3> QED
      BY <3>1, <3>2
  <2>4. End(u) <= f.offset => stop <= f.offset
    <3>1. CASE after = {}
      BY <1>6, <3>1
    <3>2. CASE after # {}
      BY <1>1, <1>4, <1>8, <1>9, <2>2, <3>2 DEF Apart
    <3> QED
      BY <3>1, <3>2
  <2> QED
    BY <1>11, <2>1, <2>3, <2>4 DEF Apart
<1>13. WithinChunk(G, n) /\ WithinChunk(U \ {u}, n)
  BY <1>1, <1>2, <1>10, <1>11 DEF WithinChunk
<1>14. Disjoint(G, U \ {u})
  BY <1>2, <1>12 DEF Partition, Disjoint
<1>15. Coalesced(G)
  <2>1. \A f \in F \ (before \cup after) : End(f) # start /\ stop # f.offset
    <3> SUFFICES ASSUME NEW f \in F \ (before \cup after)
                 PROVE  End(f) # start /\ stop # f.offset
      OBVIOUS
    <3>1. End(f) # start
      <4>1. CASE before = {}
        BY <1>5, <1>7, <4>1
      <4>2. CASE before # {}
        BY <1>3, <1>9, <4>2 DEF Partition, Coalesced
      <4> QED
        BY <4>1, <4>2
    <3>2. stop # f.offset
      <4>1. CASE after = {}
        BY <1>6, <1>8, <4>1
      <4>2. CASE after # {}
        BY <1>4, <1>9, <4>2 DEF Partition, Coalesced
      <4> QED
        BY <4>1, <4>2
    <3> QED
      BY <3>1, <3>2
  <2>2. start < stop
    BY <1>1, <1>10
  <2> QED
    BY <1>2, <1>10, <1>11, <2>1, <2>2 DEF Partition, Coalesced
<1>16. Covered(G, U \ {u}, n)
  <2> SUFFICES ASSUME NEW b \in 0 .. n - 1
               PROVE  \E f \in G \cup (U \ {u}) : f.offset <= b /\ b < End(f)
    BY DEF Covered
  <2>1. PICK f \in F \cup U : f.offset <= b /\ b < End(f)
    BY DEF Partition, Covered
  <2>2. CASE f \in (F \ (before \cup after)) \cup (U \ {u})
    BY <1>2, <2>1, <2>2
  <2>3. CASE f \in before \cup after \cup {u}
    <3>1. new.offset <= b /\ b < End(new)
      BY <1>1, <1>3, <1>4, <1>7, <1>8, <1>9, <1>10, <1>11, <2>1, <2>3
    <3> QED
      BY <1>2, <3>1
  <2> QED
    BY <2>2, <2>3
<1> QED
  BY <1>13, <1>14, <1>15, <1>16 DEF Partition, G

\* A chunk counts as empty exactly when nothing of it is in use: it is never
\* freed too early, and never kept because its free list is in pieces.
THEOREM EmptyMeansUnused ==
  ASSUME NEW F, NEW U, NEW n \in Nat \ {0}, Partition(F, U, n)
  PROVE  IsEmpty(F, n) <=> U = {}
<1>1. /\ \A f \in F \cup U : f.offset \in Nat /\ f.length \in Nat \ {0} /\ End(f) <= n
      /\ \A f \in F \cup U : End(f) = f.offset + f.length
  BY DEF Partition, WithinChunk, End
<1>2. ASSUME IsEmpty(F, n) PROVE U = {}
  <2>1. PICK s \in F : s.length = n
    BY <1>2 DEF IsEmpty
  <2>2. \A u \in U : Apart(s, u)
    BY DEF Partition, Disjoint
  <2> QED
    BY <1>1, <2>1, <2>2 DEF Apart
<1>3. ASSUME U = {} PROVE IsEmpty(F, n)
  <2>1. PICK s \in F : s.offset <= 0 /\ 0 < End(s)
    BY <1>3 DEF Partition, Covered
  \* The slice that holds the first byte ends where the chunk ends: a slice
  \* that held the next byte would be its neighbour.
  <2>2. End(s) = n
    <3> SUFFICES ASSUME End(s) # n PROVE FALSE
      OBVIOUS
    <3>1. End(s) \in 0 .. n - 1
      BY <1>1
    <3>2. PICK t \in F : t.offset <= End(s) /\ End(s) < End(t)
      BY <1>3, <3>1 DEF Partition, Covered
    <3>3. t # s => Apart(s, t)
      BY DEF Partition, Disjoint
    <3>4. End(s) # t.offset
      BY DEF Partition, Coalesced
    <3> QED
      BY <1>1, <2>1, <3>2, <3>3, <3>4 DEF Apart
  <2>3. \A t \in F : t = s
    <3>1. \A t \in F : t # s => Apart(s, t)
      BY DEF Partition, Disjoint
    <3> QED
      BY <1>1, <2>1, <2>2, <3>1 DEF Apart
  <2>4. F = {s} /\ s.length = n
    BY <1>1, <2>1, <2>2, <2>3
  <2> QED
    BY <2>4 DEF IsEmpty
<1> QED
  BY <1>2, <1>3

-----------------------------------------------------------------------------
(* The allocator.                                                          *)

Calls ==
  [stage : {"dedicated", "shared", "relaxed", "slower", "failed"}, next : Nat,
   size : Nat \ {0}, align : Nat \ {0}, types : SUBSET Types, flags : SUBSET Flags,
   hints : SUBSET (Category \cup {"ignore"}), dedicated : BOOLEAN, required : BOOLEAN,
   optimal : BOOLEAN]

Shapes ==
  /\ memory \in [Memories -> [size : Nat, type : Types, flags : SUBSET Flags,
                              hints : SUBSET (Category \cup {"ignore"})]]
  /\ chunks \in [Types -> SUBSET Memories]
  /\ DOMAIN free = Memories /\ DOMAIN used = Memories
  /\ call \in {NoCall} \cup Calls

\* What holds of every piece of device memory: a chunk is partitioned, other
\* memory has one use at most, and an unallocated handle has none.
Sound(m) ==
  /\ IsChunk(m) => /\ memory[m].size # 0
                   /\ Partition(free[m], used[m], memory[m].size)
  /\ ~IsChunk(m) => \A u, v \in used[m] : u = v
  /\ memory[m].size = 0 => used[m] = {}

IInv == Shapes /\ \A m \in Memories : Sound(m)

\* A free list of one slice is a partition of an unused chunk.
LEMMA WholePartition ==
  ASSUME NEW n \in Nat \ {0}
  PROVE  Partition({Slice(0, n)}, {}, n)
BY DEF Partition, WithinChunk, Disjoint, Coalesced, Covered, Apart, End, Slice

\* The statistics aside, a call that goes on to another attempt is well-formed.
LEMMA CallsClosed ==
  ASSUME MemoryAssumption, NEW c \in Calls
  PROVE  /\ Shared(c) \in Calls
         /\ Relaxed(c) \in Calls
         /\ Slower(c) \in Calls
<1>1. /\ Align(c.size, Granularity) \in Nat \ {0}
      /\ Align(c.align, Granularity) \in Nat \ {0}
      /\ Align(c.size, 1) \in Nat \ {0}
      /\ Align(c.align, 1) \in Nat \ {0}
  <2>1. /\ c.size \in Nat \ {0} /\ c.align \in Nat \ {0}
        /\ Granularity \in Nat \ {0}
    BY DEF Calls, MemoryAssumption
  <2>2. \A x, a \in Nat \ {0} : Align(x, a) \in Nat \ {0}
    <3> SUFFICES ASSUME NEW x \in Nat \ {0}, NEW a \in Nat \ {0}
                 PROVE  Align(x, a) \in Nat \ {0}
      OBVIOUS
    <3>1. Align(x, a) \in Nat /\ Align(x, a) >= x
      BY AlignUp
    <3> QED
      BY <3>1
  <2>3. 1 \in Nat \ {0}
    OBVIOUS
  <2> QED
    BY <2>1, <2>2, <2>3
<1>2. Shared(c) \in Calls
  BY <1>1 DEF Shared, Calls
<1>3. Relaxed(c) \in Calls
  BY DEF Relaxed, Calls
<1>4. Slower(c) \in Calls
  BY DEF Slower, Calls
<1> QED
  BY <1>2, <1>3, <1>4

LEMMA InitInvariant ==
  ASSUME MemoryAssumption, Init
  PROVE  IInv
<1>1. 1 \in Types
  BY DEF MemoryAssumption, Types
<1>2. NoMemory \in [size : Nat, type : Types, flags : SUBSET Flags,
                     hints : SUBSET (Category \cup {"ignore"})]
  BY <1>1 DEF NoMemory
<1>3. Shapes
  BY <1>2 DEF Init, Shapes
<1>4. \A m \in Memories : ~IsChunk(m) /\ used[m] = {}
  BY DEF Init, IsChunk
<1> QED
  BY <1>3, <1>4 DEF IInv, Sound

\* A step that leaves all memory but that in S as it was has to be looked at
\* for S only.
LEMMA Frame ==
  ASSUME IInv, Shapes', NEW S \in SUBSET Memories,
         \A m \in Memories \ S : /\ memory'[m] = memory[m]
                                 /\ free'[m] = free[m]
                                 /\ used'[m] = used[m]
                                 /\ IsChunk(m)' <=> IsChunk(m),
         \A m \in S : Sound(m)'
  PROVE  IInv'
<1>1. \A m \in Memories \ S : Sound(m)'
  BY DEF IInv, Sound
<1> QED
  BY <1>1 DEF IInv

\* A step of alloc() that touches no memory.
LEMMA CallStep ==
  ASSUME IInv, UNCHANGED memVars, call' \in {NoCall} \cup Calls
  PROVE  IInv'
<1>1. Shapes'
  BY DEF IInv, Shapes, memVars
<1>2. \A m \in Memories : Sound(m)'
  BY DEF IInv, Sound, IsChunk, memVars
<1> QED
  BY <1>1, <1>2 DEF IInv

LEMMA AllocStep ==
  ASSUME MemoryAssumption, IInv, NEW r \in Requests, Alloc(r)
  PROVE  IInv'
<1> DEFINE c == [stage |-> "dedicated", next |-> 1, size |-> r.size, align |-> r.align,
                 types |-> r.types, flags |-> r.flags, hints |-> Hints(r),
                 dedicated |-> r.dedicated, required |-> r.required,
                 optimal |-> r.optimal]
<1>1. r \in [size : Nat \ {0}, align : Nat \ {0}, types : SUBSET Types, flags : SUBSET Flags,
             hints : SUBSET Category, dedicated : BOOLEAN, required : BOOLEAN,
             optimal : BOOLEAN]
  BY DEF MemoryAssumption
<1>2. Hints(r) \in SUBSET (Category \cup {"ignore"})
  BY <1>1 DEF Hints, Category
<1>3. c \in Calls
  BY <1>1, <1>2 DEF Calls
<1>4. call' \in {c, Slower(c), Shared(c)}
  BY DEF Alloc
<1> HIDE DEF c
<1>5. call' \in Calls
  BY <1>3, <1>4, CallsClosed
<1>6. UNCHANGED memVars
  BY DEF Alloc
<1> QED
  BY <1>5, <1>6, CallStep

LEMMA NextStageStep ==
  ASSUME MemoryAssumption, IInv, NextStage
  PROVE  IInv'
<1>1. call \in Calls
  BY DEF NextStage, IInv, Shapes, NoCall
<1>2. call.stage \in {"dedicated", "shared", "relaxed", "slower"}
  BY <1>1 DEF NextStage, Calls
<1>3. [call EXCEPT !.stage = "failed"] \in Calls
  BY <1>1 DEF Calls
<1>4. call' \in {Slower(call), Shared(call), Relaxed(call), [call EXCEPT !.stage = "failed"]}
  BY <1>2 DEF NextStage
<1>5. call' \in Calls
  BY <1>1, <1>3, <1>4, CallsClosed
<1>6. UNCHANGED memVars
  BY DEF NextStage
<1> QED
  BY <1>5, <1>6, CallStep

LEMMA SuballocateStep ==
  ASSUME MemoryAssumption, IInv, NEW t \in Types, Suballocate(t)
  PROVE  IInv'
<1>1. PICK m \in chunks[t] :
         \E s \in BestSlices(free[m], call.size) :
            /\ Fits(s, call.size, call.align)
            /\ free' = [free EXCEPT ![m] = AllocFrom(@, s, call.size, call.align)]
            /\ used' = [used EXCEPT ![m] = @ \cup
                          {DxvkMemory(Allocated(s, call.size, call.align))}]
  BY DEF Suballocate
<1>2. PICK s \in BestSlices(free[m], call.size) :
            /\ Fits(s, call.size, call.align)
            /\ free' = [free EXCEPT ![m] = AllocFrom(@, s, call.size, call.align)]
            /\ used' = [used EXCEPT ![m] = @ \cup
                          {DxvkMemory(Allocated(s, call.size, call.align))}]
  BY <1>1
<1>3. s \in free[m]
  BY <1>2 DEF BestSlices
<1>4. call \in Calls
  BY DEF Suballocate, Trying, IInv, Shapes, NoCall
<1>5. call.size \in Nat \ {0} /\ call.align \in Nat \ {0}
  BY <1>4 DEF Calls
<1>6. m \in Memories /\ IsChunk(m) /\ memory[m].size \in Nat
  BY DEF IInv, Shapes, IsChunk
<1>7. UNCHANGED <<memory, chunks>> /\ call' = NoCall
  BY DEF Suballocate
<1>8. memory[m].size # 0 /\ Partition(free[m], used[m], memory[m].size)
  BY <1>6 DEF IInv, Sound
<1> DEFINE u == DxvkMemory(Allocated(s, call.size, call.align))
<1>9. /\ u.offset = Allocated(s, call.size, call.align).offset
      /\ u.length = Allocated(s, call.size, call.align).length
  BY DEF DxvkMemory
<1> HIDE DEF u
<1>10. Partition(AllocFrom(free[m], s, call.size, call.align), used[m] \cup {u},
                 memory[m].size)
  BY <1>2, <1>3, <1>5, <1>6, <1>8, <1>9, AllocPartition
<1>11. Shapes'
  BY <1>2, <1>7 DEF IInv, Shapes
<1>12. \A x \in Memories : IsChunk(x)' <=> IsChunk(x)
  BY <1>7 DEF IsChunk
<1>13. Sound(m)'
  <2>1. free'[m] = AllocFrom(free[m], s, call.size, call.align) /\ used'[m] = used[m] \cup {u}
    BY <1>2, <1>6 DEF IInv, Shapes, u
  <2> QED
    BY <1>6, <1>7, <1>8, <1>10, <1>12, <2>1 DEF Sound
<1>14. \A x \in Memories \ {m} : memory'[x] = memory[x] /\ free'[x] = free[x] /\ used'[x] = used[x]
  BY <1>2, <1>7 DEF IInv, Shapes
<1>15. {m} \in SUBSET Memories
  BY <1>6
<1> QED
  BY <1>11, <1>12, <1>13, <1>14, <1>15, Frame

\* Chunks are freed for lack of room only when nothing of them is in use.
LEMMA EvictedUnused ==
  ASSUME IInv, NEW h, NEW size, NEW m \in Evicted(h, size)
  PROVE  m \in Memories /\ memory[m].size # 0 /\ used[m] = {}
<1>1. m \in Memories /\ IsChunk(m) /\ IsEmpty(free[m], memory[m].size)
  BY DEF Evicted, IsChunk, Unused
<1>2. memory[m].size \in Nat \ {0} /\ Partition(free[m], used[m], memory[m].size)
  BY <1>1 DEF IInv, Sound, Shapes
<1> QED
  BY <1>1, <1>2, EmptyMeansUnused

\* The chunks E are gone, S is what is new, and all else is as it was.
Exchanged(E, S) ==
  /\ \A m \in E \ S : memory'[m].size = 0
  /\ \A m \in Memories \ S : used'[m] = used[m]
  /\ \A m \in Memories \ (E \cup S) : memory'[m] = memory[m] /\ free'[m] = free[m]
  /\ \A t \in Types : \A m \in Memories \ S :
        m \in chunks'[t] <=> m \in chunks[t] /\ m \notin E

\* When chunks make room for new memory, only the new memory needs a look.
LEMMA Replaced ==
  ASSUME IInv, Shapes', NEW h, NEW size, NEW S \in SUBSET Memories,
         Exchanged(Evicted(h, size), S), \A m \in S : Sound(m)'
  PROVE  IInv'
<1> DEFINE E == Evicted(h, size)
<1>1. \A m \in E \ S : Sound(m)'
  <2> SUFFICES ASSUME NEW m \in E \ S PROVE Sound(m)'
    OBVIOUS
  <2>1. m \in Memories /\ used[m] = {}
    BY EvictedUnused
  <2>2. used'[m] = {} /\ memory'[m].size = 0 /\ ~IsChunk(m)'
    BY <2>1 DEF IsChunk, Exchanged
  <2> QED
    BY <2>2 DEF Sound
<1>2. \A m \in Memories \ (E \cup S) : IsChunk(m)' <=> IsChunk(m)
  BY DEF IsChunk, Exchanged
<1>3. (E \cup S) \in SUBSET Memories
  BY EvictedUnused
<1> QED
  BY <1>1, <1>2, <1>3, Frame DEF Exchanged

LEMMA NewChunkStep ==
  ASSUME MemoryAssumption, IInv, NEW t \in Types, NEW m \in Memories,
         NEW size \in TriedSizes(t), NewChunk(t, m, size)
  PROVE  IInv' /\ Exchanged(Evicted(TypeHeap[t], NewSize(t)), {m})
<1> DEFINE E     == Evicted(TypeHeap[t], NewSize(t))
           whole == Slice(0, size)
           slice == Allocated(whole, call.size, call.align)
           fits  == Fits(whole, call.size, call.align)
<1>1. size \in Nat \ {0}
  <2>1. HeapSize[TypeHeap[t]] \in Nat
    BY DEF MemoryAssumption
  <2> QED
    BY <2>1 DEF TriedSizes
<1>2. call \in Calls
  BY DEF NewChunk, Trying, IInv, Shapes, NoCall
<1>3. call.size \in Nat \ {0} /\ call.align \in Nat \ {0}
  BY <1>2 DEF Calls
<1>4. used[m] = {} /\ m \notin E
  BY EvictedUnused DEF NewChunk, Available, IInv, Sound
<1>5. /\ memory' = Renewed(memory, E, NoMemory, m, NewMemory(t, size))
      /\ chunks' = [Listed(E) EXCEPT ![t] = @ \cup {m}]
  BY DEF NewChunk
<1>6. Partition({whole}, {}, size)
  BY <1>1, WholePartition
\* Whether the allocation fits or not, the new chunk is partitioned.
<1>7. /\ Partition(free'[m], used'[m], size)
      /\ \A x \in Memories \ {m} : used'[x] = used[x] /\ (x \notin E => free'[x] = free[x])
      /\ DOMAIN free' = Memories /\ DOMAIN used' = Memories
      /\ call' \in {NoCall} \cup Calls
  <2>1. CASE fits
    <3>1. /\ free' = Renewed(free, E, {}, m,
                             AllocFrom({whole}, whole, call.size, call.align))
          /\ used' = [used EXCEPT ![m] = {DxvkMemory(slice)}]
          /\ call' = NoCall
      BY <2>1 DEF NewChunk
    <3>2. /\ DxvkMemory(slice).offset = slice.offset
          /\ DxvkMemory(slice).length = slice.length
      BY DEF DxvkMemory
    <3> HIDE DEF whole, E
    <3>3. Partition(AllocFrom({whole}, whole, call.size, call.align),
                    {} \cup {DxvkMemory(slice)}, size)
      BY <1>1, <1>3, <1>6, <2>1, <3>2, AllocPartition
    <3>4. {} \cup {DxvkMemory(slice)} = {DxvkMemory(slice)}
      OBVIOUS
    <3> HIDE DEF slice, fits
    <3>5. /\ free'[m] = AllocFrom({whole}, whole, call.size, call.align)
          /\ used'[m] = {DxvkMemory(slice)}
      BY <3>1 DEF Renewed, IInv, Shapes
    <3> QED
      BY <3>1, <3>3, <3>4, <3>5 DEF Renewed, IInv, Shapes
  <2>2. CASE ~fits
    <3>1. /\ free' = Renewed(free, E, {}, m, {whole})
          /\ used' = used
          /\ call' = [call EXCEPT !.next = t + 1]
      BY <2>2 DEF NewChunk
    <3>2. call' \in Calls
      BY <1>2, <3>1 DEF Calls, Types
    <3> HIDE DEF whole, E, slice, fits
    <3> QED
      BY <1>4, <1>6, <3>1, <3>2 DEF Renewed, IInv, Shapes
  <2> QED
    BY <2>1, <2>2
<1>0. E = Evicted(TypeHeap[t], NewSize(t))
  OBVIOUS
<1> HIDE DEF whole, E, slice, fits
<1>8. memory'[m].size = size
  BY <1>5 DEF Renewed, NewMemory
<1>9. Shapes'
  <2>1. NewMemory(t, size) \in [size : Nat, type : Types, flags : SUBSET Flags,
                                hints : SUBSET (Category \cup {"ignore"})]
    BY <1>1, <1>2 DEF NewMemory, Calls
  <2>2. NoMemory \in [size : Nat, type : Types, flags : SUBSET Flags,
                      hints : SUBSET (Category \cup {"ignore"})]
    BY DEF NoMemory, Types, MemoryAssumption
  <2>3. memory' \in [Memories -> [size : Nat, type : Types, flags : SUBSET Flags,
                                  hints : SUBSET (Category \cup {"ignore"})]]
    BY <1>5, <2>1, <2>2 DEF Renewed, IInv, Shapes
  <2>4. chunks' \in [Types -> SUBSET Memories]
    BY <1>5 DEF Listed, IInv, Shapes
  <2> QED
    BY <1>7, <2>3, <2>4 DEF Shapes
<1>10. Sound(m)'
  <2>1. IsChunk(m)'
    BY <1>5 DEF IsChunk, Listed
  <2> QED
    BY <1>1, <1>7, <1>8, <2>1 DEF Sound
<1>11. \A x \in E \ {m} : memory'[x].size = 0
  BY <1>5, EvictedUnused DEF E, Renewed, NoMemory
<1>12. \A x \in Memories \ (E \cup {m}) : memory'[x] = memory[x] /\ free'[x] = free[x]
  BY <1>5, <1>7 DEF Renewed
<1>13. \A u \in Types : \A x \in Memories \ {m} :
         x \in chunks'[u] <=> x \in chunks[u] /\ x \notin E
  BY <1>5 DEF Listed
<1>14. {m} \in SUBSET Memories
  OBVIOUS
<1>15. Exchanged(Evicted(TypeHeap[t], NewSize(t)), {m})
  BY <1>0, <1>7, <1>11, <1>12, <1>13 DEF Exchanged
<1>16. \A x \in {m} : Sound(x)'
  BY <1>10
<1> QED
  BY <1>9, <1>14, <1>15, <1>16, Replaced

LEMMA DedicatedStep ==
  ASSUME MemoryAssumption, IInv, NEW t \in Types, NEW m \in Memories, Dedicated(t, m)
  PROVE  IInv' /\ Exchanged(Evicted(TypeHeap[t], NewSize(t)), {m})
<1> DEFINE E == Evicted(TypeHeap[t], NewSize(t))
           own == DxvkMemory(Slice(0, call.size))
<1>1. call \in Calls
  BY DEF Dedicated, Trying, IInv, Shapes, NoCall
<1>2. call.size \in Nat \ {0}
  BY <1>1 DEF Calls
<1>3. memory[m].size = 0
  BY DEF Dedicated, Available
<1>4. /\ memory' = Renewed(memory, E, NoMemory, m, NewMemory(t, call.size))
      /\ chunks' = Listed(E)
      /\ free' = Renewed(free, E, {}, m, {})
      /\ used' = [used EXCEPT ![m] = {own}]
      /\ call' = NoCall
  BY DEF Dedicated
<1>0. E = Evicted(TypeHeap[t], NewSize(t))
  OBVIOUS
<1> HIDE DEF E, own
<1>5. Shapes'
  <2>1. NewMemory(t, call.size) \in [size : Nat, type : Types, flags : SUBSET Flags,
                                     hints : SUBSET (Category \cup {"ignore"})]
    BY <1>1 DEF NewMemory, Calls
  <2>2. NoMemory \in [size : Nat, type : Types, flags : SUBSET Flags,
                      hints : SUBSET (Category \cup {"ignore"})]
    BY DEF NoMemory, Types, MemoryAssumption
  <2>3. memory' \in [Memories -> [size : Nat, type : Types, flags : SUBSET Flags,
                                  hints : SUBSET (Category \cup {"ignore"})]]
    BY <1>4, <2>1, <2>2 DEF Renewed, IInv, Shapes
  <2> QED
    BY <1>4, <2>3 DEF Renewed, Listed, IInv, Shapes
<1>6. Sound(m)'
  <2>1. ~IsChunk(m)'
    BY <1>3, <1>4 DEF IsChunk, Listed, IInv, Sound
  <2>2. memory'[m].size = call.size /\ used'[m] = {own}
    BY <1>4 DEF Renewed, NewMemory, IInv, Shapes
  <2> QED
    BY <1>2, <2>1, <2>2 DEF Sound
<1>7. \A x \in E \ {m} : memory'[x].size = 0
  BY <1>4, EvictedUnused DEF E, Renewed, NoMemory
<1>8. \A x \in Memories \ (E \cup {m}) : memory'[x] = memory[x] /\ free'[x] = free[x]
  BY <1>4 DEF Renewed
<1>9. \A x \in Memories \ {m} : used'[x] = used[x]
  BY <1>4 DEF IInv, Shapes
<1>10. \A u \in Types : \A x \in Memories \ {m} :
         x \in chunks'[u] <=> x \in chunks[u] /\ x \notin E
  BY <1>4 DEF Listed
<1>11. {m} \in SUBSET Memories
  OBVIOUS
<1>12. Exchanged(Evicted(TypeHeap[t], NewSize(t)), {m})
  BY <1>0, <1>7, <1>8, <1>9, <1>10 DEF Exchanged
<1>13. \A x \in {m} : Sound(x)'
  BY <1>6
<1> QED
  BY <1>5, <1>11, <1>12, <1>13, Replaced

LEMMA RefusedStep ==
  ASSUME MemoryAssumption, IInv, NEW t \in Types, Refused(t)
  PROVE  IInv' /\ Exchanged(Evicted(TypeHeap[t], NewSize(t)), {})
<1> DEFINE E == Evicted(TypeHeap[t], NewSize(t))
<1>1. call \in Calls
  BY DEF Refused, Trying, IInv, Shapes, NoCall
<1>2. /\ memory' = [m \in Memories |-> IF m \in E THEN NoMemory ELSE memory[m]]
      /\ chunks' = Listed(E)
      /\ free' = [m \in Memories |-> IF m \in E THEN {} ELSE free[m]]
      /\ call' = [call EXCEPT !.next = t + 1]
      /\ used' = used
  BY DEF Refused
<1>0. E = Evicted(TypeHeap[t], NewSize(t))
  OBVIOUS
<1> HIDE DEF E
<1>3. Shapes'
  <2>1. NoMemory \in [size : Nat, type : Types, flags : SUBSET Flags,
                      hints : SUBSET (Category \cup {"ignore"})]
    BY DEF NoMemory, Types, MemoryAssumption
  <2>2. memory' \in [Memories -> [size : Nat, type : Types, flags : SUBSET Flags,
                                  hints : SUBSET (Category \cup {"ignore"})]]
    BY <1>2, <2>1 DEF IInv, Shapes
  <2>3. call' \in Calls
    BY <1>1, <1>2 DEF Calls, Types
  <2> QED
    BY <1>2, <2>2, <2>3 DEF Listed, IInv, Shapes
<1>4. \A x \in E \ {} : memory'[x].size = 0
  BY <1>2, EvictedUnused DEF E, NoMemory
<1>5. \A x \in Memories \ (E \cup {}) : memory'[x] = memory[x] /\ free'[x] = free[x]
  BY <1>2
<1>6. \A u \in Types : \A x \in Memories \ {} :
         x \in chunks'[u] <=> x \in chunks[u] /\ x \notin E
  BY <1>2 DEF Listed
<1>7. Exchanged(Evicted(TypeHeap[t], NewSize(t)), {})
  BY <1>0, <1>2, <1>4, <1>5, <1>6 DEF Exchanged
<1> QED
  BY <1>3, <1>7, Replaced

\* What Release says of the memory, for each way to free u.
LEMMA ReleaseShapes ==
  ASSUME IInv, NEW m \in Memories, NEW u \in used[m], Release(m, u)
  PROVE  /\ DOMAIN used' = Memories /\ call' = call
         /\ used'[m] = used[m] \ {u}
         /\ \A x \in Memories \ {m} : used'[x] = used[x]
         /\ {m} \in SUBSET Memories
BY DEF Release, IInv, Shapes

\* Memory that is given back to the device was not in use.
LEMMA MemoryGone ==
  ASSUME MemoryAssumption, IInv, NEW m \in Memories, NEW u \in used[m], Release(m, u),
         used[m] \ {u} = {},
         memory' = [memory EXCEPT ![m] = NoMemory],
         chunks' = Listed({m}), DOMAIN free' = Memories,
         \A x \in Memories \ {m} : free'[x] = free[x]
  PROVE  IInv'
<1>1. NoMemory \in [size : Nat, type : Types, flags : SUBSET Flags,
                    hints : SUBSET (Category \cup {"ignore"})]
  BY DEF NoMemory, Types, MemoryAssumption
<1>2. memory' \in [Memories -> [size : Nat, type : Types, flags : SUBSET Flags,
                                hints : SUBSET (Category \cup {"ignore"})]]
  BY <1>1 DEF IInv, Shapes
<1>3. Shapes'
  BY <1>2, ReleaseShapes DEF Listed, IInv, Shapes
<1>4. \A x \in Memories \ {m} : /\ memory'[x] = memory[x]
                                /\ free'[x] = free[x]
                                /\ used'[x] = used[x]
                                /\ IsChunk(x)' <=> IsChunk(x)
  BY ReleaseShapes DEF Listed, IsChunk, IInv, Shapes
<1>5. ~IsChunk(m)' /\ used'[m] = {}
  BY ReleaseShapes DEF Listed, IsChunk
<1>6. \A x \in {m} : Sound(x)'
  BY <1>5 DEF Sound
<1>7. {m} \in SUBSET Memories
  OBVIOUS
<1> QED
  BY <1>3, <1>4, <1>6, <1>7, Frame

LEMMA FreeSliceStep ==
  ASSUME MemoryAssumption, IInv, NEW m \in Memories, NEW u \in used[m], FreeSlice(m, u)
  PROVE  IInv'
<1>1. /\ Release(m, u) /\ IsChunk(m)
      /\ free' = [free EXCEPT ![m] = FreeInto(@, u)]
      /\ UNCHANGED <<memory, chunks>>
  BY DEF FreeSlice
<1>2. /\ memory[m].size \in Nat \ {0}
      /\ Partition(free[m], used[m], memory[m].size)
  BY <1>1 DEF IInv, Sound, Shapes
<1>3. Partition(FreeInto(free[m], u), used[m] \ {u}, memory[m].size)
  BY <1>2, FreePartition
<1>4. Shapes'
  BY <1>1, ReleaseShapes DEF IInv, Shapes
<1>5. \A x \in Memories : IsChunk(x)' <=> IsChunk(x)
  BY <1>1 DEF IsChunk
<1>6. \A x \in {m} : Sound(x)'
  <2>1. free'[m] = FreeInto(free[m], u) /\ used'[m] = used[m] \ {u}
    BY <1>1, ReleaseShapes DEF IInv, Shapes
  <2> QED
    BY <1>1, <1>2, <1>3, <1>5, <2>1 DEF Sound
<1>7. \A x \in Memories \ {m} : /\ memory'[x] = memory[x]
                                /\ free'[x] = free[x]
                                /\ used'[x] = used[x]
                                /\ IsChunk(x)' <=> IsChunk(x)
  BY <1>1, <1>5, ReleaseShapes DEF IInv, Shapes
<1>8. {m} \in SUBSET Memories
  OBVIOUS
<1> QED
  BY <1>4, <1>6, <1>7, <1>8, Frame

\* A chunk that is destroyed was left empty, so nothing of it is in use.
LEMMA FreeChunkStep ==
  ASSUME MemoryAssumption, IInv, NEW m \in Memories, NEW u \in used[m], FreeChunk(m, u)
  PROVE  IInv'
<1>1. /\ Release(m, u) /\ IsChunk(m)
      /\ IsEmpty(FreeInto(free[m], u), memory[m].size)
      /\ memory' = [memory EXCEPT ![m] = NoMemory]
      /\ chunks' = Listed({m})
      /\ free' = [free EXCEPT ![m] = {}]
  BY DEF FreeChunk, LeavesEmpty
<1>2. /\ memory[m].size \in Nat \ {0}
      /\ Partition(free[m], used[m], memory[m].size)
  BY <1>1 DEF IInv, Sound, Shapes
<1>3. Partition(FreeInto(free[m], u), used[m] \ {u}, memory[m].size)
  BY <1>2, FreePartition
<1>4. used[m] \ {u} = {}
  BY <1>1, <1>2, <1>3, EmptyMeansUnused
<1>5. DOMAIN free' = Memories /\ \A x \in Memories \ {m} : free'[x] = free[x]
  BY <1>1 DEF IInv, Shapes
<1> QED
  BY <1>1, <1>4, <1>5, MemoryGone

LEMMA FreeDedicatedStep ==
  ASSUME MemoryAssumption, IInv, NEW m \in Memories, NEW u \in used[m], FreeDedicated(m, u)
  PROVE  IInv'
<1>1. /\ Release(m, u) /\ ~IsChunk(m)
      /\ memory' = [memory EXCEPT ![m] = NoMemory]
      /\ UNCHANGED <<chunks, free>>
  BY DEF FreeDedicated
<1>2. used[m] \ {u} = {}
  BY <1>1 DEF IInv, Sound
<1>3. chunks' = Listed({m})
  BY <1>1 DEF Listed, IsChunk, IInv, Shapes
<1>4. DOMAIN free' = Memories /\ \A x \in Memories \ {m} : free'[x] = free[x]
  BY <1>1 DEF IInv, Shapes
<1> QED
  BY <1>1, <1>2, <1>3, <1>4, MemoryGone

\* The invariant from which the partition of every chunk follows.
THEOREM Invariance == Spec => []IInv
<1>1. ASSUME Init PROVE IInv
  BY <1>1, MemoryAssumption, InitInvariant
<1>2. ASSUME IInv, [Next]_vars PROVE IInv'
  <2>1. CASE \E r \in Requests : Alloc(r)
    BY <1>2, <2>1, MemoryAssumption, AllocStep
  <2>2. CASE NextStage
    BY <1>2, <2>2, MemoryAssumption, NextStageStep
  <2>3. CASE Throw
    BY <1>2, <2>3, CallStep DEF Throw
  <2>4. CASE \E t \in Types : Suballocate(t)
    BY <1>2, <2>4, MemoryAssumption, SuballocateStep
  <2>5. CASE \E t \in Types : Refused(t)
    BY <1>2, <2>5, MemoryAssumption, RefusedStep
  <2>6. CASE \E t \in Types, m \in Memories : Dedicated(t, m)
    BY <1>2, <2>6, MemoryAssumption, DedicatedStep
  <2>7. CASE \E t \in Types : \E m \in Memories, size \in TriedSizes(t) : NewChunk(t, m, size)
    BY <1>2, <2>7, MemoryAssumption, NewChunkStep
  <2>8. CASE \E m \in Memories : \E u \in used[m] : FreeSlice(m, u)
    BY <1>2, <2>8, MemoryAssumption, FreeSliceStep
  <2>9. CASE \E m \in Memories : \E u \in used[m] : FreeChunk(m, u)
    BY <1>2, <2>9, MemoryAssumption, FreeChunkStep
  <2>10. CASE \E m \in Memories : \E u \in used[m] : FreeDedicated(m, u)
    BY <1>2, <2>10, MemoryAssumption, FreeDedicatedStep
  <2>11. CASE UNCHANGED vars
    <3>1. UNCHANGED memVars /\ call' = call
      BY <2>11 DEF vars
    <3>2. call' \in {NoCall} \cup Calls
      BY <1>2, <3>1 DEF IInv, Shapes
    <3> QED
      BY <1>2, <3>1, <3>2, CallStep
  <2> QED
    BY <1>2, <2>1, <2>2, <2>3, <2>4, <2>5, <2>6, <2>7, <2>8, <2>9, <2>10, <2>11 DEF Next
<1> QED
  BY <1>1, <1>2, PTL DEF Spec

\* In every chunk, always: no two allocations overlap, none overlaps the free
\* list, the free list is coalesced, and no byte is lost.
THEOREM ChunksStayPartitioned == Spec => []ChunksPartitioned
<1>1. IInv => ChunksPartitioned
  BY DEF IInv, Sound, ChunksPartitioned
<1> QED
  BY <1>1, Invariance, PTL

\* Memory in use stays allocated.
THEOREM UsedStaysAllocated ==
  Spec => [](\A m \in Memories : used[m] # {} => memory[m].size > 0)
<1>1. IInv => \A m \in Memories : used[m] # {} => memory[m].size > 0
  BY DEF IInv, Sound, Shapes
<1> QED
  BY <1>1, Invariance, PTL

-----------------------------------------------------------------------------
(* Device memory and the lists of chunks                                   *)

\* Device memory has a use or is a chunk; what is no chunk has no free list.
Backed(m) ==
  /\ ~IsChunk(m) => free[m] = {}
  /\ memory[m].size # 0 /\ ~IsChunk(m) => used[m] # {}
  /\ \A u \in used[m] : u.offset \in Nat /\ u.length \in Nat

\* The list of a type holds chunks of this type, each at one place.
ListInv ==
  /\ ahead \in [Memories -> SUBSET Memories]
  /\ \A t \in Types : \A m \in chunks[t] :
        /\ memory[m].type = t
        /\ ahead[m] \subseteq chunks[t]
        /\ \A c \in chunks[t] \ {m} : c \in ahead[m] <=> m \notin ahead[c]

BackedInv == ListInv /\ \A m \in Memories : Backed(m)

\* Nothing of the lists has changed.
LEMMA ListKept ==
  ASSUME ListInv, UNCHANGED <<memory, chunks, ahead>>
  PROVE  ListInv'
BY DEF ListInv

\* The chunks E leave their lists and their memory is gone.
LEMMA ListWithout ==
  ASSUME IInv, ListInv, NEW E \in SUBSET Memories,
         chunks' = Listed(E), ahead' = Ordered(E),
         \A x \in Memories \ E : memory'[x] = memory[x] \/ ~IsChunk(x)
  PROVE  ListInv'
<1>1. \A t \in Types : chunks'[t] = chunks[t] \ E
  BY DEF Listed
<1>2. \A x \in Memories \ E : ahead'[x] = ahead[x] \ E
  BY DEF Ordered
<1>3. ahead' \in [Memories -> SUBSET Memories]
  BY DEF Ordered, ListInv
<1>4. ASSUME NEW t \in Types, NEW x \in chunks'[t]
      PROVE  /\ memory'[x].type = t
             /\ ahead'[x] \subseteq chunks'[t]
             /\ \A c \in chunks'[t] \ {x} : c \in ahead'[x] <=> x \notin ahead'[c]
  <2>1. x \in chunks[t] /\ x \notin E /\ x \in Memories /\ IsChunk(x)
    BY <1>1 DEF IInv, Shapes, IsChunk
  <2>2. /\ memory[x].type = t /\ ahead[x] \subseteq chunks[t]
        /\ \A c \in chunks[t] \ {x} : c \in ahead[x] <=> x \notin ahead[c]
    BY <2>1 DEF ListInv
  <2>3. \A c \in chunks'[t] : c \in Memories \ E /\ c \in chunks[t]
    BY <1>1 DEF IInv, Shapes
  <2> QED
    BY <1>1, <1>2, <2>1, <2>2, <2>3
<1> QED
  BY <1>3, <1>4 DEF ListInv

\* What an allocation that fits takes has a place.
LEMMA TakenIsNat ==
  ASSUME IInv, call \in Calls, NEW s, s.offset \in Nat, s.length \in Nat,
         Fits(s, call.size, call.align)
  PROVE  LET u == DxvkMemory(Allocated(s, call.size, call.align))
         IN u.offset \in Nat /\ u.length \in Nat
<1>1. call.size \in Nat \ {0} /\ call.align \in Nat \ {0}
  BY DEF Calls
<1>2. LET a == Allocated(s, call.size, call.align) IN a.offset \in Nat /\ a.length \in Nat \ {0}
  BY <1>1, AllocatedInside
<1> QED
  BY <1>2 DEF DxvkMemory

LEMMA SuballocateBacked ==
  ASSUME IInv, BackedInv, NEW t \in Types, Suballocate(t)
  PROVE  BackedInv'
<1>0. PICK m \in chunks[t] :
         \E s \in BestSlices(free[m], call.size) :
            /\ Fits(s, call.size, call.align)
            /\ free' = [free EXCEPT ![m] = AllocFrom(@, s, call.size, call.align)]
            /\ used' = [used EXCEPT ![m] = @ \cup
                          {DxvkMemory(Allocated(s, call.size, call.align))}]
  BY DEF Suballocate
<1>1. PICK s \in BestSlices(free[m], call.size) :
            /\ Fits(s, call.size, call.align)
            /\ free' = [free EXCEPT ![m] = AllocFrom(@, s, call.size, call.align)]
            /\ used' = [used EXCEPT ![m] = @ \cup
                          {DxvkMemory(Allocated(s, call.size, call.align))}]
  BY <1>0
<1> DEFINE u == DxvkMemory(Allocated(s, call.size, call.align))
<1>2. m \in Memories /\ IsChunk(m) /\ s \in free[m]
  BY <1>1 DEF IInv, Shapes, IsChunk, BestSlices
<1>3. call \in Calls
  BY DEF Suballocate, Trying, IInv, Shapes, NoCall
<1>4. s.offset \in Nat /\ s.length \in Nat
  BY <1>2 DEF IInv, Sound, Partition, WithinChunk
<1>5. u.offset \in Nat /\ u.length \in Nat
  BY <1>1, <1>3, <1>4, TakenIsNat
<1>6. UNCHANGED <<memory, chunks, ahead>>
  BY DEF Suballocate
<1>7. ListInv'
  BY <1>6, ListKept DEF BackedInv
<1>8. used'[m] = used[m] \cup {u} /\ \A x \in Memories \ {m} : used'[x] = used[x] /\ free'[x] = free[x]
  BY <1>1, <1>2 DEF IInv, Shapes
<1> HIDE DEF u
<1>9. \A x \in Memories : IsChunk(x)' <=> IsChunk(x)
  BY <1>6 DEF IsChunk
<1>10. ASSUME NEW x \in Memories PROVE Backed(x)'
  <2>1. CASE x = m
    BY <1>2, <1>5, <1>8, <1>9, <2>1 DEF Backed, BackedInv
  <2>2. CASE x # m
    BY <1>6, <1>8, <1>9, <2>2 DEF Backed, BackedInv
  <2> QED
    BY <2>1, <2>2
<1> QED
  BY <1>7, <1>10 DEF BackedInv

\* Chunks made room for new memory, and S is what is new.
LEMMA BackedReplaced ==
  ASSUME IInv, BackedInv, NEW h, NEW size, NEW S \in SUBSET Memories,
         Exchanged(Evicted(h, size), S), \A m \in Evicted(h, size) \ S : free'[m] = {},
         ListInv', \A m \in S : Backed(m)'
  PROVE  BackedInv'
<1> DEFINE E == Evicted(h, size)
<1>1. \A m \in E : m \in Memories /\ used[m] = {}
  BY EvictedUnused
<1> HIDE DEF E
<1>2. ASSUME NEW m \in Memories \ S, m \in E PROVE Backed(m)'
  <2>1. used'[m] = {} /\ memory'[m].size = 0 /\ ~IsChunk(m)' /\ free'[m] = {}
    BY <1>1, <1>2 DEF IsChunk, Exchanged, E
  <2> QED
    BY <2>1 DEF Backed
<1>3. ASSUME NEW m \in Memories \ S, m \notin E PROVE Backed(m)'
  <2>1. memory'[m] = memory[m] /\ free'[m] = free[m] /\ used'[m] = used[m]
    BY <1>3 DEF Exchanged, E
  <2>2. IsChunk(m)' <=> IsChunk(m)
    BY <1>3 DEF IsChunk, Exchanged, E
  <2>3. Backed(m)
    BY DEF BackedInv
  <2> QED
    BY <2>1, <2>2, <2>3 DEF Backed
<1> QED
  BY <1>2, <1>3 DEF BackedInv

LEMMA NewChunkBacked ==
  ASSUME MemoryAssumption, IInv, BackedInv, NEW t \in Types, NEW m \in Memories,
         NEW size \in TriedSizes(t), NewChunk(t, m, size)
  PROVE  BackedInv'
<1> DEFINE h == TypeHeap[t]
           n == NewSize(t)
           E == Evicted(h, n)
           whole == Slice(0, size)
           u == DxvkMemory(Allocated(whole, call.size, call.align))
<1>1. Exchanged(Evicted(h, n), {m})
  BY NewChunkStep
<1>2. call \in Calls /\ size \in Nat
  <2>1. HeapSize[TypeHeap[t]] \in Nat
    BY DEF MemoryAssumption
  <2> QED
    BY <2>1 DEF NewChunk, Trying, IInv, Shapes, NoCall, TriedSizes
<1>3. /\ memory' = Renewed(memory, E, NoMemory, m, NewMemory(t, size))
      /\ chunks' = [Listed(E) EXCEPT ![t] = @ \cup {m}]
      /\ ahead' = [Ordered(E) EXCEPT ![m] = chunks[t] \ E]
      /\ memory[m].size = 0
  BY DEF NewChunk, Available
<1>4. /\ \/ used'[m] = {u} /\ Fits(whole, call.size, call.align)
         \/ used'[m] = used[m]
      /\ \A x \in E \ {m} : free'[x] = {}
  <2>1. E \in SUBSET Memories
    BY EvictedUnused
  <2> HIDE DEF E, u, whole
  <2> QED
    BY <2>1 DEF NewChunk, Renewed, IInv, Shapes, u, whole, E
<1>5. ~IsChunk(m) /\ used[m] = {}
  BY <1>3 DEF IInv, Sound
<1>6. E \in SUBSET Memories
  BY EvictedUnused
<1>7. Backed(m)'
  <2>1. IsChunk(m)'
    BY <1>3 DEF IsChunk, Listed
  <2>2. used'[m] = {u} /\ Fits(whole, call.size, call.align) => u.offset \in Nat /\ u.length \in Nat
    <3>1. whole.offset \in Nat /\ whole.length \in Nat
      BY <1>2 DEF Slice
    <3> HIDE DEF whole
    <3> QED
      BY <1>2, <3>1, TakenIsNat
  <2> HIDE DEF u
  <2> QED
    BY <1>4, <1>5, <2>1, <2>2 DEF Backed
<1> HIDE DEF E, u, whole, h, n
<1>8. ListInv'
  <2>0. ListInv /\ chunks \in [Types -> SUBSET Memories]
    BY DEF BackedInv, IInv, Shapes
  <2>1. ahead' \in [Memories -> SUBSET Memories]
    BY <1>3, <2>0 DEF Ordered, ListInv
  <2>2. \A v \in Types : \A x : x \in chunks'[v] <=> (x \in chunks[v] /\ x \notin E) \/ (x = m /\ v = t)
    BY <1>3, <2>0 DEF Listed
  <2>3. \A v \in Types : m \notin chunks[v]
    BY <1>5 DEF IsChunk
  <2>4. /\ \A x \in Memories \ {m} : x \notin E => ahead'[x] = ahead[x] \ E /\ memory'[x] = memory[x]
        /\ ahead'[m] = chunks[t] \ E
        /\ memory'[m].type = t
    BY <1>3, <1>6 DEF Ordered, Renewed, NewMemory
  <2>5. ASSUME NEW v \in Types, NEW x \in chunks'[v]
        PROVE  /\ memory'[x].type = v
               /\ ahead'[x] \subseteq chunks'[v]
               /\ \A c \in chunks'[v] \ {x} : c \in ahead'[x] <=> x \notin ahead'[c]
    <3>1. CASE x = m /\ v = t
      <4>1. \A c \in chunks'[v] \ {x} : c \in chunks[t] /\ c \notin E /\ c \in Memories \ {m}
        BY <2>0, <2>2, <2>3, <3>1
      <4>2. \A c \in chunks'[v] \ {x} : m \notin ahead'[c]
        BY <2>0, <2>3, <2>4, <4>1 DEF ListInv
      <4> QED
        BY <2>2, <2>4, <3>1, <4>1, <4>2
    <3>2. CASE ~(x = m /\ v = t)
      <4>1. x \in chunks[v] /\ x \notin E /\ x \in Memories \ {m}
        BY <2>0, <2>2, <2>3, <3>2
      <4>2. /\ memory[x].type = v /\ ahead[x] \subseteq chunks[v]
            /\ \A c \in chunks[v] \ {x} : c \in ahead[x] <=> x \notin ahead[c]
        BY <2>0, <4>1 DEF ListInv
      <4>3. ASSUME NEW c \in chunks'[v] \ {x} PROVE c \in ahead'[x] <=> x \notin ahead'[c]
        <5>1. CASE c = m
          BY <2>2, <2>3, <2>4, <4>1, <4>2, <5>1
        <5>2. CASE c # m
          <6>1. c \in chunks[v] /\ c \notin E /\ c \in Memories \ {m}
            BY <2>0, <2>2, <5>2
          <6> QED
            BY <2>4, <4>1, <4>2, <6>1
        <5> QED
          BY <5>1, <5>2
      <4> QED
        BY <2>2, <2>4, <4>1, <4>2, <4>3
    <3> QED
      BY <3>1, <3>2
  <2> QED
    BY <2>1, <2>5 DEF ListInv
<1>9. \A x \in Evicted(h, n) \ {m} : free'[x] = {}
  BY <1>4 DEF E
<1> QED
  BY <1>1, <1>7, <1>8, <1>9, BackedReplaced

LEMMA DedicatedBacked ==
  ASSUME MemoryAssumption, IInv, BackedInv, NEW t \in Types, NEW m \in Memories, Dedicated(t, m)
  PROVE  BackedInv'
<1> DEFINE h == TypeHeap[t]
           n == NewSize(t)
           E == Evicted(h, n)
           own == DxvkMemory(Slice(0, call.size))
<1>1. Exchanged(Evicted(h, n), {m})
  BY DedicatedStep
<1>2. /\ memory' = Renewed(memory, E, NoMemory, m, NewMemory(t, call.size))
      /\ chunks' = Listed(E) /\ ahead' = Ordered(E)
      /\ free' = Renewed(free, E, {}, m, {})
      /\ used' = [used EXCEPT ![m] = {own}]
      /\ memory[m].size = 0
  BY DEF Dedicated, Available
<1>3. call.size \in Nat
  BY DEF Dedicated, Trying, IInv, Shapes, NoCall, Calls
<1>4. own.offset \in Nat /\ own.length \in Nat
  BY <1>3 DEF DxvkMemory, Slice
<1> HIDE DEF h, n, E, own
<1>5. ~IsChunk(m)
  BY <1>2 DEF IInv, Sound
<1>6. E \in SUBSET Memories
  BY EvictedUnused DEF E
<1>7. Backed(m)'
  <2>1. ~IsChunk(m)'
    BY <1>2, <1>5 DEF IsChunk, Listed
  <2>2. free'[m] = {} /\ used'[m] = {own}
    BY <1>2 DEF Renewed, IInv, Shapes
  <2> QED
    BY <1>4, <2>1, <2>2 DEF Backed
<1>8. ListInv'
  <2>1. \A x \in Memories \ E : memory'[x] = memory[x] \/ ~IsChunk(x)
    BY <1>2, <1>5 DEF Renewed
  <2> QED
    BY <1>2, <1>6, <2>1, ListWithout DEF BackedInv
<1>9. \A x \in Evicted(h, n) \ {m} : free'[x] = {}
  BY <1>2, <1>6 DEF E, Renewed
<1> QED
  BY <1>1, <1>7, <1>8, <1>9, BackedReplaced

LEMMA RefusedBacked ==
  ASSUME MemoryAssumption, IInv, BackedInv, NEW t \in Types, Refused(t)
  PROVE  BackedInv'
<1> DEFINE h == TypeHeap[t]
           n == NewSize(t)
           E == Evicted(h, n)
<1>1. Exchanged(Evicted(h, n), {})
  BY RefusedStep
<1>2. /\ memory' = [m \in Memories |-> IF m \in E THEN NoMemory ELSE memory[m]]
      /\ chunks' = Listed(E) /\ ahead' = Ordered(E)
      /\ free' = [m \in Memories |-> IF m \in E THEN {} ELSE free[m]]
  BY DEF Refused
<1> HIDE DEF h, n, E
<1>3. E \in SUBSET Memories
  BY EvictedUnused DEF E
<1>4. ListInv'
  BY <1>2, <1>3, ListWithout DEF BackedInv
<1>5. \A x \in Evicted(h, n) \ {} : free'[x] = {}
  BY <1>2, <1>3 DEF E
<1> QED
  BY <1>1, <1>4, <1>5, BackedReplaced

\* What m holds changes as Release says, and other memory stays as it was.
LEMMA BackedOthers ==
  ASSUME IInv, BackedInv, NEW m \in Memories, NEW u \in used[m], Release(m, u),
         \A x \in Memories \ {m} : memory'[x] = memory[x] /\ free'[x] = free[x],
         \A t \in Types : \A x \in Memories \ {m} : x \in chunks'[t] <=> x \in chunks[t],
         ListInv', Backed(m)'
  PROVE  BackedInv'
<1>1. ASSUME NEW x \in Memories \ {m} PROVE Backed(x)'
  <2>1. IsChunk(x)' <=> IsChunk(x)
    BY DEF IsChunk
  <2>2. used'[x] = used[x] /\ Backed(x)
    BY ReleaseShapes DEF BackedInv
  <2> QED
    BY <2>1, <2>2 DEF Backed
<1> QED
  BY <1>1 DEF BackedInv

LEMMA FreeSliceBacked ==
  ASSUME IInv, BackedInv, NEW m \in Memories, NEW u \in used[m], FreeSlice(m, u)
  PROVE  BackedInv'
<1>1. /\ Release(m, u) /\ IsChunk(m)
      /\ free' = [free EXCEPT ![m] = FreeInto(@, u)]
      /\ UNCHANGED <<memory, chunks>>
  BY DEF FreeSlice
<1>2. Backed(m)'
  <2>1. IsChunk(m)' /\ used'[m] \subseteq used[m] /\ Backed(m)
    BY <1>1, ReleaseShapes DEF IsChunk, BackedInv
  <2> QED
    BY <2>1 DEF Backed
<1>3. ListInv'
  <2>1. CASE ahead' = ahead
    BY <1>1, <2>1, ListKept DEF BackedInv
  <2>2. CASE ahead' # ahead
    <3>1. PICK t \in Types : m \in chunks[t]
      BY <1>1 DEF IsChunk
    <3>2. ListInv /\ chunks \in [Types -> SUBSET Memories] /\ memory[m].type = t
      BY <3>1 DEF BackedInv, IInv, Shapes, ListInv
    <3>3. ahead' = [Ordered({m}) EXCEPT ![m] = chunks[t] \ {m}]
      BY <2>2, <3>2 DEF FreeSlice
    <3>4. /\ \A x \in Memories \ {m} : ahead'[x] = ahead[x] \ {m}
          /\ ahead'[m] = chunks[t] \ {m}
      BY <3>3 DEF Ordered
    <3>5. ahead' \in [Memories -> SUBSET Memories]
      BY <3>2, <3>3 DEF Ordered, ListInv
    <3>6. \A v \in Types : m \in chunks[v] => v = t
      BY <3>2 DEF ListInv
    <3>7. ASSUME NEW v \in Types, NEW x \in chunks[v]
          PROVE  /\ memory[x].type = v
                 /\ ahead'[x] \subseteq chunks[v]
                 /\ \A c \in chunks[v] \ {x} : c \in ahead'[x] <=> x \notin ahead'[c]
      <4>1. /\ memory[x].type = v /\ ahead[x] \subseteq chunks[v]
            /\ \A c \in chunks[v] \ {x} : c \in ahead[x] <=> x \notin ahead[c]
        BY <3>2 DEF ListInv
      <4>2. chunks[v] \subseteq Memories
        BY <3>2
      <4>3. CASE x = m
        BY <3>4, <3>6, <4>1, <4>2, <4>3
      <4>4. CASE x # m
        <5>1. ASSUME NEW c \in chunks[v] \ {x} PROVE c \in ahead'[x] <=> x \notin ahead'[c]
          <6>1. CASE c = m
            BY <3>4, <3>6, <4>2, <4>4, <6>1
          <6>2. CASE c # m
            BY <3>4, <4>1, <4>2, <4>4, <6>2
          <6> QED
            BY <6>1, <6>2
        <5> QED
          BY <3>4, <4>1, <4>2, <4>4, <5>1
      <4> QED
        BY <4>3, <4>4
    <3> QED
      BY <1>1, <3>5, <3>7 DEF ListInv
  <2> QED
    BY <2>1, <2>2
<1>4. \A x \in Memories \ {m} : memory'[x] = memory[x] /\ free'[x] = free[x]
  BY <1>1 DEF IInv, Shapes
<1>5. \A t \in Types : \A x \in Memories \ {m} : x \in chunks'[t] <=> x \in chunks[t]
  BY <1>1
<1> QED
  BY <1>1, <1>2, <1>3, <1>4, <1>5, BackedOthers

\* The memory of m is given back to the device, and nothing of it was in use any more.
LEMMA GoneBacked ==
  ASSUME IInv, BackedInv, NEW m \in Memories, NEW u \in used[m], Release(m, u),
         used[m] \ {u} = {}, memory' = [memory EXCEPT ![m] = NoMemory],
         chunks' = Listed({m}), ahead' = Ordered({m}), free'[m] = {},
         \A x \in Memories \ {m} : free'[x] = free[x]
  PROVE  BackedInv'
<1>1. \A x \in Memories \ {m} : memory'[x] = memory[x]
  BY DEF IInv, Shapes
<1>2. memory'[m].size = 0 /\ used'[m] = {}
  BY ReleaseShapes DEF IInv, Shapes, NoMemory
<1>3. Backed(m)'
  BY <1>2 DEF Backed
<1>4. ListInv'
  BY <1>1, ListWithout DEF BackedInv
<1>5. \A t \in Types : \A x \in Memories \ {m} : x \in chunks'[t] <=> x \in chunks[t]
  BY DEF Listed
<1> QED
  BY <1>1, <1>3, <1>4, <1>5, BackedOthers

LEMMA FreeChunkBacked ==
  ASSUME IInv, BackedInv, NEW m \in Memories, NEW u \in used[m], FreeChunk(m, u)
  PROVE  BackedInv'
<1>1. /\ Release(m, u) /\ IsChunk(m)
      /\ IsEmpty(FreeInto(free[m], u), memory[m].size)
      /\ memory' = [memory EXCEPT ![m] = NoMemory]
      /\ chunks' = Listed({m}) /\ ahead' = Ordered({m})
      /\ free' = [free EXCEPT ![m] = {}]
  BY DEF FreeChunk, LeavesEmpty
<1>2. /\ memory[m].size \in Nat \ {0}
      /\ Partition(free[m], used[m], memory[m].size)
  BY <1>1 DEF IInv, Sound, Shapes
<1>3. Partition(FreeInto(free[m], u), used[m] \ {u}, memory[m].size)
  BY <1>2, FreePartition
<1>4. used[m] \ {u} = {}
  BY <1>1, <1>2, <1>3, EmptyMeansUnused
<1>5. free'[m] = {} /\ \A x \in Memories \ {m} : free'[x] = free[x]
  BY <1>1 DEF IInv, Shapes
<1> QED
  BY <1>1, <1>4, <1>5, GoneBacked

LEMMA FreeDedicatedBacked ==
  ASSUME IInv, BackedInv, NEW m \in Memories, NEW u \in used[m], FreeDedicated(m, u)
  PROVE  BackedInv'
<1>1. /\ Release(m, u) /\ ~IsChunk(m)
      /\ memory' = [memory EXCEPT ![m] = NoMemory]
      /\ UNCHANGED <<chunks, ahead, free>>
  BY DEF FreeDedicated
<1>2. used[m] \ {u} = {} /\ free[m] = {}
  BY <1>1 DEF IInv, Sound, BackedInv, Backed
<1>3. ListInv'
  <2>1. \A t \in Types : \A x \in chunks[t] : x \in Memories /\ x # m
    BY <1>1 DEF IInv, Shapes, IsChunk
  <2>2. \A t \in Types : \A x \in chunks[t] : memory'[x] = memory[x]
    BY <1>1, <2>1 DEF IInv, Shapes
  <2> QED
    BY <1>1, <2>2 DEF BackedInv, ListInv
<1>4. Backed(m)'
  <2>1. memory'[m].size = 0 /\ used'[m] = {} /\ free'[m] = {}
    BY <1>1, <1>2, ReleaseShapes DEF IInv, Shapes, NoMemory
  <2> QED
    BY <2>1 DEF Backed
<1>5. \A x \in Memories \ {m} : memory'[x] = memory[x] /\ free'[x] = free[x]
  BY <1>1 DEF IInv, Shapes
<1> QED
  BY <1>1, <1>3, <1>4, <1>5, BackedOthers

\* The lists are in order and every piece of device memory has its use.
THEOREM BackedInvariance == Spec => []BackedInv
<1>1. ASSUME Init PROVE BackedInv
  BY <1>1 DEF Init, BackedInv, ListInv, Backed, IsChunk, NoMemory
<1>2. ASSUME IInv, BackedInv, [Next]_vars PROVE BackedInv'
  <2>1. CASE UNCHANGED memVars
    <3>1. ListInv'
      BY <1>2, <2>1, ListKept DEF BackedInv, memVars
    <3>2. \A m \in Memories : Backed(m)'
      BY <1>2, <2>1 DEF BackedInv, Backed, IsChunk, memVars
    <3> QED
      BY <3>1, <3>2 DEF BackedInv
  <2>2. CASE (\E r \in Requests : Alloc(r)) \/ NextStage \/ Throw \/ UNCHANGED vars
    <3>1. UNCHANGED memVars
      BY <2>2 DEF Alloc, NextStage, Throw, vars
    <3> QED
      BY <2>1, <3>1
  <2>3. CASE \E t \in Types : Suballocate(t)
    BY <1>2, <2>3, SuballocateBacked
  <2>4. CASE \E t \in Types : Refused(t)
    BY <1>2, <2>4, MemoryAssumption, RefusedBacked
  <2>5. CASE \E t \in Types, m \in Memories : Dedicated(t, m)
    BY <1>2, <2>5, MemoryAssumption, DedicatedBacked
  <2>6. CASE \E t \in Types : \E m \in Memories, size \in TriedSizes(t) : NewChunk(t, m, size)
    BY <1>2, <2>6, MemoryAssumption, NewChunkBacked
  <2>7. CASE \E m \in Memories : \E u \in used[m] : FreeSlice(m, u)
    BY <1>2, <2>7, FreeSliceBacked
  <2>8. CASE \E m \in Memories : \E u \in used[m] : FreeChunk(m, u)
    BY <1>2, <2>8, FreeChunkBacked
  <2>9. CASE \E m \in Memories : \E u \in used[m] : FreeDedicated(m, u)
    BY <1>2, <2>9, FreeDedicatedBacked
  <2> QED
    BY <1>2, <2>2, <2>3, <2>4, <2>5, <2>6, <2>7, <2>8, <2>9 DEF Next
<1> QED
  BY <1>1, <1>2, Invariance, PTL DEF Spec

\* An allocation is backed by device memory for as long as it lives, nothing is allocated that
\* has no use, and each chunk has its one place in the list of its type.
THEOREM MemoryStaysBacked == Spec => []MemoryBacked
<1>1. ASSUME IInv, BackedInv PROVE MemoryBacked
  <2>1. \A m \in Memories : Sound(m) /\ Backed(m)
    BY <1>1 DEF IInv, BackedInv
  <2>2. ListInv /\ Shapes
    BY <1>1 DEF IInv, BackedInv
  <2>3. TypeOK
    <3>1. ASSUME NEW m \in Memories, NEW s \in free[m] \cup used[m] PROVE {s.offset, s.length} \subseteq Nat
      BY <2>1 DEF Sound, Backed, Partition, WithinChunk
    <3>2. call.stage \in {"none", "dedicated", "shared", "relaxed", "slower", "failed"}
      BY <2>2 DEF Shapes, Calls, NoCall
    <3> QED
      BY <2>2, <3>1, <3>2 DEF TypeOK, Shapes, ListInv
  <2>4. \A m \in Memories : memory[m].size > 0 <=> IsChunk(m) \/ used[m] # {}
    BY <2>1, <2>2 DEF Sound, Backed, Shapes
  <2>5. ASSUME NEW m \in Memories, ~IsChunk(m) PROVE free[m] = {} /\ Cardinality(used[m]) <= 1
    <3>1. free[m] = {} /\ \A u, v \in used[m] : u = v
      BY <2>1, <2>5 DEF Sound, Backed
    <3>2. CASE used[m] = {}
      BY <3>1, <3>2, FS_EmptySet
    <3>3. CASE used[m] # {}
      <4>1. PICK u \in used[m] : used[m] = {u}
        BY <3>1, <3>3
      <4>2. Cardinality({u}) = 1
        BY FS_Singleton
      <4> QED
        BY <3>1, <4>1, <4>2
    <3> QED
      BY <3>2, <3>3
  <2> QED
    BY <2>2, <2>3, <2>4, <2>5 DEF MemoryBacked, ListInv
<1> QED
  BY <1>1, Invariance, BackedInvariance, PTL

-----------------------------------------------------------------------------
(* Buffers and images                                                      *)

Multiple(x) == \E k \in Nat : x = k * Granularity

\* An image that shares a chunk begins and ends at the granularity.
OnPages(m) ==
  IsChunk(m) => \A u \in used[m] : u.optimal => Multiple(u.offset) /\ Multiple(End(u))

\* An image that will share a chunk is aligned to the granularity, and what requires memory of
\* its own will not share any.
CallPaged(c) ==
  /\ c.optimal /\ ~c.dedicated => Multiple(c.align)
  /\ c.required => c.dedicated

PageInv ==
  /\ call # NoCall => CallPaged(call)
  /\ \A m \in Memories : OnPages(m)

\* What is aligned to a multiple of the granularity is one.
LEMMA AlignMultiple ==
  ASSUME NEW g \in Nat, NEW x \in Nat, NEW a \in Nat \ {0}, NEW j \in Nat, a = j * g
  PROVE  \E k \in Nat : Align(x, a) = k * g
<1> DEFINE q == (x + a - 1) \div a
<1>1. x + a - 1 \in Nat
  OBVIOUS
<1>2. q \in Nat
  BY <1>1
<1>3. Align(x, a) = q * a
  BY DEF Align
<1> HIDE DEF q
<1>4. q * (j * g) = (q * j) * g /\ q * j \in Nat
  BY <1>2
<1> QED
  BY <1>3, <1>4

LEMMA AllocatedPages ==
  ASSUME MemoryAssumption, NEW s, s.offset \in Nat, s.length \in Nat, NEW size \in Nat \ {0},
         NEW align \in Nat \ {0}, Multiple(align)
  PROVE  Multiple(Allocated(s, size, align).offset) /\ Multiple(End(Allocated(s, size, align)))
<1> DEFINE start == Align(s.offset, align)
           stop  == Align(start + size, align)
<1>0. PICK j \in Nat : align = j * Granularity
  BY DEF Multiple
<1>1. Granularity \in Nat
  BY DEF MemoryAssumption
<1>2. start \in Nat
  BY AlignUp
<1>3. start + size \in Nat
  BY <1>2
<1>4. stop \in Nat
  BY <1>3, AlignUp
<1>5. Multiple(start)
  BY <1>0, <1>1, AlignMultiple DEF Multiple
<1> HIDE DEF start
<1>6. Multiple(stop)
  <2> DEFINE x == start + size
  <2>1. x \in Nat
    BY <1>3
  <2> HIDE DEF x
  <2>2. \E k \in Nat : Align(x, align) = k * Granularity
    BY <1>0, <1>1, <2>1, AlignMultiple
  <2> QED
    BY <2>2 DEF Multiple, x
<1>7. Allocated(s, size, align) = [offset |-> start, length |-> stop - start]
  BY DEF Allocated, Slice, start
<1> HIDE DEF stop
<1>8. End(Allocated(s, size, align)) = stop
  BY <1>2, <1>4, <1>7 DEF End
<1> QED
  BY <1>5, <1>6, <1>7, <1>8

\* What ends before a multiple of the granularity ends on an earlier page than what begins
\* after it.
LEMMA PagesApart ==
  ASSUME NEW g \in Nat \ {0}, NEW k \in Nat, NEW x \in Nat \ {0}, NEW y \in Nat,
         x <= k * g, k * g <= y
  PROVE  (x - 1) \div g < y \div g
<1> DEFINE p == (x - 1) \div g
           q == y \div g
<1>1. p \in Int /\ p * g <= x - 1
  OBVIOUS
<1>2. q \in Int /\ y < q * g + g
  OBVIOUS
<1> HIDE DEF p, q
<1>3. p < k
  <2> SUFFICES ASSUME p >= k PROVE FALSE
    BY <1>1
  <2>1. p * g >= k * g
    BY <1>1
  <2>2. p * g \in Int /\ k * g \in Int
    BY <1>1
  <2> QED
    BY <1>1, <2>1, <2>2
<1>4. q >= k
  <2> SUFFICES ASSUME q + 1 <= k PROVE FALSE
    BY <1>2
  <2>1. (q + 1) * g <= k * g
    BY <1>2
  <2>2. (q + 1) * g = q * g + g
    BY <1>2
  <2>3. q * g \in Int /\ k * g \in Int
    BY <1>2
  <2> QED
    BY <1>2, <2>1, <2>2, <2>3
<1> QED
  BY <1>1, <1>2, <1>3, <1>4 DEF p, q

LEMMA CallsPaged ==
  ASSUME MemoryAssumption, NEW c \in Calls
  PROVE  /\ ~c.required => CallPaged(Shared(c))
         /\ CallPaged(c) => CallPaged(Relaxed(c)) /\ CallPaged(Slower(c))
<1>1. ASSUME ~c.required PROVE CallPaged(Shared(c))
  <2>1. Granularity \in Nat \ {0} /\ c.align \in Nat
    BY DEF MemoryAssumption, Calls
  <2>2. PICK q : q = (c.align + Granularity - 1) \div Granularity
    OBVIOUS
  <2>3. q \in Nat
    BY <2>1, <2>2
  <2>4. Multiple(Align(c.align, Granularity))
    BY <2>2, <2>3 DEF Align, Multiple
  <2>5. /\ Shared(c).optimal = c.optimal /\ Shared(c).required = c.required
        /\ c.optimal => Shared(c).align = Align(c.align, Granularity)
    BY DEF Shared, Calls
  <2> QED
    BY <1>1, <2>4, <2>5 DEF CallPaged
<1>2. ASSUME CallPaged(c) PROVE CallPaged(Relaxed(c)) /\ CallPaged(Slower(c))
  BY <1>2 DEF CallPaged, Relaxed, Slower, Calls
<1> QED
  BY <1>1, <1>2

\* A step of alloc() that touches no memory keeps to the granularity.
LEMMA CallPages ==
  ASSUME PageInv, UNCHANGED memVars, call' # NoCall => CallPaged(call')
  PROVE  PageInv'
<1>1. \A m \in Memories : OnPages(m)'
  BY DEF PageInv, OnPages, IsChunk, memVars
<1>2. (call # NoCall => CallPaged(call))'
  BY DEF CallPaged, Multiple
<1> QED
  BY <1>1, <1>2 DEF PageInv

LEMMA AllocPages ==
  ASSUME MemoryAssumption, NEW r \in Requests, Alloc(r)
  PROVE  CallPaged(call')
<1> DEFINE c == [stage |-> "dedicated", next |-> 1, size |-> r.size, align |-> r.align,
                 types |-> r.types, flags |-> r.flags, hints |-> Hints(r),
                 dedicated |-> r.dedicated, required |-> r.required,
                 optimal |-> r.optimal]
<1>1. r \in [size : Nat \ {0}, align : Nat \ {0}, types : SUBSET Types, flags : SUBSET Flags,
             hints : SUBSET Category, dedicated : BOOLEAN, required : BOOLEAN,
             optimal : BOOLEAN] /\ (r.required => r.dedicated)
  BY DEF MemoryAssumption
<1>2. Hints(r) \in SUBSET (Category \cup {"ignore"})
  BY <1>1 DEF Hints, Category
<1>3. c \in Calls /\ c.dedicated = r.dedicated /\ c.required = r.required
  BY <1>1, <1>2 DEF Calls
<1>4. call' = IF r.dedicated THEN c ELSE IF r.required THEN Slower(c) ELSE Shared(c)
  BY DEF Alloc
<1> HIDE DEF c
<1>5. CASE r.dedicated
  BY <1>3, <1>4, <1>5 DEF CallPaged
<1>6. CASE ~r.dedicated
  <2>1. ~r.required /\ ~c.required
    BY <1>1, <1>3, <1>6
  <2>2. call' = Shared(c)
    BY <1>4, <1>6, <2>1
  <2> QED
    BY <1>3, <2>1, <2>2, CallsPaged
<1> QED
  BY <1>5, <1>6

LEMMA NextStagePages ==
  ASSUME MemoryAssumption, IInv, PageInv, NextStage
  PROVE  CallPaged(call')
<1>1. call \in Calls /\ CallPaged(call) /\ call # NoCall
  BY DEF NextStage, IInv, Shapes, NoCall, PageInv
<1>2. call.stage \in {"dedicated", "shared", "relaxed", "slower"}
  BY <1>1 DEF NextStage, Calls
<1>3. \/ call' = Shared(call) /\ ~call.required
      \/ call' \in {Relaxed(call), Slower(call), [call EXCEPT !.stage = "failed"]}
      \/ call.stage = "shared" /\ call' = Relaxed(call)
  BY <1>2 DEF NextStage
<1>4. CallPaged([call EXCEPT !.stage = "failed"])
  BY <1>1 DEF CallPaged, Calls
<1> QED
  BY <1>1, <1>3, <1>4, CallsPaged

\* An allocation from a chunk keeps to the granularity.
LEMMA TakenOnPages ==
  ASSUME MemoryAssumption, call \in Calls, CallPaged(call), ~call.dedicated,
         NEW s, s.offset \in Nat, s.length \in Nat,
         NEW u, u = DxvkMemory(Allocated(s, call.size, call.align)), u.optimal
  PROVE  Multiple(u.offset) /\ Multiple(End(u))
<1>1. call.optimal /\ call.size \in Nat \ {0} /\ call.align \in Nat \ {0}
  BY DEF DxvkMemory, Calls
<1>2. Multiple(call.align)
  BY <1>1 DEF CallPaged
<1> DEFINE a == Allocated(s, call.size, call.align)
<1>3. Multiple(a.offset) /\ Multiple(End(a))
  BY <1>1, <1>2, AllocatedPages
<1> HIDE DEF a
<1>4. u.offset = a.offset /\ u.length = a.length
  BY DEF DxvkMemory, a
<1> QED
  BY <1>3, <1>4 DEF End

LEMMA SuballocatePages ==
  ASSUME MemoryAssumption, IInv, PageInv, NEW t \in Types, Suballocate(t)
  PROVE  PageInv'
<1>0. PICK m \in chunks[t] :
         \E s \in BestSlices(free[m], call.size) :
            used' = [used EXCEPT ![m] = @ \cup {DxvkMemory(Allocated(s, call.size, call.align))}]
  BY DEF Suballocate
<1>1. PICK s \in BestSlices(free[m], call.size) :
            used' = [used EXCEPT ![m] = @ \cup {DxvkMemory(Allocated(s, call.size, call.align))}]
  BY <1>0
<1>2. m \in Memories /\ IsChunk(m) /\ s \in free[m]
  BY <1>1 DEF IInv, Shapes, IsChunk, BestSlices
<1>3. s.offset \in Nat /\ s.length \in Nat
  BY <1>2 DEF IInv, Sound, Partition, WithinChunk
<1>4. call \in Calls /\ CallPaged(call) /\ ~call.dedicated
  BY DEF Suballocate, Trying, IInv, Shapes, NoCall, PageInv, FromChunks, Needs
<1>5. PICK u : u = DxvkMemory(Allocated(s, call.size, call.align))
  OBVIOUS
<1>6. u.optimal => Multiple(u.offset) /\ Multiple(End(u))
  BY <1>3, <1>4, <1>5, TakenOnPages
<1>7. used'[m] = used[m] \cup {u} /\ \A x \in Memories \ {m} : used'[x] = used[x]
  BY <1>1, <1>2, <1>5 DEF IInv, Shapes
<1>8. UNCHANGED chunks /\ call' = NoCall
  BY DEF Suballocate
<1>9. ASSUME NEW x \in Memories PROVE OnPages(x)'
  <2>1. (IsChunk(x)' <=> IsChunk(x)) /\ OnPages(x)
    BY <1>8 DEF IsChunk, PageInv
  <2>2. CASE x = m
    BY <1>2, <1>6, <1>7, <2>1, <2>2 DEF OnPages, Multiple
  <2>3. CASE x # m
    BY <1>7, <2>1, <2>3 DEF OnPages, Multiple
  <2> QED
    BY <2>2, <2>3
<1> QED
  BY <1>8, <1>9 DEF PageInv

\* When chunks make room for new memory, only the new memory needs a look.
LEMMA PagesReplaced ==
  ASSUME PageInv, NEW E, NEW S \in SUBSET Memories, Exchanged(E, S),
         \A m \in S : OnPages(m)', call' # NoCall => CallPaged(call')
  PROVE  PageInv'
<1>1. ASSUME NEW x \in Memories \ S PROVE OnPages(x)'
  <2>1. IsChunk(x)' => IsChunk(x)
    BY DEF IsChunk, Exchanged
  <2>2. used'[x] = used[x] /\ OnPages(x)
    BY DEF Exchanged, PageInv
  <2> QED
    BY <2>1, <2>2 DEF OnPages, Multiple
<1>2. (call # NoCall => CallPaged(call))'
  BY DEF CallPaged, Multiple
<1> QED
  BY <1>1, <1>2 DEF PageInv

LEMMA NewChunkPages ==
  ASSUME MemoryAssumption, IInv, PageInv, NEW t \in Types, NEW m \in Memories,
         NEW size \in TriedSizes(t), NewChunk(t, m, size)
  PROVE  PageInv'
<1>1. Exchanged(Evicted(TypeHeap[t], NewSize(t)), {m})
  BY NewChunkStep
<1>2. call \in Calls /\ CallPaged(call) /\ ~call.dedicated /\ size \in Nat
  <2>1. HeapSize[TypeHeap[t]] \in Nat
    BY DEF MemoryAssumption
  <2> QED
    BY <2>1 DEF NewChunk, Trying, IInv, Shapes, NoCall, PageInv, Alone, Needs, TriedSizes
<1>3. used[m] = {}
  BY DEF NewChunk, Available, IInv, Sound
<1>4. PICK s, u : s = Slice(0, size) /\ u = DxvkMemory(Allocated(s, call.size, call.align))
  OBVIOUS
<1>5. used'[m] \subseteq {u} /\ (call' = NoCall \/ call' = [call EXCEPT !.next = t + 1])
  BY <1>3, <1>4 DEF NewChunk, IInv, Shapes
<1>6. s.offset \in Nat /\ s.length \in Nat
  BY <1>2, <1>4 DEF Slice
<1>7. u.optimal => Multiple(u.offset) /\ Multiple(End(u))
  BY <1>2, <1>4, <1>6, TakenOnPages
<1>8. \A x \in {m} : OnPages(x)'
  BY <1>5, <1>7 DEF OnPages, Multiple
<1>9. call' # NoCall => CallPaged(call')
  BY <1>2, <1>5 DEF CallPaged, Calls
<1> QED
  BY <1>1, <1>8, <1>9, PagesReplaced

LEMMA DedicatedPages ==
  ASSUME MemoryAssumption, IInv, PageInv, NEW t \in Types, NEW m \in Memories, Dedicated(t, m)
  PROVE  PageInv'
<1>1. Exchanged(Evicted(TypeHeap[t], NewSize(t)), {m})
  BY DedicatedStep
<1>2. ~IsChunk(m) /\ call' = NoCall
  BY DEF Dedicated, Available, IInv, Sound
<1>3. ~IsChunk(m)'
  BY <1>2 DEF Dedicated, IsChunk, Listed
<1>4. \A x \in {m} : OnPages(x)'
  BY <1>3 DEF OnPages
<1> QED
  BY <1>1, <1>2, <1>4, PagesReplaced

LEMMA RefusedPages ==
  ASSUME MemoryAssumption, IInv, PageInv, NEW t \in Types, Refused(t)
  PROVE  PageInv'
<1>1. Exchanged(Evicted(TypeHeap[t], NewSize(t)), {})
  BY RefusedStep
<1>2. call \in Calls /\ CallPaged(call) /\ call' = [call EXCEPT !.next = t + 1]
  BY DEF Refused, Trying, IInv, Shapes, NoCall, PageInv
<1>3. CallPaged(call')
  BY <1>2 DEF CallPaged, Calls
<1> QED
  BY <1>1, <1>3, PagesReplaced

LEMMA FreePages ==
  ASSUME IInv, PageInv, NEW m \in Memories, NEW u \in used[m],
         FreeSlice(m, u) \/ FreeChunk(m, u) \/ FreeDedicated(m, u)
  PROVE  PageInv'
<1>1. Release(m, u)
  BY DEF FreeSlice, FreeChunk, FreeDedicated
<1>2. call = NoCall /\ call' = call
  BY <1>1 DEF Release
<1>3. \A x \in Memories : used'[x] \subseteq used[x]
  BY <1>1, ReleaseShapes
<1>4. \A x \in Memories : IsChunk(x)' => IsChunk(x)
  BY DEF FreeSlice, FreeChunk, FreeDedicated, IsChunk, Listed
<1>5. \A x \in Memories : OnPages(x)'
  BY <1>3, <1>4 DEF PageInv, OnPages, Multiple
<1> QED
  BY <1>2, <1>5 DEF PageInv

\* Whatever is asked for, images that share a chunk keep to the granularity.
THEOREM PageInvariance == Spec => []PageInv
<1>1. ASSUME Init PROVE PageInv
  BY <1>1 DEF Init, PageInv, OnPages, IsChunk
<1>2. ASSUME IInv, PageInv, [Next]_vars PROVE PageInv'
  <2>1. CASE \E r \in Requests : Alloc(r)
    <3>1. CallPaged(call') /\ UNCHANGED memVars
      BY <2>1, MemoryAssumption, AllocPages DEF Alloc
    <3> QED
      BY <1>2, <3>1, CallPages
  <2>2. CASE NextStage
    <3>1. CallPaged(call') /\ UNCHANGED memVars
      BY <1>2, <2>2, MemoryAssumption, NextStagePages DEF NextStage
    <3> QED
      BY <1>2, <3>1, CallPages
  <2>3. CASE Throw \/ UNCHANGED vars
    <3>1. UNCHANGED memVars /\ (call' # NoCall => CallPaged(call'))
      BY <1>2, <2>3 DEF Throw, vars, PageInv
    <3> QED
      BY <1>2, <3>1, CallPages
  <2>4. CASE \E t \in Types : Suballocate(t)
    BY <1>2, <2>4, MemoryAssumption, SuballocatePages
  <2>5. CASE \E t \in Types : Refused(t)
    BY <1>2, <2>5, MemoryAssumption, RefusedPages
  <2>6. CASE \E t \in Types, m \in Memories : Dedicated(t, m)
    BY <1>2, <2>6, MemoryAssumption, DedicatedPages
  <2>7. CASE \E t \in Types : \E m \in Memories, size \in TriedSizes(t) : NewChunk(t, m, size)
    BY <1>2, <2>7, MemoryAssumption, NewChunkPages
  <2>8. CASE \E m \in Memories : \E u \in used[m] :
               FreeSlice(m, u) \/ FreeChunk(m, u) \/ FreeDedicated(m, u)
    BY <1>2, <2>8, FreePages
  <2> QED
    BY <1>2, <2>1, <2>2, <2>3, <2>4, <2>5, <2>6, <2>7, <2>8 DEF Next
<1> QED
  BY <1>1, <1>2, Invariance, PTL DEF Spec

\* Buffers and optimally tiled images never share a page of device memory.
THEOREM GranularityStaysRespected == Spec => []GranularityRespected
<1>1. ASSUME IInv, PageInv PROVE GranularityRespected
  <2> SUFFICES ASSUME NEW m \in Memories, NEW u \in used[m], NEW v \in used[m], u.optimal, ~v.optimal
               PROVE  \/ (End(u) - 1) \div Granularity < v.offset \div Granularity
                      \/ (End(v) - 1) \div Granularity < u.offset \div Granularity
    BY DEF GranularityRespected
  <2>1. IsChunk(m) /\ u # v
    BY <1>1 DEF IInv, Sound
  <2>2. Multiple(u.offset) /\ Multiple(End(u))
    BY <1>1, <2>1 DEF PageInv, OnPages
  <2>3. /\ u.offset \in Nat /\ u.length \in Nat \ {0} /\ v.offset \in Nat /\ v.length \in Nat \ {0}
        /\ Apart(u, v)
    BY <1>1, <2>1 DEF IInv, Sound, Partition, WithinChunk, Disjoint
  <2>4. End(u) \in Nat \ {0} /\ End(v) \in Nat \ {0} /\ Granularity \in Nat \ {0}
    BY <2>3, MemoryAssumption DEF End, MemoryAssumption
  <2>5. PICK j \in Nat, k \in Nat : u.offset = j * Granularity /\ End(u) = k * Granularity
    BY <2>2 DEF Multiple
  <2>6. CASE End(u) <= v.offset
    <3>1. End(u) <= k * Granularity /\ k * Granularity <= v.offset
      BY <2>4, <2>5, <2>6
    <3>2. (End(u) - 1) \div Granularity < v.offset \div Granularity
      BY <2>3, <2>4, <3>1, PagesApart, Zenon
    <3> QED
      BY <3>2
  <2>7. CASE End(v) <= u.offset
    <3>1. End(v) <= j * Granularity /\ j * Granularity <= u.offset
      BY <2>3, <2>5, <2>7
    <3>2. (End(v) - 1) \div Granularity < u.offset \div Granularity
      BY <2>3, <2>4, <3>1, PagesApart, Zenon
    <3> QED
      BY <3>2
  <2> QED
    BY <2>3, <2>6, <2>7 DEF Apart
<1> QED
  BY <1>1, Invariance, PageInvariance, PTL

-----------------------------------------------------------------------------
(* Empty chunks                                                            *)

\* The chunks like x of which nothing is in use; and no type has too many of them.
EmptyOf(x) ==
  {c \in chunks[memory[x].type] \ {x} :
     used[c] = {} /\ memory[c].flags = memory[x].flags /\ memory[c].hints = memory[x].hints}

FewEmpty ==
  \A t \in Types : \A x \in chunks[t] : used[x] = {} => Cardinality(EmptyOf(x)) < MaxEmpty(t)

\* Whatever alloc() still asks of a chunk, a new chunk that is large enough for it holds.
CallHeld(c) ==
  LET unit == IF c.optimal THEN Granularity ELSE 1
  IN IF c.dedicated THEN ChunkHolds(Align(c.size, unit), Align(c.align, unit))
                    ELSE ChunkHolds(c.size, c.align)

CallOK(c) ==
  CallHeld(c) /\ (c.required => c.dedicated) /\ (c.stage = "dedicated" => c.dedicated)

CallInv == call # NoCall => CallOK(call)

EmptyInv == CallInv /\ FewEmpty

EmptyChunk(x) == IsChunk(x) /\ used[x] = {}

\* isEmpty() says of a chunk whether anything of it is in use.
LEMMA UnusedChunk ==
  ASSUME IInv, NEW m \in Memories, IsChunk(m)
  PROVE  Unused(m) <=> used[m] = {}
<1>1. memory[m].size \in Nat \ {0} /\ Partition(free[m], used[m], memory[m].size)
  BY DEF IInv, Sound, Shapes
<1> QED
  BY <1>1, EmptyMeansUnused DEF Unused

LEMMA EmptyLikeUnused ==
  ASSUME IInv, NEW x \in Memories
  PROVE  EmptyLike(x) = EmptyOf(x)
<1>1. memory[x].type \in Types
  BY DEF IInv, Shapes
<1>2. \A c \in chunks[memory[x].type] : c \in Memories /\ IsChunk(c)
  BY <1>1 DEF IInv, Shapes, IsChunk
<1>3. \A c \in chunks[memory[x].type] : Unused(c) <=> used[c] = {}
  BY <1>2, UnusedChunk
<1> QED
  BY <1>3 DEF EmptyLike, EmptyOf

LEMMA EmptyOfFinite ==
  ASSUME MemoryAssumption, IInv, NEW x \in Memories
  PROVE  EmptyOf(x) \in SUBSET Memories /\ IsFiniteSet(EmptyOf(x)) /\ Cardinality(EmptyOf(x)) \in Nat
<1>1. EmptyOf(x) \in SUBSET Memories
  BY DEF EmptyOf, IInv, Shapes
<1>2. IsFiniteSet(EmptyOf(x))
  BY <1>1, FS_Subset DEF MemoryAssumption
<1> QED
  BY <1>1, <1>2, FS_CardinalityType

\* A step by which no chunk becomes empty.
LEMMA FewEmptyKept ==
  ASSUME MemoryAssumption, IInv, IInv', ListInv, ListInv', FewEmpty,
         \A x \in Memories : EmptyChunk(x)' => EmptyChunk(x) /\ memory'[x] = memory[x]
  PROVE  FewEmpty'
<1> SUFFICES ASSUME NEW t \in Types, NEW x \in chunks'[t], used'[x] = {}
             PROVE  Cardinality(EmptyOf(x)') < MaxEmpty(t)
  BY DEF FewEmpty, MaxEmpty
<1>1. \A y \in chunks'[t] : y \in Memories /\ IsChunk(y)' /\ memory'[y].type = t
  BY DEF IInv, Shapes, IsChunk, ListInv
<1>2. \A y \in chunks'[t] : used'[y] = {} =>
        y \in chunks[t] /\ used[y] = {} /\ memory'[y] = memory[y]
  <2> SUFFICES ASSUME NEW y \in chunks'[t], used'[y] = {}
               PROVE  y \in chunks[t] /\ used[y] = {} /\ memory'[y] = memory[y]
    OBVIOUS
  <2>1. EmptyChunk(y) /\ memory'[y] = memory[y]
    BY <1>1 DEF EmptyChunk
  <2>2. PICK v \in Types : y \in chunks[v]
    BY <2>1 DEF EmptyChunk, IsChunk
  <2>3. v = t
    BY <1>1, <2>1, <2>2 DEF ListInv
  <2> QED
    BY <2>1, <2>2, <2>3 DEF EmptyChunk
<1>3. x \in Memories /\ memory'[x].type = t /\ memory[x].type = t
  BY <1>1, <1>2
<1>4. EmptyOf(x)' \subseteq EmptyOf(x)
  BY <1>2, <1>3 DEF EmptyOf
<1>5. IsFiniteSet(EmptyOf(x)) /\ Cardinality(EmptyOf(x)) \in Nat
  BY <1>3, EmptyOfFinite
<1>6. Cardinality(EmptyOf(x)') \in Nat /\ Cardinality(EmptyOf(x)') <= Cardinality(EmptyOf(x))
  <2>1. PICK S : S = EmptyOf(x)'
    OBVIOUS
  <2>2. S \in SUBSET EmptyOf(x)
    BY <1>4, <2>1
  <2>3. IsFiniteSet(S) /\ Cardinality(S) <= Cardinality(EmptyOf(x))
    BY <1>5, <2>2, FS_Subset
  <2>4. Cardinality(S) \in Nat
    BY <2>3, FS_CardinalityType
  <2> QED
    BY <2>1, <2>3, <2>4
<1>7. MaxEmpty(t) \in Nat /\ Cardinality(EmptyOf(x)) < MaxEmpty(t)
  BY <1>2 DEF FewEmpty, MaxEmpty, MemoryAssumption
<1> QED
  BY <1>5, <1>6, <1>7

\* A chunk that becomes empty is kept if there are few like it: with it there is one more,
\* for itself and for each of the others.
LEMMA FewEmptyMore ==
  ASSUME MemoryAssumption, IInv, IInv', ListInv, FewEmpty, NEW m \in Memories,
         IsChunk(m), used[m] # {}, UNCHANGED <<memory, chunks>>, used'[m] = {},
         \A x \in Memories \ {m} : used'[x] = used[x],
         Cardinality(EmptyLike(m)) < MaxEmpty(memory[m].type)
  PROVE  FewEmpty'
<1>1. /\ \A y \in Memories : IsChunk(y) => y \in chunks[memory[y].type]
      /\ \A v \in Types : \A y \in chunks[v] : y \in Memories /\ memory[y].type = v
  BY DEF IInv, Shapes, IsChunk, ListInv
<1>2. Cardinality(EmptyOf(m)) < MaxEmpty(memory[m].type) /\ memory[m].type \in Types
  BY EmptyLikeUnused DEF IInv, Shapes
<1> SUFFICES ASSUME NEW t \in Types, NEW x \in chunks[t], used'[x] = {}
             PROVE  Cardinality(EmptyOf(x)') < MaxEmpty(t)
  BY DEF FewEmpty, MaxEmpty
<1>3. x \in Memories /\ memory[x].type = t
  BY <1>1
<1>4. CASE x = m
  <2>1. EmptyOf(x)' = EmptyOf(x)
    BY <1>1, <1>3, <1>4 DEF EmptyOf
  <2> QED
    BY <1>2, <1>3, <1>4, <2>1
<1>5. CASE x # m /\ m \in EmptyOf(x)'
  <2>1. /\ memory[m].type = t /\ memory[m].flags = memory[x].flags
        /\ memory[m].hints = memory[x].hints /\ m \in chunks[t]
    BY <1>1, <1>3, <1>5 DEF EmptyOf
  <2>2. x \in EmptyOf(m)
    BY <1>3, <1>5, <2>1 DEF EmptyOf
  <2>3. EmptyOf(x)' = (EmptyOf(m) \ {x}) \cup {m}
    BY <1>1, <1>3, <1>5, <2>1 DEF EmptyOf
  <2>4. m \notin EmptyOf(m) \ {x}
    BY DEF EmptyOf
  <2>5. IsFiniteSet(EmptyOf(m)) /\ Cardinality(EmptyOf(m)) \in Nat
    BY EmptyOfFinite
  <2> DEFINE S == EmptyOf(m)
             R == EmptyOf(m) \ {x}
  <2>6. IsFiniteSet(R) /\ Cardinality(R) = Cardinality(S) - 1
    BY <2>2, <2>5, FS_RemoveElement
  <2> HIDE DEF S, R
  <2>7. Cardinality(R \cup {m}) = Cardinality(R) + 1
    BY <2>4, <2>6, FS_AddElement DEF R
  <2>8. Cardinality(S) \in Nat /\ Cardinality(S) < MaxEmpty(t)
    BY <1>2, <2>1, <2>5 DEF S
  <2>9. EmptyOf(x)' = R \cup {m}
    BY <2>3 DEF R
  <2> QED
    BY <2>6, <2>7, <2>8, <2>9
<1>6. CASE x # m /\ m \notin EmptyOf(x)'
  <2>1. EmptyOf(x)' = EmptyOf(x)
    <3>1. \A c \in chunks[t] : c # m => used'[c] = used[c]
      BY <1>1
    <3> QED
      BY <1>3, <1>6, <3>1 DEF EmptyOf
  <2>2. used[x] = {}
    BY <1>3, <1>6
  <2> QED
    BY <2>1, <2>2 DEF FewEmpty
<1> QED
  BY <1>4, <1>5, <1>6

\* alloc() rounds a request to the granularity once, when it stops asking for memory of its own.
LEMMA CallsHeld ==
  ASSUME NEW c \in Calls, CallOK(c)
  PROVE  /\ c.dedicated /\ ~c.required => CallOK(Shared(c))
         /\ CallOK(Relaxed(c)) /\ CallOK(Slower(c))
         /\ CallOK([c EXCEPT !.stage = "failed"])
         /\ \A n : CallOK([c EXCEPT !.next = n])
<1>1. c.dedicated /\ ~c.required => CallOK(Shared(c))
  <2>1. /\ Shared(c).dedicated = FALSE /\ Shared(c).required = c.required
        /\ Shared(c).stage = "shared"
        /\ Shared(c).size = Align(c.size, IF c.optimal THEN Granularity ELSE 1)
        /\ Shared(c).align = Align(c.align, IF c.optimal THEN Granularity ELSE 1)
    BY DEF Shared, Calls
  <2> QED
    BY <2>1 DEF CallHeld, CallOK
<1> DEFINE Like(d) == /\ d.dedicated = c.dedicated /\ d.optimal = c.optimal
                      /\ d.required = c.required
                      /\ d.size = c.size /\ d.align = c.align /\ d.stage # "dedicated"
<1>2. Like(Relaxed(c)) /\ Like(Slower(c)) /\ Like([c EXCEPT !.stage = "failed"])
  <2>1. Like(Relaxed(c))
    BY DEF Relaxed, Calls
  <2>2. Like([c EXCEPT !.stage = "failed"])
    BY DEF Calls
  <2>3. Like(Slower(c))
    <3>1. CASE c.flags \cap Optional = {}
      BY <3>1 DEF Slower, Calls
    <3>2. CASE c.flags \cap Optional # {}
      BY <3>2 DEF Slower, Calls
    <3> QED
      BY <3>1, <3>2
  <2> QED
    BY <2>1, <2>2, <2>3
<1>3. \A n : LET d == [c EXCEPT !.next = n]
             IN /\ d.dedicated = c.dedicated /\ d.optimal = c.optimal /\ d.required = c.required
                /\ d.size = c.size /\ d.align = c.align /\ d.stage = c.stage
  BY DEF Calls
<1>4. \A d \in {Relaxed(c), Slower(c), [c EXCEPT !.stage = "failed"]} : CallOK(d)
  BY <1>2 DEF CallHeld, CallOK
<1>5. \A n : CallOK([c EXCEPT !.next = n])
  BY <1>3 DEF CallHeld, CallOK
<1> QED
  BY <1>1, <1>4, <1>5

LEMMA AllocHeld ==
  ASSUME MemoryAssumption, ChunkAssumption, NEW r \in Requests, Alloc(r)
  PROVE  CallOK(call')
<1> DEFINE c == [stage |-> "dedicated", next |-> 1, size |-> r.size, align |-> r.align,
                 types |-> r.types, flags |-> r.flags, hints |-> Hints(r),
                 dedicated |-> r.dedicated, required |-> r.required,
                 optimal |-> r.optimal]
           unit == IF r.optimal THEN Granularity ELSE 1
<1>1. r.required => r.dedicated
  BY DEF MemoryAssumption
<1>2. call' = IF r.dedicated THEN c ELSE IF r.required THEN Slower(c) ELSE Shared(c)
  BY DEF Alloc
<1>3. ChunkHolds(Align(r.size, unit), Align(r.align, unit))
  BY DEF ChunkAssumption
<1>4. CASE r.dedicated
  BY <1>2, <1>3, <1>4 DEF CallHeld, CallOK
<1>5. CASE ~r.dedicated
  <2>1. call' = Shared(c)
    BY <1>1, <1>2, <1>5
  <2>2. /\ call'.size = Align(r.size, unit) /\ call'.align = Align(r.align, unit)
        /\ call'.dedicated = FALSE /\ call'.required = r.required /\ call'.stage = "shared"
    BY <2>1 DEF Shared
  <2> QED
    BY <1>1, <1>3, <1>5, <2>2 DEF CallHeld, CallOK
<1> QED
  BY <1>4, <1>5

LEMMA NextStageHeld ==
  ASSUME IInv, CallInv, NextStage
  PROVE  CallOK(call')
<1>1. call \in Calls /\ CallOK(call)
  BY DEF NextStage, IInv, Shapes, NoCall, CallInv
<1>2. call.stage \in {"dedicated", "shared", "relaxed", "slower"}
  BY <1>1 DEF NextStage, Calls
<1>3. \/ call' = Shared(call) /\ call.dedicated /\ ~call.required
      \/ call' \in {Relaxed(call), Slower(call), [call EXCEPT !.stage = "failed"]}
  BY <1>1, <1>2 DEF NextStage, CallOK
<1> QED
  BY <1>1, <1>3, CallsHeld

\* A new chunk is large enough for what it was allocated for, and in use at once.
LEMMA NewChunkTaken ==
  ASSUME MemoryAssumption, IInv, CallInv, NEW t \in Types, NEW m \in Memories,
         NEW size \in TriedSizes(t), NewChunk(t, m, size)
  PROVE  used'[m] # {} /\ call' = NoCall
<1>1. call \in Calls /\ CallOK(call) /\ ~call.dedicated
  BY DEF NewChunk, Trying, IInv, Shapes, NoCall, CallInv, Alone, Needs
<1>2. ChunkHolds(call.size, call.align) /\ call.hints \in SUBSET (Category \cup {"ignore"})
  BY <1>1 DEF CallOK, CallHeld, Calls
<1>3. NewSize(t) = ChunkSize(t, call.hints)
  BY DEF NewChunk, NewSize
<1>4. PICK i \in 0 .. MaxTries - 1 : size = ChunkSize(t, call.hints) \div 2^i
  BY <1>3 DEF TriedSizes
<1>5. Fits(Slice(0, size), call.size, call.align)
  BY <1>2, <1>4 DEF ChunkHolds, NewChunk
<1>6. PICK u : /\ used' = [used EXCEPT ![m] = {u}]
               /\ call' = NoCall
  BY <1>5 DEF NewChunk
<1> QED
  BY <1>6 DEF IInv, Shapes

\* Chunks made room for new memory, which is in use or no chunk.
LEMMA FewEmptyReplaced ==
  ASSUME MemoryAssumption, IInv, IInv', ListInv, ListInv', FewEmpty, NEW E,
         NEW S \in SUBSET Memories, Exchanged(E, S), \A x \in S : ~EmptyChunk(x)'
  PROVE  FewEmpty'
<1>1. ASSUME NEW x \in Memories, EmptyChunk(x)'
      PROVE  EmptyChunk(x) /\ memory'[x] = memory[x]
  <2>1. x \notin S
    BY <1>1
  <2>2. IsChunk(x) /\ x \notin E
    BY <1>1, <2>1 DEF EmptyChunk, IsChunk, Exchanged
  <2>3. used'[x] = used[x] /\ memory'[x] = memory[x]
    BY <2>1, <2>2 DEF Exchanged
  <2> QED
    BY <1>1, <2>2, <2>3 DEF EmptyChunk
<1> QED
  BY <1>1, FewEmptyKept

\* free() keeps a chunk that becomes empty only if few like it are kept.
LEMMA FreeSliceFew ==
  ASSUME MemoryAssumption, IInv, IInv', ListInv, ListInv', FewEmpty, NEW m \in Memories,
         NEW u \in used[m], FreeSlice(m, u)
  PROVE  FewEmpty'
<1>1. /\ Release(m, u) /\ IsChunk(m) /\ UNCHANGED <<memory, chunks>>
      /\ LeavesEmpty(m, u) => ~ShouldFree(m)
  BY DEF FreeSlice
<1>2. used'[m] = used[m] \ {u} /\ \A x \in Memories \ {m} : used'[x] = used[x]
  BY <1>1, ReleaseShapes
<1>3. CASE used'[m] = {}
  <2>1. /\ memory[m].size \in Nat \ {0}
        /\ Partition(free[m], used[m], memory[m].size)
    BY <1>1 DEF IInv, Sound, Shapes
  <2>2. Partition(FreeInto(free[m], u), used[m] \ {u}, memory[m].size)
    BY <2>1, FreePartition
  <2>3. LeavesEmpty(m, u)
    BY <1>2, <1>3, <2>1, <2>2, EmptyMeansUnused DEF LeavesEmpty
  <2>4. ~(Cardinality(EmptyLike(m)) >= MaxEmpty(memory[m].type))
    BY <1>1, <2>3 DEF ShouldFree
  <2>5. Cardinality(EmptyOf(m)) \in Nat /\ EmptyLike(m) = EmptyOf(m)
    BY EmptyOfFinite, EmptyLikeUnused
  <2>6. MaxEmpty(memory[m].type) \in Nat
    BY DEF MaxEmpty, MemoryAssumption
  <2>7. Cardinality(EmptyLike(m)) < MaxEmpty(memory[m].type)
    BY <2>4, <2>5, <2>6
  <2> QED
    BY <1>1, <1>2, <1>3, <2>7, FewEmptyMore
<1>4. CASE used'[m] # {}
  <2>1. \A x \in Memories : EmptyChunk(x)' => EmptyChunk(x) /\ memory'[x] = memory[x]
    BY <1>1, <1>2, <1>4 DEF EmptyChunk, IsChunk
  <2> QED
    BY <2>1, FewEmptyKept
<1> QED
  BY <1>3, <1>4

LEMMA GoneFew ==
  ASSUME MemoryAssumption, IInv, IInv', ListInv, ListInv', FewEmpty, NEW m \in Memories,
         NEW u \in used[m], FreeChunk(m, u) \/ FreeDedicated(m, u)
  PROVE  FewEmpty'
<1>1. Release(m, u) /\ memory' = [memory EXCEPT ![m] = NoMemory]
  BY DEF FreeChunk, FreeDedicated
<1>2. ~IsChunk(m)'
  BY DEF FreeChunk, FreeDedicated, IsChunk, Listed
<1>3. \A x \in Memories : IsChunk(x)' => IsChunk(x)
  BY DEF FreeChunk, FreeDedicated, IsChunk, Listed
<1>4. \A x \in Memories \ {m} : used'[x] = used[x] /\ memory'[x] = memory[x]
  BY <1>1, ReleaseShapes DEF IInv, Shapes
<1>5. \A x \in Memories : EmptyChunk(x)' => EmptyChunk(x) /\ memory'[x] = memory[x]
  BY <1>2, <1>3, <1>4 DEF EmptyChunk
<1> QED
  BY <1>5, FewEmptyKept

\* alloc() leaves no chunk empty that was not empty before, and free() keeps few.
THEOREM EmptyInvariance == Spec => []EmptyInv
<1>1. ASSUME Init PROVE EmptyInv
  BY <1>1 DEF Init, EmptyInv, CallInv, FewEmpty
<1>2. ASSUME IInv, IInv', ListInv, ListInv', EmptyInv, [Next]_vars PROVE EmptyInv'
  <2>0. CallInv /\ FewEmpty
    BY <1>2 DEF EmptyInv
  <2>1. ASSUME UNCHANGED memVars PROVE FewEmpty'
    <3>1. \A x \in Memories : EmptyChunk(x)' => EmptyChunk(x) /\ memory'[x] = memory[x]
      BY <2>1 DEF EmptyChunk, IsChunk, memVars
    <3> QED
      BY <1>2, <2>0, <3>1, MemoryAssumption, FewEmptyKept
  <2>2. ASSUME call' # NoCall => CallOK(call') PROVE CallInv'
    BY <2>2 DEF CallInv, CallOK, CallHeld, ChunkHolds, ChunkSize
  <2>3. CASE \E r \in Requests : Alloc(r)
    <3>1. CallOK(call') /\ UNCHANGED memVars
      BY <2>3, MemoryAssumption, ChunkAssumption, AllocHeld DEF Alloc
    <3> QED
      BY <2>1, <2>2, <3>1 DEF EmptyInv
  <2>4. CASE NextStage
    <3>1. CallOK(call') /\ UNCHANGED memVars
      BY <1>2, <2>0, <2>4, NextStageHeld DEF NextStage
    <3> QED
      BY <2>1, <2>2, <3>1 DEF EmptyInv
  <2>5. CASE Throw \/ UNCHANGED vars
    <3>1. UNCHANGED memVars /\ (call' # NoCall => CallOK(call'))
      BY <2>0, <2>5 DEF Throw, vars, CallInv
    <3> QED
      BY <2>1, <2>2, <3>1 DEF EmptyInv
  <2>6. CASE \E t \in Types : Suballocate(t)
    <3>1. call' = NoCall /\ UNCHANGED <<memory, chunks>> /\ \A x \in Memories : used[x] \subseteq used'[x]
      BY <1>2, <2>6 DEF Suballocate, IInv, Shapes
    <3>2. \A x \in Memories : EmptyChunk(x)' => EmptyChunk(x) /\ memory'[x] = memory[x]
      BY <3>1 DEF EmptyChunk, IsChunk
    <3>3. FewEmpty'
      BY <1>2, <2>0, <3>2, MemoryAssumption, FewEmptyKept
    <3> QED
      BY <2>2, <3>1, <3>3 DEF EmptyInv
  <2>7. ASSUME NEW t \in Types, Refused(t) PROVE EmptyInv'
    <3>1. Exchanged(Evicted(TypeHeap[t], NewSize(t)), {})
      BY <1>2, <2>7, MemoryAssumption, RefusedStep
    <3>2. FewEmpty'
      BY <1>2, <2>0, <3>1, MemoryAssumption, FewEmptyReplaced
    <3>3. call \in Calls /\ CallOK(call) /\ call' = [call EXCEPT !.next = t + 1]
      BY <1>2, <2>0, <2>7 DEF Refused, Trying, IInv, Shapes, NoCall, CallInv
    <3>4. CallOK(call')
      BY <3>3, CallsHeld
    <3> QED
      BY <2>2, <3>2, <3>4 DEF EmptyInv
  <2>8. ASSUME NEW t \in Types, NEW m \in Memories, Dedicated(t, m) PROVE EmptyInv'
    <3>1. Exchanged(Evicted(TypeHeap[t], NewSize(t)), {m})
      BY <1>2, <2>8, MemoryAssumption, DedicatedStep
    <3>2. ~IsChunk(m)' /\ call' = NoCall
      BY <1>2, <2>8 DEF Dedicated, Available, IInv, Sound, IsChunk, Listed
    <3>3. FewEmpty'
      BY <1>2, <2>0, <3>1, <3>2, MemoryAssumption, FewEmptyReplaced DEF EmptyChunk
    <3> QED
      BY <2>2, <3>2, <3>3 DEF EmptyInv
  <2>9. ASSUME NEW t \in Types, NEW m \in Memories, NEW size \in TriedSizes(t), NewChunk(t, m, size)
        PROVE  EmptyInv'
    <3>1. Exchanged(Evicted(TypeHeap[t], NewSize(t)), {m})
      BY <1>2, <2>9, MemoryAssumption, NewChunkStep
    <3>2. used'[m] # {} /\ call' = NoCall
      BY <1>2, <2>0, <2>9, MemoryAssumption, NewChunkTaken
    <3>3. FewEmpty'
      BY <1>2, <2>0, <3>1, <3>2, MemoryAssumption, FewEmptyReplaced DEF EmptyChunk
    <3> QED
      BY <2>2, <3>2, <3>3 DEF EmptyInv
  <2>10. ASSUME NEW m \in Memories, NEW u \in used[m],
                FreeSlice(m, u) \/ FreeChunk(m, u) \/ FreeDedicated(m, u)
         PROVE  EmptyInv'
    <3>1. FewEmpty'
      BY <1>2, <2>0, <2>10, MemoryAssumption, FreeSliceFew, GoneFew
    <3>2. call' = NoCall
      BY <2>10 DEF FreeSlice, FreeChunk, FreeDedicated, Release
    <3> QED
      BY <2>2, <3>1, <3>2 DEF EmptyInv
  <2> QED
    BY <1>2, <2>3, <2>4, <2>5, <2>6, <2>7, <2>8, <2>9, <2>10 DEF Next
<1>3. BackedInv => ListInv
  BY DEF BackedInv
<1> QED
  BY <1>1, <1>2, <1>3, Invariance, BackedInvariance, PTL DEF Spec

\* No more empty chunks of a kind are kept than their memory type allows: a new chunk is large
\* enough for what it was allocated for, and a chunk that is freed to the last byte is kept only
\* while there are few like it.
THEOREM EmptyChunksStayBounded == Spec => []EmptyChunksBounded
<1>1. ASSUME IInv, ListInv, EmptyInv PROVE EmptyChunksBounded
  <2> SUFFICES ASSUME NEW t \in Types, NEW m \in chunks[t], Unused(m)
               PROVE  Cardinality(EmptyLike(m)) < MaxEmpty(t)
    BY DEF EmptyChunksBounded
  <2>1. m \in Memories /\ IsChunk(m)
    BY <1>1 DEF IInv, Shapes, IsChunk
  <2>2. used[m] = {} /\ EmptyLike(m) = EmptyOf(m)
    BY <1>1, <2>1, UnusedChunk, EmptyLikeUnused
  <2> QED
    BY <1>1, <2>2 DEF EmptyInv, FewEmpty
<1>2. BackedInv => ListInv
  BY DEF BackedInv
<1> QED
  BY <1>1, <1>2, Invariance, BackedInvariance, EmptyInvariance, PTL

-----------------------------------------------------------------------------
(* Finite sums                                                             *)

\* A set of numbers has a least one.
LEMMA Least ==
  ASSUME NEW B \in SUBSET Nat, B # {}
  PROVE  \E n \in B : \A k \in B : n <= k
<1>1. PICK n \in B : \A k \in B : <<k, n>> \notin OpToRel(<, Nat)
  BY NatLessThanWellFounded, WFMin
<1>2. \A k \in B : ~(k < n)
  BY <1>1 DEF OpToRel
<1> QED
  BY <1>2

\* What holds of a set if it holds of all smaller ones, holds of all.
LEMMA SmallerFirst ==
  ASSUME NEW S, IsFiniteSet(S), NEW T,
         \A A \in SUBSET S : (\A B \in SUBSET A : B # A => B \in T) => A \in T
  PROVE  \A A \in SUBSET S : A \in T
<1> SUFFICES ASSUME NEW C \in SUBSET S, C \notin T
             PROVE  FALSE
  OBVIOUS
<1> DEFINE Bad == {n \in Nat : \E A \in SUBSET S : A \notin T /\ Cardinality(A) = n}
<1>0. \A A \in SUBSET S : IsFiniteSet(A) /\ Cardinality(A) \in Nat
  BY FS_Subset, FS_CardinalityType
<1>1. Cardinality(C) \in Bad
  BY <1>0
<1>2. PICK n \in Bad : \A k \in Bad : n <= k
  <2>1. Bad \subseteq Nat
    OBVIOUS
  <2> HIDE DEF Bad
  <2> QED
    BY <1>1, <2>1, Least
<1>3. PICK A \in SUBSET S : A \notin T /\ Cardinality(A) = n
  OBVIOUS
<1>4. PICK B \in SUBSET A : B # A /\ B \notin T
  BY <1>3
<1>5. Cardinality(B) < Cardinality(A) /\ Cardinality(B) \in Nat /\ n \in Nat
  <2>1. B \in SUBSET S /\ IsFiniteSet(A)
    BY <1>0
  <2>2. Cardinality(B) <= Cardinality(A) /\ Cardinality(B) # Cardinality(A)
    BY <1>4, <2>1, FS_Subset
  <2> QED
    BY <1>0, <2>1, <2>2
<1>6. Cardinality(B) \in Bad
  BY <1>4, <1>5
<1> QED
  BY <1>2, <1>3, <1>5, <1>6

\* What holds of no elements, and of one more if it holds of some, holds of all of S.
LEMMA OneByOne ==
  ASSUME NEW S, IsFiniteSet(S), NEW T,
         {} \in T,
         \A A \in SUBSET S : \A x \in S \ A : A \in T => A \cup {x} \in T
  PROVE  S \in T
<1>1. ASSUME NEW A \in SUBSET S, \A B \in SUBSET A : B # A => B \in T
      PROVE  A \in T
  <2>1. CASE A = {}
    BY <2>1
  <2>2. CASE A # {}
    <3>1. PICK x \in A : TRUE
      BY <2>2
    <3>2. A \ {x} \in SUBSET S /\ x \in S \ (A \ {x}) /\ (A \ {x}) \cup {x} = A /\ A \ {x} \in T
      BY <1>1
    <3> QED
      BY <3>2
  <2> QED
    BY <2>1, <2>2
<1> QED
  BY <1>1, SmallerFirst

\* g is the function that a sum of f over S evaluates.
Sums(f, S, g) ==
  g = [s \in SUBSET S |-> IF s = {} THEN 0
                          ELSE f[CHOOSE x \in s : TRUE] + g[s \ {CHOOSE x \in s : TRUE}]]

\* Where g is the sum over the sets of elements of S, how the library takes a step.
LEMMA SumsStep ==
  ASSUME NEW f, NEW S, NEW g, Sums(f, S, g), NEW A \in SUBSET S
  PROVE  /\ A = {} => g[A] = 0
         /\ A # {} => \E x \in A : x = (CHOOSE y \in A : TRUE) /\ g[A] = f[x] + g[A \ {x}]
<1>1. g[A] = IF A = {} THEN 0 ELSE f[CHOOSE x \in A : TRUE] + g[A \ {CHOOSE x \in A : TRUE}]
  BY Zenon DEF Sums
<1>2. A # {} => (CHOOSE y \in A : TRUE) \in A
  OBVIOUS
<1> QED
  BY <1>1, <1>2

\* Two of them agree where they are both defined.
LEMMA SumsAgree ==
  ASSUME NEW f, NEW S, NEW R, NEW g, NEW h, Sums(f, S, g), Sums(f, R, h),
         IsFiniteSet(S), S \subseteq R
  PROVE  \A A \in SUBSET S : g[A] = h[A]
<1> DEFINE T == {A \in SUBSET S : g[A] = h[A]}
<1>1. ASSUME NEW A \in SUBSET S, \A B \in SUBSET A : B # A => B \in T
      PROVE  A \in T
  <2>1. CASE A = {}
    BY <2>1, SumsStep
  <2>2. CASE A # {}
    <3>1. A \in SUBSET R
      OBVIOUS
    <3>2. PICK x \in A : x = (CHOOSE y \in A : TRUE) /\ g[A] = f[x] + g[A \ {x}]
      BY <2>2, SumsStep
    <3>3. PICK z \in A : z = (CHOOSE y \in A : TRUE) /\ h[A] = f[z] + h[A \ {z}]
      BY <2>2, <3>1, SumsStep
    <3>4. A \ {x} \in T
      BY <1>1
    <3> QED
      BY <3>2, <3>3, <3>4
  <2> QED
    BY <2>1, <2>2
<1> HIDE DEF T
<1>2. \A A \in SUBSET S : A \in T
  BY <1>1, SmallerFirst
<1> QED
  BY <1>2 DEF T

\* There is one.
LEMMA SumsExist ==
  ASSUME NEW f, NEW S, IsFiniteSet(S)
  PROVE  \E g : Sums(f, S, g)
<1> DEFINE Dom(n) == {A \in SUBSET S : Cardinality(A) <= n}
           Choice(A) == CHOOSE x \in A : TRUE
           Upto(n, g) == g = [A \in Dom(n) |-> IF A = {} THEN 0 ELSE f[Choice(A)] + g[A \ {Choice(A)}]]
           Bad == {n \in Nat : ~ \E g : Upto(n, g)}
<1>0. \A A \in SUBSET S : IsFiniteSet(A) /\ Cardinality(A) \in Nat
  BY FS_Subset, FS_CardinalityType
<1>1. 0 \notin Bad
  <2> DEFINE g == [A \in Dom(0) |-> 0]
  <2>1. \A A \in Dom(0) : A = {}
    BY <1>0, FS_EmptySet
  <2>2. Upto(0, g)
    BY <2>1
  <2> QED
    BY <2>2
<1>2. ASSUME NEW n \in Nat, n \notin Bad
      PROVE  n + 1 \notin Bad
  <2>1. PICK g : Upto(n, g)
    BY <1>2
  <2> DEFINE h == [A \in Dom(n + 1) |-> IF A = {} THEN 0 ELSE f[Choice(A)] + g[A \ {Choice(A)}]]
  <2>2. \A A \in Dom(n) : h[A] = g[A]
    <3> SUFFICES ASSUME NEW A \in Dom(n) PROVE h[A] = g[A]
      OBVIOUS
    <3>1. A \in Dom(n + 1)
      BY <1>0
    <3> QED
      BY Zenon, <2>1, <3>1
  <2>3. \A A \in Dom(n + 1) : A # {} => A \ {Choice(A)} \in Dom(n)
    <3> SUFFICES ASSUME NEW A \in Dom(n + 1), A # {} PROVE A \ {Choice(A)} \in Dom(n)
      OBVIOUS
    <3>1. Choice(A) \in A
      OBVIOUS
    <3> HIDE DEF Choice
    <3>2. Cardinality(A \ {Choice(A)}) = Cardinality(A) - 1
      BY <1>0, <3>1, FS_RemoveElement
    <3> QED
      BY <1>0, <3>2
  <2>4. Upto(n + 1, h)
    <3> HIDE DEF Dom, Choice
    <3> QED
      BY <2>2, <2>3
  <2> QED
    BY <2>4
<1>3. Bad = {}
  <2> SUFFICES ASSUME Bad # {} PROVE FALSE
    OBVIOUS
  <2>1. PICK n \in Bad : \A k \in Bad : n <= k
    <3>1. Bad \subseteq Nat
      OBVIOUS
    <3> HIDE DEF Bad
    <3> QED
      BY <3>1, Least
  <2>2. n \in Nat /\ n # 0
    BY <1>1
  <2> DEFINE k == n - 1
  <2>3. k \in Nat /\ k + 1 = n
    BY <2>2
  <2>4. n \in Nat /\ ~(n <= k)
    BY <2>2
  <2> HIDE DEF k, Bad
  <2>5. k \notin Bad
    BY <2>1, <2>4
  <2> QED
    BY <1>2, <2>3, <2>5
<1>4. \E g : Upto(Cardinality(S), g)
  BY <1>3, FS_CardinalityType
<1>5. Dom(Cardinality(S)) = SUBSET S
  BY FS_Subset, FS_CardinalityType
<1> QED
  BY <1>4, <1>5 DEF Sums

\* The sum is its value.
LEMMA SumIsValue ==
  ASSUME NEW f, NEW S, IsFiniteSet(S), NEW g, Sums(f, S, g)
  PROVE  \A A \in SUBSET S : SumFunctionOnSet(f, A) = g[A]
<1> SUFFICES ASSUME NEW A \in SUBSET S PROVE SumFunctionOnSet(f, A) = g[A]
  OBVIOUS
<1>1. IsFiniteSet(A)
  BY FS_Subset
<1>2. SumFunctionOnSet(f, A) = (CHOOSE h : Sums(f, A, h))[A]
  BY DEF SumFunctionOnSet, FoldFunctionOnSet, MapThenFoldSet, Sums
<1>3. Sums(f, A, CHOOSE h : Sums(f, A, h))
  BY <1>1, SumsExist
<1> DEFINE h == CHOOSE h : Sums(f, A, h)
<1> HIDE DEF h
<1>4. h[A] = g[A]
  BY <1>1, <1>3, SumsAgree DEF h
<1> QED
  BY <1>2, <1>4 DEF h

\* Of nothing the sum is 0.
LEMMA SumEmpty ==
  ASSUME NEW f
  PROVE  SumFunctionOnSet(f, {}) = 0
<1>1. IsFiniteSet({})
  BY FS_EmptySet
<1>2. PICK g : Sums(f, {}, g)
  BY <1>1, SumsExist
<1>3. g[{}] = 0
  BY <1>2, SumsStep
<1> QED
  BY <1>1, <1>2, <1>3, SumIsValue

\* A sum of numbers is a number.
LEMMA SumType ==
  ASSUME NEW f, NEW S, IsFiniteSet(S), \A x \in S : f[x] \in Nat
  PROVE  \A A \in SUBSET S : SumFunctionOnSet(f, A) \in Nat
<1>1. PICK g : Sums(f, S, g)
  BY SumsExist
<1> DEFINE T == {A \in SUBSET S : g[A] \in Nat}
<1>2. ASSUME NEW A \in SUBSET S, \A B \in SUBSET A : B # A => B \in T
      PROVE  A \in T
  <2>1. CASE A = {}
    BY <1>1, <2>1, SumsStep
  <2>2. CASE A # {}
    <3>1. PICK x \in A : g[A] = f[x] + g[A \ {x}]
      BY <1>1, <2>2, SumsStep
    <3>2. A \ {x} \in T
      BY <1>2
    <3> QED
      BY <3>1, <3>2
  <2> QED
    BY <2>1, <2>2
<1> HIDE DEF T
<1>3. \A A \in SUBSET S : A \in T
  BY <1>2, SmallerFirst
<1> QED
  BY <1>1, <1>3, SumIsValue DEF T

\* A sum does not depend on the order in which elements are chosen.
LEMMA SumWithout ==
  ASSUME NEW f, NEW S, IsFiniteSet(S), \A x \in S : f[x] \in Nat
  PROVE  \A A \in SUBSET S : \A x \in A :
           SumFunctionOnSet(f, A) = f[x] + SumFunctionOnSet(f, A \ {x})
<1>1. PICK g : Sums(f, S, g)
  BY SumsExist
<1>2. \A A \in SUBSET S : SumFunctionOnSet(f, A) = g[A] /\ g[A] \in Nat
  <2>1. \A A \in SUBSET S : SumFunctionOnSet(f, A) = g[A]
    BY <1>1, SumIsValue
  <2>2. \A A \in SUBSET S : SumFunctionOnSet(f, A) \in Nat
    BY SumType
  <2> QED
    BY <2>1, <2>2
<1> DEFINE T == {A \in SUBSET S : \A x \in A : g[A] = f[x] + g[A \ {x}]}
<1>3. ASSUME NEW A \in SUBSET S, \A B \in SUBSET A : B # A => B \in T
      PROVE  A \in T
  <2> SUFFICES ASSUME NEW x \in A
               PROVE  g[A] = f[x] + g[A \ {x}]
    OBVIOUS
  <2>1. PICK y \in A : g[A] = f[y] + g[A \ {y}]
    BY <1>1, SumsStep
  <2>2. CASE x = y
    BY <2>1, <2>2
  <2>3. CASE x # y
    <3>1. A \ {y} \in T /\ A \ {x} \in T
      BY <1>3
    <3>2. g[A \ {y}] = f[x] + g[(A \ {y}) \ {x}]
      BY <2>3, <3>1
    <3>3. g[A \ {x}] = f[y] + g[(A \ {x}) \ {y}]
      BY <2>3, <3>1
    <3>4. (A \ {y}) \ {x} = (A \ {x}) \ {y}
      OBVIOUS
    <3> DEFINE a == g[A \ {x}]  b == g[A \ {y}]  c == g[(A \ {x}) \ {y}]
    <3>5. c \in Nat /\ f[x] \in Nat /\ f[y] \in Nat
      BY <1>2
    <3>6. b = f[x] + c /\ a = f[y] + c
      BY <3>2, <3>3, <3>4
    <3> HIDE DEF a, b, c
    <3>7. f[y] + b = f[x] + a
      BY <3>5, <3>6
    <3> QED
      BY <2>1, <3>7 DEF a, b
  <2> QED
    BY <2>2, <2>3
<1> HIDE DEF T
<1>4. \A A \in SUBSET S : A \in T
  BY <1>3, SmallerFirst
<1> QED
  BY <1>2, <1>4 DEF T

\* The sum with one element more.
LEMMA SumWith ==
  ASSUME NEW f, NEW S, IsFiniteSet(S), \A x \in S : f[x] \in Nat, NEW A \in SUBSET S, NEW x \in S \ A
  PROVE  SumFunctionOnSet(f, A \cup {x}) = f[x] + SumFunctionOnSet(f, A)
<1>1. A \cup {x} \in SUBSET S /\ x \in A \cup {x} /\ (A \cup {x}) \ {x} = A
  OBVIOUS
<1> QED
  BY <1>1, SumWithout

\* The sum over one element.
LEMMA SumOfOne ==
  ASSUME NEW f, NEW x, f[x] \in Nat
  PROVE  SumFunctionOnSet(f, {x}) = f[x]
<1>1. IsFiniteSet({x}) /\ {x} \in SUBSET {x} /\ {x} \ {x} = {}
  BY FS_Singleton
<1>2. SumFunctionOnSet(f, {x}) = f[x] + SumFunctionOnSet(f, {x} \ {x})
  BY <1>1, SumWithout
<1> QED
  BY <1>1, <1>2, SumEmpty

\* The sum over two sets.
LEMMA SumSplit ==
  ASSUME NEW f, NEW S, IsFiniteSet(S), \A x \in S : f[x] \in Nat,
         NEW A \in SUBSET S
  PROVE  SumFunctionOnSet(f, S) = SumFunctionOnSet(f, A) + SumFunctionOnSet(f, S \ A)
<1> DEFINE B == S \ A
           T == {C \in SUBSET B :
                   SumFunctionOnSet(f, A \cup C) = SumFunctionOnSet(f, A) + SumFunctionOnSet(f, C)}
<1>1. IsFiniteSet(B)
  BY FS_Subset
<1>2. \A C \in SUBSET S : SumFunctionOnSet(f, C) \in Nat
  BY SumType
<1>3. {} \in T
  BY <1>2, SumEmpty
<1>4. ASSUME NEW C \in SUBSET B, NEW x \in B \ C, C \in T
      PROVE  C \cup {x} \in T
  <2>1. SumFunctionOnSet(f, C \cup {x}) = f[x] + SumFunctionOnSet(f, C)
    BY SumWith
  <2>2. A \cup C \in SUBSET S /\ x \in S \ (A \cup C) /\ (A \cup C) \cup {x} = A \cup (C \cup {x})
    OBVIOUS
  <2>3. SumFunctionOnSet(f, A \cup (C \cup {x})) = f[x] + SumFunctionOnSet(f, A \cup C)
    BY <2>2, SumWith
  <2>4. f[x] \in Nat /\ C \in SUBSET S
    OBVIOUS
  <2> QED
    BY <1>2, <1>4, <2>1, <2>3, <2>4
<1> HIDE DEF T
<1>5. B \in T
  BY <1>1, <1>3, <1>4, OneByOne
<1>6. A \cup B = S
  OBVIOUS
<1> HIDE DEF B
<1> QED
  BY <1>5, <1>6 DEF T, B

\* Sums are monotone.
LEMMA SumLeq ==
  ASSUME NEW f, NEW g, NEW S, IsFiniteSet(S),
         \A x \in S : f[x] \in Nat, \A x \in S : g[x] \in Nat, \A x \in S : f[x] <= g[x]
  PROVE  SumFunctionOnSet(f, S) <= SumFunctionOnSet(g, S)
<1> DEFINE T == {A \in SUBSET S : SumFunctionOnSet(f, A) <= SumFunctionOnSet(g, A)}
<1>1. \A A \in SUBSET S : SumFunctionOnSet(f, A) \in Nat
  BY SumType
<1>2. \A A \in SUBSET S : SumFunctionOnSet(g, A) \in Nat
  BY SumType
<1>3. {} \in T
  BY SumEmpty
<1>4. ASSUME NEW A \in SUBSET S, NEW x \in S \ A, A \in T
      PROVE  A \cup {x} \in T
  <2>1. SumFunctionOnSet(f, A \cup {x}) = f[x] + SumFunctionOnSet(f, A)
    BY SumWith
  <2>2. SumFunctionOnSet(g, A \cup {x}) = g[x] + SumFunctionOnSet(g, A)
    BY SumWith
  <2>3. f[x] \in Nat /\ g[x] \in Nat /\ f[x] <= g[x]
    OBVIOUS
  <2> QED
    BY <1>1, <1>2, <1>4, <2>1, <2>2, <2>3
<1> HIDE DEF T
<1>5. S \in T
  BY <1>3, <1>4, OneByOne
<1> QED
  BY <1>5 DEF T

\* Equal functions have equal sums.
LEMMA SumSame ==
  ASSUME NEW f, NEW g, NEW S, IsFiniteSet(S), \A x \in S : f[x] \in Nat, \A x \in S : f[x] = g[x]
  PROVE  SumFunctionOnSet(f, S) = SumFunctionOnSet(g, S)
<1>1. \A x \in S : g[x] \in Nat
  OBVIOUS
<1>2. \A x \in S : f[x] <= g[x] /\ g[x] <= f[x]
  OBVIOUS
<1>3. SumFunctionOnSet(f, S) <= SumFunctionOnSet(g, S)
  BY <1>1, <1>2, SumLeq
<1>4. SumFunctionOnSet(g, S) <= SumFunctionOnSet(f, S)
  BY <1>1, <1>2, SumLeq
<1>5. SumFunctionOnSet(f, S) \in Nat /\ SumFunctionOnSet(g, S) \in Nat
  BY <1>1, SumType
<1> QED
  BY <1>3, <1>4, <1>5

\* Zeros add up to zero.
LEMMA SumOfZeros ==
  ASSUME NEW f, NEW S, IsFiniteSet(S), \A x \in S : f[x] = 0
  PROVE  SumFunctionOnSet(f, S) = 0
<1> DEFINE T == {A \in SUBSET S : SumFunctionOnSet(f, A) = 0}
<1>1. {} \in T
  BY SumEmpty
<1>2. ASSUME NEW A \in SUBSET S, NEW x \in S \ A, A \in T
      PROVE  A \cup {x} \in T
  <2>1. \A y \in S : f[y] \in Nat
    OBVIOUS
  <2>2. SumFunctionOnSet(f, A \cup {x}) = f[x] + SumFunctionOnSet(f, A)
    BY <2>1, SumWith
  <2> QED
    BY <1>2, <2>2
<1> HIDE DEF T
<1>3. S \in T
  BY <1>1, <1>2, OneByOne
<1> QED
  BY <1>3 DEF T

\* What is zero outside of A has the same sum over S as over A.
LEMMA SumFilter ==
  ASSUME NEW f, NEW g, NEW S, IsFiniteSet(S), NEW A \in SUBSET S,
         \A x \in A : f[x] \in Nat /\ g[x] = f[x],
         \A x \in S \ A : g[x] = 0
  PROVE  SumFunctionOnSet(g, S) = SumFunctionOnSet(f, A)
<1>1. \A x \in S : g[x] \in Nat
  OBVIOUS
<1>2. IsFiniteSet(A) /\ IsFiniteSet(S \ A)
  BY FS_Subset
<1>3. SumFunctionOnSet(g, S) = SumFunctionOnSet(g, A) + SumFunctionOnSet(g, S \ A)
  BY <1>1, SumSplit
<1>4. SumFunctionOnSet(g, S \ A) = 0
  BY <1>2, SumOfZeros
<1>5. SumFunctionOnSet(f, A) = SumFunctionOnSet(g, A)
  <2>1. (\A x \in A : f[x] \in Nat) /\ (\A x \in A : f[x] = g[x])
    OBVIOUS
  <2> QED
    BY <1>2, <2>1, SumSame
<1>6. SumFunctionOnSet(g, A) \in Nat
  BY <1>1, SumType
<1> QED
  BY <1>3, <1>4, <1>5, <1>6

\* Only the values on A change.
LEMMA SumChange ==
  ASSUME NEW f, NEW g, NEW S, IsFiniteSet(S), NEW A \in SUBSET S,
         \A x \in S : f[x] \in Nat, \A x \in S : g[x] \in Nat,
         \A x \in S \ A : g[x] = f[x]
  PROVE  SumFunctionOnSet(g, S) = SumFunctionOnSet(f, S) - SumFunctionOnSet(f, A) + SumFunctionOnSet(g, A)
<1>1. IsFiniteSet(S \ A)
  BY FS_Subset
<1>2. SumFunctionOnSet(f, S) = SumFunctionOnSet(f, A) + SumFunctionOnSet(f, S \ A)
  BY SumSplit
<1>3. SumFunctionOnSet(g, S) = SumFunctionOnSet(g, A) + SumFunctionOnSet(g, S \ A)
  BY SumSplit
<1>4. SumFunctionOnSet(f, S \ A) = SumFunctionOnSet(g, S \ A)
  <2>1. (\A x \in S \ A : f[x] \in Nat) /\ (\A x \in S \ A : f[x] = g[x])
    OBVIOUS
  <2> QED
    BY <1>1, <2>1, SumSame
<1>5. \A C \in SUBSET S : SumFunctionOnSet(f, C) \in Nat
  BY SumType
<1>6. \A C \in SUBSET S : SumFunctionOnSet(g, C) \in Nat
  BY SumType
<1> DEFINE a == SumFunctionOnSet(f, A)  b == SumFunctionOnSet(g, A)  c == SumFunctionOnSet(f, S \ A)
<1>7. a \in Nat /\ b \in Nat /\ c \in Nat
  BY <1>5, <1>6
<1>8. SumFunctionOnSet(f, S) = a + c /\ SumFunctionOnSet(g, S) = b + c
  BY <1>2, <1>3, <1>4
<1> HIDE DEF a, b, c
<1>9. SumFunctionOnSet(g, S) = SumFunctionOnSet(f, S) - a + b
  BY <1>7, <1>8
<1> QED
  BY <1>9 DEF a, b

\* One value changes.
LEMMA SumChangeOne ==
  ASSUME NEW f, NEW g, NEW S, IsFiniteSet(S), NEW y \in S,
         \A x \in S : f[x] \in Nat, \A x \in S : g[x] \in Nat,
         \A x \in S \ {y} : g[x] = f[x]
  PROVE  SumFunctionOnSet(g, S) = SumFunctionOnSet(f, S) - f[y] + g[y]
<1>1. SumFunctionOnSet(f, {y}) = f[y]
  BY SumOfOne
<1>2. SumFunctionOnSet(g, {y}) = g[y]
  BY SumOfOne
<1>3. {y} \in SUBSET S
  OBVIOUS
<1>4. SumFunctionOnSet(g, S) = SumFunctionOnSet(f, S) - SumFunctionOnSet(f, {y}) + SumFunctionOnSet(g, {y})
  BY <1>3, SumChange
<1> QED
  BY <1>1, <1>2, <1>4

-----------------------------------------------------------------------------
(* Lengths of slices                                                       *)

\* Lengths add up to a number.
LEMMA LengthsType ==
  ASSUME NEW U, IsFiniteSet(U), \A u \in U : u.length \in Nat
  PROVE  TotalLength(U) \in Nat
<1> DEFINE f == [u \in U |-> u.length]
<1>1. \A u \in U : f[u] \in Nat
  OBVIOUS
<1> HIDE DEF f
<1>2. SumFunctionOnSet(f, U) \in Nat
  BY <1>1, SumType
<1> QED
  BY <1>2 DEF TotalLength, f

\* Without slices there is no length.
LEMMA LengthsEmpty == TotalLength({}) = 0
BY SumEmpty DEF TotalLength

\* The length with one slice more.
LEMMA LengthsWith ==
  ASSUME NEW U, IsFiniteSet(U), \A u \in U : u.length \in Nat, NEW v, v \notin U, v.length \in Nat
  PROVE  TotalLength(U \cup {v}) = TotalLength(U) + v.length
<1> DEFINE f == [u \in U |-> u.length]
           g == [u \in U \cup {v} |-> u.length]
<1>1. \A u \in U \cup {v} : g[u] \in Nat
  OBVIOUS
<1>2. (\A u \in U : f[u] \in Nat) /\ (\A u \in U : f[u] = g[u]) /\ g[v] = v.length
  OBVIOUS
<1> HIDE DEF f, g
<1>3. IsFiniteSet(U \cup {v}) /\ U \in SUBSET (U \cup {v}) /\ v \in (U \cup {v}) \ U
  BY FS_AddElement
<1>4. SumFunctionOnSet(g, U \cup {v}) = g[v] + SumFunctionOnSet(g, U)
  BY <1>1, <1>3, SumWith
<1>5. SumFunctionOnSet(f, U) = SumFunctionOnSet(g, U)
  BY <1>2, SumSame
<1>6. SumFunctionOnSet(f, U) \in Nat
  BY <1>2, SumType
<1>7. SumFunctionOnSet(g, U \cup {v}) = SumFunctionOnSet(f, U) + v.length
  BY <1>2, <1>4, <1>5, <1>6
<1> QED
  BY <1>7 DEF TotalLength, f, g

\* The length of one slice.
LEMMA LengthsOne ==
  ASSUME NEW v, v.length \in Nat
  PROVE  TotalLength({v}) = v.length
<1>1. TotalLength({} \cup {v}) = TotalLength({}) + v.length
  BY FS_EmptySet, LengthsWith
<1> QED
  BY <1>1, LengthsEmpty

\* The length with one slice less.
LEMMA LengthsWithout ==
  ASSUME NEW U, IsFiniteSet(U), \A u \in U : u.length \in Nat, NEW v \in U
  PROVE  TotalLength(U \ {v}) = TotalLength(U) - v.length
<1> DEFINE R == U \ {v}
<1>1. IsFiniteSet(R) /\ (\A u \in R : u.length \in Nat) /\ v \notin R /\ v.length \in Nat
      /\ R \cup {v} = U
  BY FS_RemoveElement
<1> HIDE DEF R
<1>2. TotalLength(R \cup {v}) = TotalLength(R) + v.length
  BY <1>1, LengthsWith
<1>3. TotalLength(R) \in Nat
  BY <1>1, LengthsType
<1>4. TotalLength(R) = TotalLength(U) - v.length
  BY <1>1, <1>2, <1>3
<1> QED
  BY <1>4 DEF R

\* Slices that are apart and within a chunk are together not longer than the chunk: the
\* bytes of all of them are as many as their lengths add up to.
LEMMA LengthsFit ==
  ASSUME NEW n \in Nat, NEW U, IsFiniteSet(U), WithinChunk(U, n),
         \A s, t \in U : s # t => Apart(s, t)
  PROVE  TotalLength(U) <= n
<1> DEFINE Bytes(A) == UNION {u.offset .. End(u) - 1 : u \in A}
           T == {A \in SUBSET U : IsFiniteSet(Bytes(A)) /\ Cardinality(Bytes(A)) = TotalLength(A)}
<1>0. \A u \in U : /\ u.offset \in Nat /\ u.length \in Nat \ {0}
                   /\ End(u) = u.offset + u.length /\ End(u) <= n
  BY DEF WithinChunk, End
<1>1. {} \in T
  <2>1. Bytes({}) = {}
    OBVIOUS
  <2> HIDE DEF Bytes
  <2> QED
    BY <2>1, FS_EmptySet, LengthsEmpty
<1>2. ASSUME NEW A \in SUBSET U, NEW v \in U \ A, A \in T
      PROVE  A \cup {v} \in T
  <2> DEFINE I == v.offset .. End(v) - 1
  <2>1. Bytes(A \cup {v}) = Bytes(A) \cup I
    OBVIOUS
  <2>2. Bytes(A) \cap I = {}
    <3> SUFFICES ASSUME NEW u \in A, NEW b \in u.offset .. End(u) - 1, b \in I
                 PROVE  FALSE
      OBVIOUS
    <3>1. Apart(u, v)
      OBVIOUS
    <3> QED
      BY <1>0, <3>1 DEF Apart
  <2>3. IsFiniteSet(I) /\ Cardinality(I) = v.length
    <3>1. v.offset \in Int /\ End(v) - 1 \in Int /\ v.length \in Nat \ {0} /\ End(v) = v.offset + v.length
      BY <1>0
    <3>2. /\ IsFiniteSet(I)
          /\ Cardinality(I) = IF v.offset > End(v) - 1 THEN 0 ELSE End(v) - 1 - v.offset + 1
      BY <3>1, FS_Interval
    <3> QED
      BY <3>1, <3>2
  <2> HIDE DEF I, Bytes
  <2>4. IsFiniteSet(Bytes(A)) /\ Cardinality(Bytes(A)) = TotalLength(A)
    BY <1>2
  <2>5. IsFiniteSet(A) /\ (\A u \in A : u.length \in Nat) /\ v \notin A /\ v.length \in Nat
    BY <1>0, FS_Subset
  <2>6. TotalLength(A \cup {v}) = TotalLength(A) + v.length /\ TotalLength(A) \in Nat
    BY <2>5, LengthsWith, LengthsType
  <2>7. /\ IsFiniteSet(Bytes(A) \cup I)
        /\ Cardinality(Bytes(A) \cup I) = Cardinality(Bytes(A)) + Cardinality(I) - Cardinality(Bytes(A) \cap I)
    BY <2>3, <2>4, FS_Union
  <2>8. Cardinality(Bytes(A) \cap I) = 0
    BY <2>2, FS_EmptySet
  <2>9. A \cup {v} \in SUBSET U
    OBVIOUS
  <2>10. Cardinality(Bytes(A) \cup I) = TotalLength(A) + v.length
    BY <2>3, <2>4, <2>5, <2>6, <2>7, <2>8
  <2> QED
    BY <2>1, <2>6, <2>7, <2>9, <2>10
<1>3. Bytes(U) \subseteq 0 .. n - 1
  BY <1>0
<1> HIDE DEF T, Bytes
<1>4. U \in T
  BY <1>1, <1>2, OneByOne
<1>5. IsFiniteSet(0 .. n - 1) /\ Cardinality(0 .. n - 1) = n
  <2>1. 0 \in Int /\ n - 1 \in Int
    OBVIOUS
  <2>2. IsFiniteSet(0 .. n - 1) /\ Cardinality(0 .. n - 1) = IF 0 > n - 1 THEN 0 ELSE n - 1 - 0 + 1
    BY <2>1, FS_Interval
  <2> QED
    BY <2>2
<1>6. Cardinality(Bytes(U)) <= n
  BY <1>3, <1>5, FS_Subset
<1> QED
  BY <1>4, <1>6 DEF T

-----------------------------------------------------------------------------
(* Statistics                                                              *)

\* What each piece of memory (of kinds M, with the uses U) adds to the statistics of heap h.
SizeIn(M, h) == [m \in Memories |-> IF TypeHeap[M[m].type] = h THEN M[m].size ELSE 0]

UsedIn(M, U, h) ==
  [m \in Memories |-> IF TypeHeap[M[m].type] = h THEN TotalLength(U[m]) ELSE 0]

AllocatedInv ==
  /\ memoryAllocated \in [Heaps -> Nat]
  /\ \A h \in Heaps :
       /\ memoryAllocated[h] = SumFunctionOnSet(SizeIn(memory, h), Memories)
       /\ memoryAllocated[h] <= HeapSize[h]

\* Memory that is no chunk is not smaller than the allocation in it.
UsedInv ==
  /\ \A m \in Memories : IsFiniteSet(used[m])
  /\ \A m \in Memories : ~IsChunk(m) => \A u \in used[m] : u.length <= memory[m].size
  /\ memoryUsed \in [Heaps -> Nat] /\ adapterUsed = memoryUsed
  /\ \A h \in Heaps : memoryUsed[h] = SumFunctionOnSet(UsedIn(memory, used, h), Memories)

StatsInv == AllocatedInv /\ UsedInv

\* Sums of functions that differ in E, where nothing is left, and in m, which is new.
LEMMA SumWithoutSome ==
  ASSUME NEW f, NEW g, NEW S, IsFiniteSet(S), NEW E \in SUBSET S,
         \A x \in S : f[x] \in Nat, \A x \in E : g[x] = 0, \A x \in S \ E : g[x] = f[x]
  PROVE  SumFunctionOnSet(g, S) = SumFunctionOnSet(f, S) - SumFunctionOnSet(f, E)
<1>1. \A x \in S : g[x] \in Nat
  OBVIOUS
<1>2. SumFunctionOnSet(g, S) = SumFunctionOnSet(f, S) - SumFunctionOnSet(f, E) + SumFunctionOnSet(g, E)
  BY <1>1, SumChange
<1>3. SumFunctionOnSet(g, E) = 0
  BY FS_Subset, SumOfZeros
<1>4. SumFunctionOnSet(f, S) \in Nat /\ SumFunctionOnSet(f, E) \in Nat
  BY SumType
<1> QED
  BY <1>2, <1>3, <1>4

\* The same, and at m, where nothing was, g is new.
LEMMA SumExchanged ==
  ASSUME NEW f, NEW g, NEW S, IsFiniteSet(S), NEW E \in SUBSET S, NEW m \in S \ E,
         \A x \in S : f[x] \in Nat, f[m] = 0, g[m] \in Nat,
         \A x \in E : g[x] = 0, \A x \in S \ (E \cup {m}) : g[x] = f[x]
  PROVE  SumFunctionOnSet(g, S) = SumFunctionOnSet(f, S) - SumFunctionOnSet(f, E) + g[m]
<1> DEFINE k == [x \in S |-> IF x = m THEN 0 ELSE g[x]]
<1>1. (\A x \in E : k[x] = 0) /\ (\A x \in S \ E : k[x] = f[x])
  OBVIOUS
<1>2. (\A x \in S : k[x] \in Nat) /\ (\A x \in S : g[x] \in Nat) /\ (\A x \in S \ {m} : g[x] = k[x])
      /\ k[m] = 0
  OBVIOUS
<1> HIDE DEF k
<1>3. SumFunctionOnSet(k, S) = SumFunctionOnSet(f, S) - SumFunctionOnSet(f, E)
  BY <1>1, SumWithoutSome
<1>4. SumFunctionOnSet(g, S) = SumFunctionOnSet(k, S) - k[m] + g[m]
  BY <1>2, SumChangeOne
<1>5. SumFunctionOnSet(k, S) \in Nat
  BY <1>2, SumType
<1> QED
  BY <1>2, <1>3, <1>4, <1>5

\* The sizes of the memory in a heap, and of chunks of that heap.
LEMMA SizesAreNat ==
  ASSUME Shapes
  PROVE  \A h : \A x \in Memories : SizeIn(memory, h)[x] \in Nat
BY DEF Shapes, SizeIn

\* What chunks of one heap measure: a part of the sum for this heap, and nothing of the others.
LEMMA SizeOfHeap ==
  ASSUME MemoryAssumption, Shapes, NEW h, NEW E \in SUBSET Memories,
         \A x \in E : TypeHeap[memory[x].type] = h
  PROVE  /\ SizeOf(E) = SumFunctionOnSet(SizeIn(memory, h), E)
         /\ \A i : i # h => SumFunctionOnSet(SizeIn(memory, i), E) = 0
<1>0. IsFiniteSet(E)
  BY FS_Subset DEF MemoryAssumption
<1> DEFINE f == [m \in Memories |-> memory[m].size]
           g == SizeIn(memory, h)
<1>1. (\A x \in E : g[x] \in Nat) /\ (\A x \in E : g[x] = f[x])
  BY DEF Shapes, SizeIn
<1> HIDE DEF f, g
<1>2. SumFunctionOnSet(g, E) = SumFunctionOnSet(f, E)
  BY <1>0, <1>1, SumSame
<1>3. ASSUME NEW i, i # h PROVE SumFunctionOnSet(SizeIn(memory, i), E) = 0
  <2>1. \A x \in E : SizeIn(memory, i)[x] = 0
    BY <1>3 DEF SizeIn
  <2> QED
    BY <1>0, <2>1, SumOfZeros
<1> QED
  BY <1>2, <1>3 DEF SizeOf, f, g

LEMMA SizesOfHeaps ==
  ASSUME MemoryAssumption, Shapes
  PROVE  \A h : \A E \in SUBSET Memories : (\A x \in E : TypeHeap[memory[x].type] = h) =>
           /\ SizeOf(E) = SumFunctionOnSet(SizeIn(memory, h), E)
           /\ \A i : i # h => SumFunctionOnSet(SizeIn(memory, i), E) = 0
BY SizeOfHeap

\* The chunks E, of heap h, are destroyed.
LEMMA AllocatedLess ==
  ASSUME MemoryAssumption, Shapes, Shapes', AllocatedInv, NEW h \in Heaps, NEW E \in SUBSET Memories,
         \A x \in E : TypeHeap[memory[x].type] = h,
         \A x \in E : memory'[x].size = 0,
         \A x \in Memories \ E : memory'[x] = memory[x],
         Replace(h, E, 0)
  PROVE  AllocatedInv'
<1> DEFINE F(i) == SizeIn(memory, i)
           G(i) == SizeIn(memory', i)
<1>1. \A i : \A x \in Memories : F(i)[x] \in Nat
  BY SizesAreNat
<1>2. \A i : (\A x \in E : G(i)[x] = 0) /\ (\A x \in Memories \ E : G(i)[x] = F(i)[x])
  BY DEF SizeIn
<1>3. \A i : \A x \in Memories : G(i)[x] \in Nat
  BY <1>1, <1>2
<1>4. IsFiniteSet(Memories)
  BY DEF MemoryAssumption
<1> HIDE DEF F, G
<1>5. \A i : SumFunctionOnSet(G(i), Memories) = SumFunctionOnSet(F(i), Memories) - SumFunctionOnSet(F(i), E)
  BY <1>1, <1>2, <1>4, SumWithoutSome
<1>6. SizeOf(E) = SumFunctionOnSet(F(h), E) /\ \A i : i # h => SumFunctionOnSet(F(i), E) = 0
  BY SizeOfHeap DEF F
<1>7. \A i : SumFunctionOnSet(F(i), E) \in Nat /\ SumFunctionOnSet(F(i), Memories) \in Nat
  BY <1>1, <1>4, SumType
<1>8. \A i : SumFunctionOnSet(G(i), Memories) \in Nat
  BY <1>3, <1>4, SumType
<1>9. memoryAllocated' = [memoryAllocated EXCEPT ![h] = @ - SizeOf(E) + 0]
  BY DEF Replace
<1>10. \A i \in Heaps : HeapSize[i] \in Nat
  BY DEF Heaps, MemoryAssumption
<1>11. \A i \in Heaps : /\ memoryAllocated[i] = SumFunctionOnSet(F(i), Memories)
                        /\ memoryAllocated[i] <= HeapSize[i]
       /\ memoryAllocated \in [Heaps -> Nat]
  BY DEF AllocatedInv, F
<1>12. \A i \in Heaps : /\ memoryAllocated'[i] = SumFunctionOnSet(G(i), Memories)
                        /\ memoryAllocated'[i] <= HeapSize[i]
  <2> SUFFICES ASSUME NEW i \in Heaps
               PROVE  /\ memoryAllocated'[i] = SumFunctionOnSet(G(i), Memories)
                      /\ memoryAllocated'[i] <= HeapSize[i]
    OBVIOUS
  <2>1. memoryAllocated'[i] = memoryAllocated[i] - SumFunctionOnSet(F(i), E)
    <3>1. CASE i = h
      BY <1>6, <1>7, <1>9, <1>11, <3>1
    <3>2. CASE i # h
      BY <1>6, <1>7, <1>9, <1>11, <3>2
    <3> QED
      BY <3>1, <3>2
  <2> QED
    BY <1>5, <1>7, <1>10, <1>11, <2>1
<1>13. memoryAllocated' \in [Heaps -> Nat]
  <2>1. DOMAIN memoryAllocated' = Heaps /\ memoryAllocated' = [i \in Heaps |-> memoryAllocated'[i]]
    BY <1>9, <1>11
  <2> QED
    BY <1>8, <1>12, <2>1
<1>14. Heaps' = Heaps
  BY DEF Heaps, Types
<1> QED
  BY <1>12, <1>13, <1>14 DEF AllocatedInv, G

\* The chunks E, of heap h, are destroyed, and m is new memory of this heap.
LEMMA AllocatedMore ==
  ASSUME MemoryAssumption, Shapes, Shapes', AllocatedInv, NEW h \in Heaps, NEW E \in SUBSET Memories,
         NEW m \in Memories \ E, NEW size \in Nat,
         \A x \in E : TypeHeap[memory[x].type] = h,
         \A x \in E : memory'[x].size = 0,
         memory[m].size = 0, memory'[m].size = size, TypeHeap[memory'[m].type] = h,
         \A x \in Memories \ (E \cup {m}) : memory'[x] = memory[x],
         memoryAllocated[h] - SizeOf(E) + size <= HeapSize[h],
         Replace(h, E, size)
  PROVE  AllocatedInv'
<1> DEFINE F(i) == SizeIn(memory, i)
           G(i) == SizeIn(memory', i)
           gain(i) == IF i = h THEN size ELSE 0
<1>1. \A i : \A x \in Memories : F(i)[x] \in Nat
  BY SizesAreNat
<1>2. \A i : /\ F(i)[m] = 0 /\ G(i)[m] = gain(i) /\ gain(i) \in Nat
             /\ \A x \in E : G(i)[x] = 0
             /\ \A x \in Memories \ (E \cup {m}) : G(i)[x] = F(i)[x]
  BY DEF SizeIn
<1>3. \A i : \A x \in Memories : G(i)[x] \in Nat
  BY <1>1, <1>2
<1>4. IsFiniteSet(Memories)
  BY DEF MemoryAssumption
<1>0. gain(h) = size /\ \A i : i # h => gain(i) = 0
  OBVIOUS
<1> HIDE DEF F, G, gain
<1>5. \A i : SumFunctionOnSet(G(i), Memories)
               = SumFunctionOnSet(F(i), Memories) - SumFunctionOnSet(F(i), E) + gain(i)
  <2> SUFFICES ASSUME NEW i
               PROVE  SumFunctionOnSet(G(i), Memories)
                        = SumFunctionOnSet(F(i), Memories) - SumFunctionOnSet(F(i), E) + gain(i)
    OBVIOUS
  <2> DEFINE f == F(i)  g == G(i)
  <2>1. /\ \A x \in Memories : f[x] \in Nat
        /\ f[m] = 0 /\ g[m] = gain(i) /\ g[m] \in Nat
        /\ \A x \in E : g[x] = 0
        /\ \A x \in Memories \ (E \cup {m}) : g[x] = f[x]
    BY <1>1, <1>2
  <2> HIDE DEF f, g
  <2>2. SumFunctionOnSet(g, Memories) = SumFunctionOnSet(f, Memories) - SumFunctionOnSet(f, E) + g[m]
    BY <1>4, <2>1, SumExchanged
  <2> QED
    BY <2>1, <2>2 DEF f, g
<1>6. SizeOf(E) = SumFunctionOnSet(F(h), E) /\ \A i : i # h => SumFunctionOnSet(F(i), E) = 0
  <2>1. /\ SizeOf(E) = SumFunctionOnSet(SizeIn(memory, h), E)
        /\ \A i : i # h => SumFunctionOnSet(SizeIn(memory, i), E) = 0
    <3>1. \A i : \A D \in SUBSET Memories : (\A x \in D : TypeHeap[memory[x].type] = i) =>
            /\ SizeOf(D) = SumFunctionOnSet(SizeIn(memory, i), D)
            /\ \A j : j # i => SumFunctionOnSet(SizeIn(memory, j), D) = 0
      BY SizesOfHeaps
    <3>2. \A x \in E : TypeHeap[memory[x].type] = h
      OBVIOUS
    <3> QED
      BY <3>1, <3>2
  <2> QED
    BY <2>1 DEF F
<1>7. \A i : SumFunctionOnSet(F(i), E) \in Nat /\ SumFunctionOnSet(F(i), Memories) \in Nat
  BY <1>1, <1>4, SumType
<1>8. \A i : SumFunctionOnSet(G(i), Memories) \in Nat
  BY <1>3, <1>4, SumType
<1>9. memoryAllocated' = [memoryAllocated EXCEPT ![h] = @ - SizeOf(E) + size]
  BY DEF Replace
<1>11. \A i \in Heaps : /\ memoryAllocated[i] = SumFunctionOnSet(F(i), Memories)
                        /\ memoryAllocated[i] <= HeapSize[i]
       /\ memoryAllocated \in [Heaps -> Nat]
  BY DEF AllocatedInv, F
<1>12. \A i \in Heaps : /\ memoryAllocated'[i] = SumFunctionOnSet(G(i), Memories)
                        /\ memoryAllocated'[i] <= HeapSize[i]
  <2> SUFFICES ASSUME NEW i \in Heaps
               PROVE  /\ memoryAllocated'[i] = SumFunctionOnSet(G(i), Memories)
                      /\ memoryAllocated'[i] <= HeapSize[i]
    OBVIOUS
  <2>1. CASE i = h
    BY <1>0, <1>5, <1>6, <1>9, <1>11, <2>1
  <2>2. CASE i # h
    BY <1>0, <1>5, <1>6, <1>7, <1>9, <1>11, <2>2
  <2> QED
    BY <2>1, <2>2
<1>13. memoryAllocated' \in [Heaps -> Nat]
  <2>1. DOMAIN memoryAllocated' = Heaps /\ memoryAllocated' = [i \in Heaps |-> memoryAllocated'[i]]
    BY <1>9, <1>11
  <2> QED
    BY <1>8, <1>12, <2>1
<1>14. Heaps' = Heaps
  BY DEF Heaps, Types
<1> QED
  BY <1>12, <1>13, <1>14 DEF AllocatedInv, G

\* The heap of evicted chunks.
LEMMA EvictedHeap ==
  ASSUME IInv, ListInv, NEW h, NEW size
  PROVE  \A x \in Evicted(h, size) : TypeHeap[memory[x].type] = h
BY DEF Evicted, ListInv

\* The heap of a memory type is one of the heaps.
LEMMA HeapOfType ==
  ASSUME NEW t \in Types
  PROVE  TypeHeap[t] \in Heaps
BY DEF Heaps

\* What new memory, or none, does to the sums of what is allocated.
LEMMA NewChunkAllocated ==
  ASSUME MemoryAssumption, IInv, ListInv, AllocatedInv, NEW t \in Types, NEW m \in Memories,
         NEW size \in TriedSizes(t), NewChunk(t, m, size)
  PROVE  AllocatedInv'
<1> DEFINE h == TypeHeap[t]
           n == NewSize(t)
           E == Evicted(h, n)
<1>1. Exchanged(Evicted(h, n), {m}) /\ Shapes /\ Shapes'
  BY NewChunkStep DEF IInv
<1>2. size \in Nat
  <2>1. HeapSize[TypeHeap[t]] \in Nat
    BY DEF MemoryAssumption
  <2> QED
    BY <2>1 DEF TriedSizes
<1>3. /\ memory' = Renewed(memory, E, NoMemory, m, NewMemory(t, size))
      /\ Replace(h, E, size)
      /\ memory[m].size = 0
      /\ memoryAllocated[h] - SizeOf(E) + size <= HeapSize[h]
  BY DEF NewChunk, Available
<1>4. E \in SUBSET Memories /\ m \in Memories \ E
  BY <1>3, EvictedUnused
<1>5. h \in Heaps /\ \A x \in E : TypeHeap[memory[x].type] = h
  BY EvictedHeap, HeapOfType
<1> HIDE DEF h, n, E
<1>6. memory'[m].size = size /\ TypeHeap[memory'[m].type] = h
  BY <1>3 DEF Renewed, NewMemory, h
<1>7. (\A x \in E : memory'[x].size = 0) /\ \A x \in Memories \ (E \cup {m}) : memory'[x] = memory[x]
  BY <1>1, <1>4 DEF Exchanged, E
<1> QED
  BY <1>1, <1>2, <1>3, <1>4, <1>5, <1>6, <1>7, AllocatedMore

LEMMA DedicatedAllocated ==
  ASSUME MemoryAssumption, IInv, ListInv, AllocatedInv, NEW t \in Types, NEW m \in Memories,
         Dedicated(t, m)
  PROVE  AllocatedInv'
<1> DEFINE h == TypeHeap[t]
           n == NewSize(t)
           E == Evicted(h, n)
           size == call.size
<1>1. Exchanged(Evicted(h, n), {m}) /\ Shapes /\ Shapes'
  BY DedicatedStep DEF IInv
<1>2. size \in Nat
  BY DEF Dedicated, Trying, IInv, Shapes, NoCall, Calls
<1>3. /\ memory' = Renewed(memory, E, NoMemory, m, NewMemory(t, size))
      /\ Replace(h, E, size)
      /\ memory[m].size = 0
      /\ memoryAllocated[h] - SizeOf(E) + size <= HeapSize[h]
  BY DEF Dedicated, Available
<1>4. E \in SUBSET Memories /\ m \in Memories \ E
  BY <1>3, EvictedUnused
<1>5. h \in Heaps /\ \A x \in E : TypeHeap[memory[x].type] = h
  BY EvictedHeap, HeapOfType
<1> HIDE DEF h, n, E, size
<1>6. memory'[m].size = size /\ TypeHeap[memory'[m].type] = h
  BY <1>3 DEF Renewed, NewMemory, h
<1>7. (\A x \in E : memory'[x].size = 0) /\ \A x \in Memories \ (E \cup {m}) : memory'[x] = memory[x]
  BY <1>1, <1>4 DEF Exchanged, E
<1> QED
  BY <1>1, <1>2, <1>3, <1>4, <1>5, <1>6, <1>7, AllocatedMore

LEMMA RefusedAllocated ==
  ASSUME MemoryAssumption, IInv, ListInv, AllocatedInv, NEW t \in Types, Refused(t)
  PROVE  AllocatedInv'
<1> DEFINE h == TypeHeap[t]
           n == NewSize(t)
           E == Evicted(h, n)
<1>1. Exchanged(Evicted(h, n), {}) /\ Shapes /\ Shapes'
  BY RefusedStep DEF IInv
<1>2. Replace(h, E, 0)
  BY DEF Refused
<1>3. E \in SUBSET Memories
  BY EvictedUnused
<1>4. h \in Heaps /\ \A x \in E : TypeHeap[memory[x].type] = h
  BY EvictedHeap, HeapOfType
<1> HIDE DEF h, n, E
<1>5. (\A x \in E : memory'[x].size = 0) /\ \A x \in Memories \ E : memory'[x] = memory[x]
  BY <1>1, <1>3 DEF Exchanged, E
<1> QED
  BY <1>1, <1>2, <1>3, <1>4, <1>5, AllocatedLess

\* The memory of m is given back to the device.
LEMMA GoneAllocated ==
  ASSUME MemoryAssumption, IInv, IInv', AllocatedInv, NEW m \in Memories,
         memory' = [memory EXCEPT ![m] = NoMemory],
         Replace(TypeHeap[memory[m].type], {m}, 0)
  PROVE  AllocatedInv'
<1> DEFINE h == TypeHeap[memory[m].type]
           E == {m}
<1>1. h \in Heaps
  BY HeapOfType DEF IInv, Shapes
<1>2. (\A x \in E : TypeHeap[memory[x].type] = h) /\ E \in SUBSET Memories /\ Replace(h, E, 0)
  OBVIOUS
<1>3. (\A x \in E : memory'[x].size = 0) /\ \A x \in Memories \ E : memory'[x] = memory[x]
  BY DEF IInv, Shapes, NoMemory
<1>4. Shapes /\ Shapes'
  BY DEF IInv
<1> HIDE DEF h, E
<1> QED
  BY <1>1, <1>2, <1>3, <1>4, AllocatedLess

\* The memory that is allocated stays.
LEMMA AllocatedKept ==
  ASSUME AllocatedInv, UNCHANGED <<memory, memoryAllocated>>
  PROVE  AllocatedInv'
BY DEF AllocatedInv, Heaps, Types

\* Of memory other than m, either nothing changes or nothing is in use before and after; the
\* use of m changes by d, in heap h.
UseMoves(m, h, d) ==
  /\ \A x \in Memories \ {m} :
       \/ memory'[x] = memory[x] /\ used'[x] = used[x]
       \/ used[x] = {} /\ used'[x] = {}
  /\ \A x \in Memories : \A u \in used[x] : u.length \in Nat
  /\ IsFiniteSet(used'[m]) /\ \A u \in used'[m] : u.length \in Nat
  /\ \A i \in Heaps : UsedIn(memory', used', i)[m]
                         = UsedIn(memory, used, i)[m] + (IF i = h THEN d ELSE 0)
  /\ memoryUsed' = [memoryUsed EXCEPT ![h] = @ + d]
  /\ adapterUsed' = [adapterUsed EXCEPT ![h] = @ + d]
  /\ \A x \in Memories : ~IsChunk(x)' => \A u \in used'[x] : u.length <= memory'[x].size

\* A step that moves the use of one piece of memory keeps the sums of what is in use.
LEMMA UsedStep ==
  ASSUME MemoryAssumption, IInv, IInv', UsedInv,
         NEW h \in Heaps, NEW m \in Memories, NEW d \in Int, UseMoves(m, h, d)
  PROVE  UsedInv'
<1> DEFINE F(i) == UsedIn(memory, used, i)
           G(i) == UsedIn(memory', used', i)
           gain(i) == IF i = h THEN d ELSE 0
<1>1. \A x \in Memories : IsFiniteSet(used[x]) /\ IsFiniteSet(used'[x])
  <2>1. \A x \in Memories : IsFiniteSet(used[x])
    BY DEF UsedInv
  <2> QED
    BY <2>1, FS_EmptySet DEF UseMoves
<1>2. \A x \in Memories : \A u \in used[x] \cup used'[x] : u.length \in Nat
  BY DEF UseMoves
<1>3. \A x \in Memories : TotalLength(used[x]) \in Nat /\ TotalLength(used'[x]) \in Nat
  BY <1>1, <1>2, LengthsType
<1>4. \A i : \A x \in Memories : F(i)[x] \in Nat /\ G(i)[x] \in Nat
  BY <1>3 DEF UsedIn
<1>5. \A i : \A x \in Memories \ {m} : G(i)[x] = F(i)[x]
  <2> SUFFICES ASSUME NEW i, NEW x \in Memories \ {m} PROVE G(i)[x] = F(i)[x]
    OBVIOUS
  <2>1. CASE memory'[x] = memory[x] /\ used'[x] = used[x]
    BY <2>1 DEF UsedIn
  <2>2. CASE used[x] = {} /\ used'[x] = {}
    BY <2>2, LengthsEmpty DEF UsedIn
  <2> QED
    BY <2>1, <2>2 DEF UseMoves
<1>6. \A i \in Heaps : G(i)[m] = F(i)[m] + gain(i)
  BY DEF UseMoves
<1>7. gain(h) = d /\ \A i : i # h => gain(i) = 0
  OBVIOUS
<1>8. IsFiniteSet(Memories)
  BY DEF MemoryAssumption
<1>9. /\ memoryUsed \in [Heaps -> Nat] /\ adapterUsed = memoryUsed
      /\ \A i \in Heaps : memoryUsed[i] = SumFunctionOnSet(F(i), Memories)
  BY DEF UsedInv
<1>15. /\ memoryUsed' = [memoryUsed EXCEPT ![h] = @ + d]
       /\ adapterUsed' = [adapterUsed EXCEPT ![h] = @ + d]
       /\ \A x \in Memories : ~IsChunk(x)' => \A u \in used'[x] : u.length <= memory'[x].size
  BY DEF UseMoves
<1> HIDE DEF F, G, gain
<1>10. \A i : SumFunctionOnSet(F(i), Memories) \in Nat /\ SumFunctionOnSet(G(i), Memories) \in Nat
  BY <1>4, <1>8, SumType
<1>11. \A i \in Heaps : SumFunctionOnSet(G(i), Memories) = SumFunctionOnSet(F(i), Memories) + gain(i)
  <2> SUFFICES ASSUME NEW i \in Heaps
               PROVE  SumFunctionOnSet(G(i), Memories) = SumFunctionOnSet(F(i), Memories) + gain(i)
    OBVIOUS
  <2> DEFINE f == F(i)  g == G(i)
  <2>1. /\ \A x \in Memories : f[x] \in Nat
        /\ \A x \in Memories : g[x] \in Nat
        /\ \A x \in Memories \ {m} : g[x] = f[x]
    BY <1>4, <1>5
  <2>2. f[m] \in Nat /\ g[m] = f[m] + gain(i) /\ gain(i) \in Int
    BY <1>4, <1>6, <1>7
  <2>3. SumFunctionOnSet(f, Memories) \in Nat
    BY <1>10
  <2> HIDE DEF f, g
  <2>4. SumFunctionOnSet(g, Memories) = SumFunctionOnSet(f, Memories) - f[m] + g[m]
    BY <1>8, <2>1, SumChangeOne
  <2>5. SumFunctionOnSet(g, Memories) = SumFunctionOnSet(f, Memories) + gain(i)
    BY <2>2, <2>3, <2>4
  <2> QED
    BY <2>5 DEF f, g
<1>12. \A i \in Heaps : memoryUsed'[i] = SumFunctionOnSet(G(i), Memories)
  <2> SUFFICES ASSUME NEW i \in Heaps PROVE memoryUsed'[i] = SumFunctionOnSet(G(i), Memories)
    OBVIOUS
  <2>1. CASE i = h
    BY <1>7, <1>9, <1>11, <1>15, <2>1
  <2>2. CASE i # h
    BY <1>7, <1>9, <1>10, <1>11, <1>15, <2>2
  <2> QED
    BY <2>1, <2>2
<1>13. memoryUsed' \in [Heaps -> Nat] /\ adapterUsed' = memoryUsed'
  <2>1. DOMAIN memoryUsed' = Heaps /\ memoryUsed' = [i \in Heaps |-> memoryUsed'[i]]
    BY <1>9, <1>15
  <2>2. adapterUsed' = memoryUsed'
    BY <1>9, <1>15
  <2>3. \A i \in Heaps : memoryUsed'[i] \in Nat
    BY <1>10, <1>12
  <2> QED
    BY <2>1, <2>2, <2>3
<1>14. Heaps' = Heaps
  BY DEF Heaps, Types
<1> QED
  BY <1>1, <1>12, <1>13, <1>14, <1>15 DEF UsedInv, G

\* Lengths are numbers.
LEMMA LengthsAreNat ==
  ASSUME BackedInv
  PROVE  \A x \in Memories : \A u \in used[x] : u.length \in Nat
BY DEF BackedInv, Backed

\* Nothing is in use any more, or anew, of other memory than chunks were evicted from.
LEMMA OtherUses ==
  ASSUME IInv, NEW h, NEW size, NEW S \in SUBSET Memories, Exchanged(Evicted(h, size), S)
  PROVE  \A x \in Memories \ S :
           /\ \/ memory'[x] = memory[x] /\ used'[x] = used[x]
              \/ used[x] = {} /\ used'[x] = {}
           /\ IsChunk(x) /\ ~IsChunk(x)' => used'[x] = {}
           /\ ~IsChunk(x) => ~IsChunk(x)'
<1> SUFFICES ASSUME NEW x \in Memories \ S
             PROVE  /\ \/ memory'[x] = memory[x] /\ used'[x] = used[x]
                       \/ used[x] = {} /\ used'[x] = {}
                    /\ IsChunk(x) /\ ~IsChunk(x)' => used'[x] = {}
                    /\ ~IsChunk(x) => ~IsChunk(x)'
  OBVIOUS
<1> DEFINE E == Evicted(h, size)
<1>1. used'[x] = used[x] /\ \A t \in Types : x \in chunks'[t] <=> x \in chunks[t] /\ x \notin E
  BY DEF Exchanged
<1>2. CASE x \in E
  <2>1. used[x] = {}
    BY <1>2, EvictedUnused
  <2> QED
    BY <1>1, <1>2, <2>1 DEF IsChunk
<1>3. CASE x \notin E
  <2>1. memory'[x] = memory[x]
    BY <1>3 DEF Exchanged
  <2> QED
    BY <1>1, <1>3, <2>1 DEF IsChunk
<1> QED
  BY <1>2, <1>3

\* What is taken out of a free slice was not in use.
LEMMA TakenIsNew ==
  ASSUME NEW F, NEW U, NEW n, Partition(F, U, n), NEW s \in F,
         NEW size \in Nat \ {0}, NEW align \in Nat \ {0}, Fits(s, size, align),
         NEW u, u.offset = Allocated(s, size, align).offset,
         u.length = Allocated(s, size, align).length
  PROVE  u \notin U
<1> SUFFICES ASSUME u \in U PROVE FALSE
  OBVIOUS
<1>1. s.offset \in Nat /\ s.length \in Nat
  BY DEF Partition, WithinChunk
<1> DEFINE a == Allocated(s, size, align)
<1>2. /\ a.offset \in Nat /\ a.length \in Nat \ {0}
      /\ s.offset <= a.offset /\ End(a) <= End(s) /\ End(a) = a.offset + a.length
  BY <1>1, AllocatedInside
<1>3. u.offset = a.offset /\ u.length = a.length
  OBVIOUS
<1> HIDE DEF a
<1>4. Apart(s, u)
  BY DEF Partition, Disjoint
<1> QED
  BY <1>1, <1>2, <1>3, <1>4 DEF Apart, End

\* What each action does to the sums of what is in use.
LEMMA SuballocateUsed ==
  ASSUME MemoryAssumption, IInv, BackedInv, UsedInv, NEW t \in Types, Suballocate(t)
  PROVE  UsedInv'
<1>0. PICK m \in chunks[t] :
         \E s \in BestSlices(free[m], call.size) :
            /\ Fits(s, call.size, call.align)
            /\ used' = [used EXCEPT ![m] = @ \cup
                          {DxvkMemory(Allocated(s, call.size, call.align))}]
            /\ UseMemory(TypeHeap[t], Allocated(s, call.size, call.align).length)
  BY DEF Suballocate
<1>1. PICK s \in BestSlices(free[m], call.size) :
            /\ Fits(s, call.size, call.align)
            /\ used' = [used EXCEPT ![m] = @ \cup
                          {DxvkMemory(Allocated(s, call.size, call.align))}]
            /\ UseMemory(TypeHeap[t], Allocated(s, call.size, call.align).length)
  BY <1>0
<1> DEFINE u == DxvkMemory(Allocated(s, call.size, call.align))
           h == TypeHeap[t]
           d == Allocated(s, call.size, call.align).length
<1>2. m \in Memories /\ IsChunk(m) /\ s \in free[m] /\ memory[m].type = t
  BY <1>1 DEF IInv, Shapes, IsChunk, BestSlices, BackedInv, ListInv
<1>3. call \in Calls
  BY DEF Suballocate, Trying, IInv, Shapes, NoCall
<1>4. Partition(free[m], used[m], memory[m].size) /\ s.offset \in Nat /\ s.length \in Nat
  BY <1>2 DEF IInv, Sound, Partition, WithinChunk
<1>5. u.offset \in Nat /\ u.length \in Nat
  BY <1>1, <1>3, <1>4, TakenIsNat
<1>6. UNCHANGED <<memory, chunks>>
  BY DEF Suballocate
<1>7. used'[m] = used[m] \cup {u} /\ \A x \in Memories \ {m} : used'[x] = used[x]
  BY <1>1, <1>2 DEF IInv, Shapes
<1>8. u.length = d /\ u.offset = Allocated(s, call.size, call.align).offset
  BY DEF DxvkMemory
<1>9. memoryUsed' = [memoryUsed EXCEPT ![h] = @ + d] /\ adapterUsed' = [adapterUsed EXCEPT ![h] = @ + d]
  BY <1>1 DEF UseMemory
<1>10. h \in Heaps
  BY HeapOfType
<1> HIDE DEF u
<1>11. u \notin used[m]
  <2>1. call.size \in Nat \ {0} /\ call.align \in Nat \ {0}
    BY <1>3 DEF Calls
  <2> QED
    BY <1>1, <1>2, <1>4, <1>8, <2>1, TakenIsNew
<1> HIDE DEF d, h
<1>12. IInv'
  BY SuballocateStep
<1>13. \A x \in Memories : \A v \in used[x] : v.length \in Nat
  BY LengthsAreNat
<1>14. IsFiniteSet(used[m])
  BY <1>2 DEF UsedInv
<1>15. IsFiniteSet(used'[m]) /\ TotalLength(used'[m]) = TotalLength(used[m]) + d
  BY <1>2, <1>5, <1>7, <1>8, <1>11, <1>13, <1>14, FS_AddElement, LengthsWith
<1>16. \A i \in Heaps : UsedIn(memory', used', i)[m]
                          = UsedIn(memory, used, i)[m] + (IF i = h THEN d ELSE 0)
  <2>1. TypeHeap[memory[m].type] = h /\ memory' = memory
    BY <1>2, <1>6 DEF h
  <2> QED
    BY <1>2, <1>15, <2>1 DEF UsedIn
<1>17. \A x \in Memories : ~IsChunk(x)' => \A v \in used'[x] : v.length <= memory'[x].size
  BY <1>2, <1>6, <1>7 DEF UsedInv, IsChunk
<1>18. \A x \in Memories \ {m} : \/ memory'[x] = memory[x] /\ used'[x] = used[x]
                                 \/ used[x] = {} /\ used'[x] = {}
  BY <1>6, <1>7
<1>19. \A v \in used'[m] : v.length \in Nat
  BY <1>2, <1>5, <1>7, <1>13
<1>20. UseMoves(m, h, d)
  BY <1>9, <1>13, <1>15, <1>16, <1>17, <1>18, <1>19 DEF UseMoves
<1>21. d \in Int
  BY <1>5, <1>8
<1> QED
  BY <1>2, <1>10, <1>12, <1>20, <1>21, UsedStep

\* New memory m of heap h has at most one use.
LEMMA NewUsed ==
  ASSUME MemoryAssumption, IInv, IInv', BackedInv, UsedInv, NEW t \in Types, NEW n,
         NEW m \in Memories, NEW d \in Nat,
         Exchanged(Evicted(TypeHeap[t], n), {m}),
         memory[m].size = 0, memory'[m].type = t,
         \/ used'[m] = {} /\ d = 0
         \/ \E u : used'[m] = {u} /\ u.length = d,
         ~IsChunk(m)' => \A u \in used'[m] : u.length <= memory'[m].size,
         memoryUsed' = [memoryUsed EXCEPT ![TypeHeap[t]] = @ + d],
         adapterUsed' = [adapterUsed EXCEPT ![TypeHeap[t]] = @ + d]
  PROVE  UsedInv'
<1> DEFINE h == TypeHeap[t]
<1>1. h \in Heaps
  BY HeapOfType
<1>2. used[m] = {}
  BY DEF IInv, Sound
<1>3. IsFiniteSet(used'[m]) /\ TotalLength(used'[m]) = d /\ \A u \in used'[m] : u.length \in Nat
  <2>1. CASE used'[m] = {} /\ d = 0
    BY <2>1, FS_EmptySet, LengthsEmpty
  <2>2. CASE \E u : used'[m] = {u} /\ u.length = d
    <3>1. PICK u : used'[m] = {u} /\ u.length = d
      BY <2>2
    <3>2. TotalLength({u}) = u.length /\ IsFiniteSet({u})
      BY <3>1, FS_Singleton, LengthsOne
    <3> QED
      BY <3>1, <3>2
  <2> QED
    BY <2>1, <2>2
<1>4. \A i \in Heaps : UsedIn(memory', used', i)[m]
                         = UsedIn(memory, used, i)[m] + (IF i = h THEN d ELSE 0)
  <2>1. \A i : UsedIn(memory, used, i)[m] = 0
    BY <1>2, LengthsEmpty DEF UsedIn
  <2>2. \A i : UsedIn(memory', used', i)[m] = IF i = h THEN d ELSE 0
    BY <1>3 DEF UsedIn
  <2> QED
    BY <2>1, <2>2
<1>5. {m} \in SUBSET Memories
  OBVIOUS
<1>6. \A x \in Memories \ {m} :
           /\ \/ memory'[x] = memory[x] /\ used'[x] = used[x]
              \/ used[x] = {} /\ used'[x] = {}
           /\ IsChunk(x) /\ ~IsChunk(x)' => used'[x] = {}
           /\ ~IsChunk(x) => ~IsChunk(x)'
  BY <1>5, OtherUses
<1>7. \A x \in Memories : ~IsChunk(x)' => \A u \in used'[x] : u.length <= memory'[x].size
  <2> SUFFICES ASSUME NEW x \in Memories \ {m}, ~IsChunk(x)', NEW u \in used'[x]
               PROVE  u.length <= memory'[x].size
    OBVIOUS
  <2>1. ~IsChunk(x) /\ memory'[x] = memory[x] /\ used'[x] = used[x]
    BY <1>6
  <2> QED
    BY <2>1 DEF UsedInv
<1>8. \A x \in Memories : \A u \in used[x] : u.length \in Nat
  BY LengthsAreNat
<1>11. memoryUsed' = [memoryUsed EXCEPT ![h] = @ + d] /\ adapterUsed' = [adapterUsed EXCEPT ![h] = @ + d]
  OBVIOUS
<1>12. \A x \in Memories \ {m} : \/ memory'[x] = memory[x] /\ used'[x] = used[x]
                                 \/ used[x] = {} /\ used'[x] = {}
  BY <1>6
<1> HIDE DEF h
<1>13. UseMoves(m, h, d)
  BY <1>3, <1>4, <1>7, <1>8, <1>11, <1>12 DEF UseMoves
<1> QED
  BY <1>1, <1>13, UsedStep

LEMMA NewChunkUsed ==
  ASSUME MemoryAssumption, IInv, BackedInv, UsedInv, NEW t \in Types, NEW m \in Memories,
         NEW size \in TriedSizes(t), NewChunk(t, m, size)
  PROVE  UsedInv'
<1> DEFINE h == TypeHeap[t]
           n == NewSize(t)
           E == Evicted(h, n)
           whole == Slice(0, size)
           u == DxvkMemory(Allocated(whole, call.size, call.align))
           fits == Fits(whole, call.size, call.align)
           d == IF fits THEN u.length ELSE 0
<1>1. IInv' /\ Exchanged(Evicted(h, n), {m})
  BY NewChunkStep
<1>2. call \in Calls /\ size \in Nat
  <2>1. HeapSize[TypeHeap[t]] \in Nat
    BY DEF MemoryAssumption
  <2> QED
    BY <2>1 DEF NewChunk, Trying, IInv, Shapes, NoCall, TriedSizes
<1>3. /\ memory' = Renewed(memory, E, NoMemory, m, NewMemory(t, size))
      /\ chunks' = [Listed(E) EXCEPT ![t] = @ \cup {m}]
      /\ memory[m].size = 0
  BY DEF NewChunk, Available
<1>4. memory'[m].type = t /\ IsChunk(m)'
  BY <1>3 DEF Renewed, NewMemory, IsChunk, Listed
<1>5. used[m] = {}
  BY <1>3 DEF IInv, Sound
<1>6. u.length = Allocated(whole, call.size, call.align).length
  BY DEF DxvkMemory
<1>7. d \in Nat
  <2>1. CASE fits
    <3>1. whole.offset \in Nat /\ whole.length \in Nat
      BY <1>2 DEF Slice
    <3>2. u.length \in Nat
      BY <1>2, <2>1, <3>1, TakenIsNat
    <3> QED
      BY <2>1, <3>2
  <2>2. CASE ~fits
    BY <2>2
  <2> QED
    BY <2>1, <2>2
<1>8. /\ memoryUsed \in [Heaps -> Nat] /\ adapterUsed \in [Heaps -> Nat]
      /\ h \in Heaps
  BY HeapOfType DEF UsedInv
<1>9. /\ \/ used'[m] = {} /\ d = 0
         \/ \E v : used'[m] = {v} /\ v.length = d
      /\ memoryUsed' = [memoryUsed EXCEPT ![h] = @ + d]
      /\ adapterUsed' = [adapterUsed EXCEPT ![h] = @ + d]
  <2>1. CASE fits
    <3>1. used' = [used EXCEPT ![m] = {u}] /\ UseMemory(h, Allocated(whole, call.size, call.align).length)
      BY <2>1 DEF NewChunk
    <3>2. d = u.length
      BY <2>1
    <3> HIDE DEF u, d, h
    <3>3. used'[m] = {u}
      BY <3>1 DEF IInv, Shapes
    <3> QED
      BY <1>6, <3>1, <3>2, <3>3 DEF UseMemory
  <2>2. CASE ~fits
    <3>1. UNCHANGED <<used, memoryUsed, adapterUsed>>
      BY <2>2 DEF NewChunk
    <3>2. d = 0
      BY <2>2
    <3> HIDE DEF d, h
    <3>3. \A f \in [Heaps -> Nat] : f = [f EXCEPT ![h] = @ + 0]
      OBVIOUS
    <3> QED
      BY <1>5, <1>8, <3>1, <3>2, <3>3
  <2> QED
    BY <2>1, <2>2
<1> HIDE DEF E, whole, u, fits, d
<1>10. ~IsChunk(m)' => \A v \in used'[m] : v.length <= memory'[m].size
  BY <1>4
<1> QED
  BY <1>1, <1>3, <1>4, <1>7, <1>9, <1>10, NewUsed

LEMMA DedicatedUsed ==
  ASSUME MemoryAssumption, IInv, BackedInv, UsedInv, NEW t \in Types, NEW m \in Memories,
         Dedicated(t, m)
  PROVE  UsedInv'
<1> DEFINE h == TypeHeap[t]
           n == NewSize(t)
           E == Evicted(h, n)
           own == DxvkMemory(Slice(0, call.size))
           d == call.size
<1>1. IInv' /\ Exchanged(Evicted(h, n), {m})
  BY DedicatedStep
<1>2. /\ memory' = Renewed(memory, E, NoMemory, m, NewMemory(t, d))
      /\ used' = [used EXCEPT ![m] = {own}]
      /\ memory[m].size = 0
      /\ UseMemory(h, d)
  BY DEF Dedicated, Available
<1>3. d \in Nat
  BY DEF Dedicated, Trying, IInv, Shapes, NoCall, Calls
<1>4. own.length = d
  BY <1>3 DEF DxvkMemory, Slice
<1> HIDE DEF E, own, d
<1>5. used'[m] = {own}
  BY <1>2 DEF IInv, Shapes
<1>6. memory'[m].type = t /\ memory'[m].size = d
  BY <1>2 DEF Renewed, NewMemory
<1>7. \A v \in used'[m] : v.length <= memory'[m].size
  BY <1>3, <1>4, <1>5, <1>6
<1>8. \E v : used'[m] = {v} /\ v.length = d
  BY <1>4, <1>5
<1>9. memoryUsed' = [memoryUsed EXCEPT ![h] = @ + d] /\ adapterUsed' = [adapterUsed EXCEPT ![h] = @ + d]
  BY <1>2 DEF UseMemory
<1> QED
  BY <1>1, <1>2, <1>3, <1>6, <1>7, <1>8, <1>9, NewUsed

LEMMA RefusedUsed ==
  ASSUME MemoryAssumption, IInv, UsedInv, NEW t \in Types, Refused(t)
  PROVE  UsedInv'
<1> DEFINE h == TypeHeap[t]
           n == NewSize(t)
<1>1. Exchanged(Evicted(h, n), {})
  BY RefusedStep
<1>2. UNCHANGED <<used, memoryUsed, adapterUsed>>
  BY DEF Refused
<1> HIDE DEF h, n
<1>3. \A x \in Memories :
           /\ \/ memory'[x] = memory[x] /\ used'[x] = used[x]
              \/ used[x] = {} /\ used'[x] = {}
           /\ IsChunk(x) /\ ~IsChunk(x)' => used'[x] = {}
           /\ ~IsChunk(x) => ~IsChunk(x)'
  <2>1. {} \in SUBSET Memories
    OBVIOUS
  <2>2. \A x \in Memories \ {} :
           /\ \/ memory'[x] = memory[x] /\ used'[x] = used[x]
              \/ used[x] = {} /\ used'[x] = {}
           /\ IsChunk(x) /\ ~IsChunk(x)' => used'[x] = {}
           /\ ~IsChunk(x) => ~IsChunk(x)'
    BY <1>1, <2>1, OtherUses
  <2> QED
    BY <2>2
<1>4. \A i : UsedIn(memory', used', i) = UsedIn(memory, used, i)
  <2> SUFFICES ASSUME NEW i, NEW x \in Memories
               PROVE  (IF TypeHeap[memory'[x].type] = i THEN TotalLength(used'[x]) ELSE 0)
                        = (IF TypeHeap[memory[x].type] = i THEN TotalLength(used[x]) ELSE 0)
    BY DEF UsedIn
  <2> QED
    BY <1>3, LengthsEmpty
<1>5. \A x \in Memories : ~IsChunk(x)' => \A u \in used'[x] : u.length <= memory'[x].size
  BY <1>3 DEF UsedInv
<1>6. Heaps' = Heaps
  BY DEF Heaps, Types
<1> QED
  BY <1>2, <1>4, <1>5, <1>6 DEF UsedInv

\* What u took is given back to the statistics.
LEMMA ReleaseStatistics ==
  ASSUME IInv, BackedInv, UsedInv, NEW m \in Memories, NEW u \in used[m], Release(m, u),
         NEW d \in Int, d = 0 - u.length
  PROVE  /\ memoryUsed' = [memoryUsed EXCEPT ![TypeHeap[memory[m].type]] = @ + d]
         /\ adapterUsed' = [adapterUsed EXCEPT ![TypeHeap[memory[m].type]] = @ + d]
         /\ IsFiniteSet(used'[m])
         /\ \A v \in used'[m] : v.length \in Nat
         /\ TotalLength(used'[m]) = TotalLength(used[m]) + d
         /\ TypeHeap[memory[m].type] \in Heaps
<1> DEFINE h == TypeHeap[memory[m].type]
<1>1. /\ memoryUsed' = [memoryUsed EXCEPT ![h] = @ - u.length]
      /\ adapterUsed' = [adapterUsed EXCEPT ![h] = @ - u.length]
      /\ used'[m] = used[m] \ {u}
  BY ReleaseShapes DEF Release
<1>2. h \in Heaps
  BY HeapOfType DEF IInv, Shapes
<1>3. /\ memoryUsed \in [Heaps -> Nat] /\ adapterUsed \in [Heaps -> Nat]
      /\ IsFiniteSet(used[m])
  BY DEF UsedInv
<1>4. \A v \in used[m] : v.length \in Nat
  BY LengthsAreNat
<1> HIDE DEF h
<1>5. memoryUsed' = [memoryUsed EXCEPT ![h] = @ + d] /\ adapterUsed' = [adapterUsed EXCEPT ![h] = @ + d]
  <2>1. u.length \in Nat
    BY <1>4
  <2> DEFINE k == u.length
  <2>2. k \in Nat /\ d = 0 - k
    BY <2>1
  <2> HIDE DEF k
  <2>3. \A f \in [Heaps -> Nat] : [f EXCEPT ![h] = @ - k] = [f EXCEPT ![h] = @ + d]
    <3> SUFFICES ASSUME NEW f \in [Heaps -> Nat]
                 PROVE  [f EXCEPT ![h] = @ - k] = [f EXCEPT ![h] = @ + d]
      OBVIOUS
    <3>1. f[h] - k = f[h] + d
      BY <1>2, <2>2
    <3> QED
      BY <3>1
  <2>4. \A f \in [Heaps -> Nat] : [f EXCEPT ![h] = @ - u.length] = [f EXCEPT ![h] = @ + d]
    BY <2>3 DEF k
  <2> QED
    BY <1>1, <1>3, <2>4
<1>6. TotalLength(used[m] \ {u}) = TotalLength(used[m]) - u.length
  BY <1>3, <1>4, LengthsWithout
<1>7. TotalLength(used[m]) \in Nat
  BY <1>3, <1>4, LengthsType
<1>8. IsFiniteSet(used[m] \ {u})
  BY <1>3, FS_RemoveElement
<1>9. TotalLength(used'[m]) = TotalLength(used[m]) + d
  <2>1. u.length \in Nat
    BY <1>4
  <2>2. TotalLength(used'[m]) = TotalLength(used[m]) - u.length
    BY <1>1, <1>6
  <2> QED
    BY <1>7, <2>1, <2>2
<1>10. IsFiniteSet(used'[m]) /\ \A v \in used'[m] : v.length \in Nat
  BY <1>1, <1>4, <1>8
<1> QED
  BY <1>2, <1>5, <1>9, <1>10 DEF h

LEMMA FreeSliceUsed ==
  ASSUME MemoryAssumption, IInv, BackedInv, UsedInv, NEW m \in Memories, NEW u \in used[m],
         FreeSlice(m, u)
  PROVE  UsedInv'
<1> DEFINE h == TypeHeap[memory[m].type]
           d == 0 - u.length
<1>1. /\ Release(m, u) /\ IsChunk(m)
      /\ UNCHANGED <<memory, chunks>>
  BY DEF FreeSlice
<1>2. \A x \in Memories : \A v \in used[x] : v.length \in Nat
  BY LengthsAreNat
<1>3. d \in Int /\ d = 0 - u.length
  BY <1>2
<1> HIDE DEF d
<1>4. /\ memoryUsed' = [memoryUsed EXCEPT ![h] = @ + d]
      /\ adapterUsed' = [adapterUsed EXCEPT ![h] = @ + d]
      /\ IsFiniteSet(used'[m])
      /\ \A v \in used'[m] : v.length \in Nat
      /\ TotalLength(used'[m]) = TotalLength(used[m]) + d
      /\ h \in Heaps
  BY <1>1, <1>3, ReleaseStatistics
<1>5. \A i \in Heaps : UsedIn(memory', used', i)[m]
                         = UsedIn(memory, used, i)[m] + (IF i = h THEN d ELSE 0)
  BY <1>1, <1>4 DEF UsedIn
<1>6. /\ \A x \in Memories \ {m} : memory'[x] = memory[x] /\ used'[x] = used[x]
      /\ used'[m] \subseteq used[m]
  BY <1>1, ReleaseShapes
<1>7. \A x \in Memories : ~IsChunk(x)' => \A v \in used'[x] : v.length <= memory'[x].size
  <2>1. \A x \in Memories : (IsChunk(x)' <=> IsChunk(x)) /\ used'[x] \subseteq used[x]
    BY <1>1, <1>6 DEF IsChunk
  <2> QED
    BY <1>1, <2>1 DEF UsedInv
<1> HIDE DEF h
<1>8. UseMoves(m, h, d)
  BY <1>2, <1>4, <1>5, <1>6, <1>7 DEF UseMoves
<1>9. IInv'
  BY FreeSliceStep
<1> QED
  BY <1>3, <1>4, <1>8, <1>9, UsedStep

\* The last use of memory goes, and the memory with it.
LEMMA GoneUsed ==
  ASSUME MemoryAssumption, IInv, IInv', BackedInv, UsedInv, NEW m \in Memories, NEW u \in used[m],
         Release(m, u), used[m] \ {u} = {},
         memory' = [memory EXCEPT ![m] = NoMemory], chunks' = Listed({m})
  PROVE  UsedInv'
<1> DEFINE h == TypeHeap[memory[m].type]
           d == 0 - u.length
<1>1. \A x \in Memories : \A v \in used[x] : v.length \in Nat
  BY LengthsAreNat
<1>2. d \in Int /\ d = 0 - u.length
  BY <1>1
<1> HIDE DEF d
<1>3. /\ memoryUsed' = [memoryUsed EXCEPT ![h] = @ + d]
      /\ adapterUsed' = [adapterUsed EXCEPT ![h] = @ + d]
      /\ IsFiniteSet(used'[m])
      /\ \A v \in used'[m] : v.length \in Nat
      /\ TotalLength(used'[m]) = TotalLength(used[m]) + d
      /\ h \in Heaps
  BY <1>2, ReleaseStatistics
<1>4. used'[m] = {} /\ \A x \in Memories \ {m} : memory'[x] = memory[x] /\ used'[x] = used[x]
  BY ReleaseShapes DEF IInv, Shapes
<1>5. TotalLength(used'[m]) = 0 /\ TotalLength(used[m]) + d = 0
  BY <1>3, <1>4, LengthsEmpty
<1>6. \A i \in Heaps : UsedIn(memory', used', i)[m]
                         = UsedIn(memory, used, i)[m] + (IF i = h THEN d ELSE 0)
  BY <1>5 DEF UsedIn
<1>7. \A x \in Memories : ~IsChunk(x)' => \A v \in used'[x] : v.length <= memory'[x].size
  <2>1. \A x \in Memories \ {m} : IsChunk(x)' <=> IsChunk(x)
    BY DEF IsChunk, Listed
  <2> QED
    BY <1>4, <2>1 DEF UsedInv
<1> HIDE DEF h
<1>8. UseMoves(m, h, d)
  BY <1>1, <1>3, <1>4, <1>6, <1>7 DEF UseMoves
<1> QED
  BY <1>2, <1>3, <1>8, UsedStep

\* free() of what was the last use of a chunk, or of dedicated memory.
LEMMA FreeChunkStats ==
  ASSUME MemoryAssumption, IInv, BackedInv, StatsInv, NEW m \in Memories, NEW u \in used[m],
         FreeChunk(m, u)
  PROVE  StatsInv'
<1>1. /\ Release(m, u) /\ IsChunk(m)
      /\ IsEmpty(FreeInto(free[m], u), memory[m].size)
      /\ Replace(TypeHeap[memory[m].type], {m}, 0)
      /\ memory' = [memory EXCEPT ![m] = NoMemory]
      /\ chunks' = Listed({m})
  BY DEF FreeChunk, LeavesEmpty
<1>2. /\ memory[m].size \in Nat \ {0}
      /\ Partition(free[m], used[m], memory[m].size)
  BY <1>1 DEF IInv, Sound, Shapes
<1>3. Partition(FreeInto(free[m], u), used[m] \ {u}, memory[m].size)
  BY <1>2, FreePartition
<1>4. used[m] \ {u} = {}
  BY <1>1, <1>2, <1>3, EmptyMeansUnused
<1>5. IInv'
  BY FreeChunkStep
<1>6. AllocatedInv'
  BY <1>1, <1>5, GoneAllocated DEF StatsInv
<1>7. UsedInv'
  BY <1>1, <1>4, <1>5, GoneUsed DEF StatsInv
<1> QED
  BY <1>6, <1>7 DEF StatsInv

LEMMA FreeDedicatedStats ==
  ASSUME MemoryAssumption, IInv, BackedInv, StatsInv, NEW m \in Memories, NEW u \in used[m],
         FreeDedicated(m, u)
  PROVE  StatsInv'
<1>1. /\ Release(m, u) /\ ~IsChunk(m)
      /\ Replace(TypeHeap[memory[m].type], {m}, 0)
      /\ memory' = [memory EXCEPT ![m] = NoMemory]
      /\ chunks' = chunks
  BY DEF FreeDedicated
<1>2. used[m] \ {u} = {}
  BY <1>1 DEF IInv, Sound
<1>3. chunks' = Listed({m})
  <2>1. \A t \in Types : chunks[t] = chunks[t] \ {m}
    BY <1>1 DEF IsChunk
  <2>2. chunks = [t \in Types |-> chunks[t]]
    BY DEF IInv, Shapes
  <2> QED
    BY <1>1, <2>1, <2>2 DEF Listed
<1>4. IInv'
  BY FreeDedicatedStep
<1>5. AllocatedInv'
  BY <1>1, <1>4, GoneAllocated DEF StatsInv
<1>6. UsedInv'
  BY <1>1, <1>2, <1>3, <1>4, GoneUsed DEF StatsInv
<1> QED
  BY <1>5, <1>6 DEF StatsInv

\* At first nothing is allocated and nothing is in use.
LEMMA InitStats ==
  ASSUME MemoryAssumption, Init
  PROVE  StatsInv
<1>1. IsFiniteSet(Memories)
  BY DEF MemoryAssumption
<1>2. \A h \in Heaps : HeapSize[h] \in Nat
  BY DEF Heaps, MemoryAssumption
<1>3. \A h : SumFunctionOnSet(SizeIn(memory, h), Memories) = 0
  <2>1. \A h : \A x \in Memories : SizeIn(memory, h)[x] = 0
    BY DEF Init, SizeIn, NoMemory
  <2> QED
    BY <1>1, <2>1, SumOfZeros
<1>4. \A m \in Memories : used[m] = {}
  BY DEF Init
<1>5. \A h : SumFunctionOnSet(UsedIn(memory, used, h), Memories) = 0
  <2>1. \A h : \A x \in Memories : UsedIn(memory, used, h)[x] = 0
    BY <1>4, LengthsEmpty DEF UsedIn
  <2> QED
    BY <1>1, <2>1, SumOfZeros
<1>6. AllocatedInv
  BY <1>2, <1>3 DEF Init, AllocatedInv
<1>7. UsedInv
  BY <1>4, <1>5, FS_EmptySet DEF Init, UsedInv
<1> QED
  BY <1>6, <1>7 DEF StatsInv

\* Every step keeps account of what it allocates, takes into use, and frees
\* (DxvkMemoryAllocator, dxvk_memory.cpp).
THEOREM StatsInvariance == Spec => []StatsInv
<1>1. ASSUME Init PROVE StatsInv
  BY <1>1, MemoryAssumption, InitStats
<1>2. ASSUME IInv, BackedInv, StatsInv, [Next]_vars PROVE StatsInv'
  <2>1. CASE UNCHANGED <<memVars, statVars>>
    BY <1>2, <2>1 DEF StatsInv, AllocatedInv, UsedInv, SizeIn, UsedIn, IsChunk, Heaps, Types,
                      memVars, statVars
  <2>2. CASE (\E r \in Requests : Alloc(r)) \/ NextStage \/ Throw \/ UNCHANGED vars
    <3>1. UNCHANGED <<memVars, statVars>>
      BY <2>2 DEF Alloc, NextStage, Throw, vars
    <3> QED
      BY <2>1, <3>1
  <2>3. CASE \E t \in Types : Suballocate(t)
    <3>1. PICK t \in Types : Suballocate(t)
      BY <2>3
    <3>2. AllocatedInv'
      BY <1>2, <3>1, AllocatedKept DEF StatsInv, Suballocate
    <3>3. UsedInv'
      BY <1>2, <3>1, MemoryAssumption, SuballocateUsed DEF StatsInv
    <3> QED
      BY <3>2, <3>3 DEF StatsInv
  <2>4. CASE \E t \in Types : Refused(t)
    BY <1>2, <2>4, MemoryAssumption, RefusedAllocated, RefusedUsed DEF StatsInv, BackedInv
  <2>5. CASE \E t \in Types, m \in Memories : Dedicated(t, m)
    BY <1>2, <2>5, MemoryAssumption, DedicatedAllocated, DedicatedUsed DEF StatsInv, BackedInv
  <2>6. CASE \E t \in Types : \E m \in Memories, size \in TriedSizes(t) : NewChunk(t, m, size)
    BY <1>2, <2>6, MemoryAssumption, NewChunkAllocated, NewChunkUsed DEF StatsInv, BackedInv
  <2>7. CASE \E m \in Memories : \E u \in used[m] : FreeSlice(m, u)
    <3>0. PICK m \in Memories : \E u \in used[m] : FreeSlice(m, u)
      BY <2>7
    <3>1. PICK u \in used[m] : FreeSlice(m, u)
      BY <3>0
    <3>2. AllocatedInv'
      BY <1>2, <3>1, AllocatedKept DEF StatsInv, FreeSlice
    <3>3. UsedInv'
      BY <1>2, <3>1, MemoryAssumption, FreeSliceUsed DEF StatsInv
    <3> QED
      BY <3>2, <3>3 DEF StatsInv
  <2>8. CASE \E m \in Memories : \E u \in used[m] : FreeChunk(m, u)
    BY <1>2, <2>8, MemoryAssumption, FreeChunkStats
  <2>9. CASE \E m \in Memories : \E u \in used[m] : FreeDedicated(m, u)
    BY <1>2, <2>9, MemoryAssumption, FreeDedicatedStats
  <2> QED
    BY <1>2, <2>2, <2>3, <2>4, <2>5, <2>6, <2>7, <2>8, <2>9 DEF Next
<1> QED
  BY <1>1, <1>2, Invariance, BackedInvariance, PTL DEF Spec

\* What is in use of a piece of memory fits into it.
LEMMA UsedFits ==
  ASSUME IInv, BackedInv, UsedInv, NEW m \in Memories
  PROVE  TotalLength(used[m]) \in Nat /\ TotalLength(used[m]) <= memory[m].size
<1>1. IsFiniteSet(used[m]) /\ \A u \in used[m] : u.length \in Nat
  BY LengthsAreNat DEF UsedInv
<1>2. TotalLength(used[m]) \in Nat
  BY <1>1, LengthsType
<1>3. memory[m].size \in Nat
  BY DEF IInv, Shapes
<1>4. TotalLength(used[m]) <= memory[m].size
  <2>1. CASE IsChunk(m)
    <3>1. Partition(free[m], used[m], memory[m].size)
      BY <2>1 DEF IInv, Sound
    <3>2. /\ WithinChunk(used[m], memory[m].size)
          /\ \A s, t \in used[m] : s # t => Apart(s, t)
      BY <3>1 DEF Partition, WithinChunk, Disjoint
    <3> QED
      BY <1>1, <1>3, <3>2, LengthsFit
  <2>2. CASE used[m] = {}
    BY <1>3, <2>2, LengthsEmpty
  <2>3. CASE ~IsChunk(m) /\ used[m] # {}
    <3>1. PICK u : used[m] = {u}
      BY <2>3 DEF IInv, Sound
    <3>2. u.length \in Nat /\ u.length <= memory[m].size
      BY <1>1, <2>3, <3>1 DEF UsedInv
    <3> QED
      BY <3>1, <3>2, LengthsOne
  <2> QED
    BY <2>1, <2>2, <2>3
<1> QED
  BY <1>2, <1>4

\* The statistics of each heap, which decide when empty chunks are freed and when a dedicated
\* allocation is avoided, are the sizes of its memory and of its allocations; they never count
\* more in use than allocated, nor more allocated than the heap holds.
THEOREM StatsStayExact == Spec => []StatsExact
<1>1. ASSUME IInv, BackedInv, StatsInv PROVE StatsExact
  <2> SUFFICES ASSUME NEW h \in Heaps
               PROVE  LET ms == {m \in Memories : TypeHeap[memory[m].type] = h}
                      IN /\ memoryAllocated[h] = SizeOf(ms)
                         /\ memoryUsed[h] = SumFunctionOnSet([m \in Memories |-> TotalLength(used[m])], ms)
                         /\ adapterUsed[h] = memoryUsed[h]
                         /\ memoryUsed[h] <= memoryAllocated[h] /\ memoryAllocated[h] <= HeapSize[h]
    BY DEF StatsExact
  <2> DEFINE ms == {m \in Memories : TypeHeap[memory[m].type] = h}
             size == [m \in Memories |-> memory[m].size]
             use == [m \in Memories |-> TotalLength(used[m])]
  <2>1. IsFiniteSet(Memories)
    BY MemoryAssumption DEF MemoryAssumption
  <2>2. ms \in SUBSET Memories
    OBVIOUS
  <2>3. \A m \in ms : size[m] \in Nat /\ use[m] \in Nat /\ use[m] <= size[m]
    <3>1. \A m \in Memories : memory[m].size \in Nat
      BY <1>1 DEF IInv, Shapes
    <3>2. \A m \in Memories : TotalLength(used[m]) \in Nat /\ TotalLength(used[m]) <= memory[m].size
      BY <1>1, UsedFits DEF StatsInv
    <3> QED
      BY <3>1, <3>2
  <2>4. /\ \A m \in ms : SizeIn(memory, h)[m] = size[m]
        /\ \A m \in Memories \ ms : SizeIn(memory, h)[m] = 0
    BY DEF SizeIn
  <2>5. /\ \A m \in ms : UsedIn(memory, used, h)[m] = use[m]
        /\ \A m \in Memories \ ms : UsedIn(memory, used, h)[m] = 0
    BY DEF UsedIn
  <2>6. /\ memoryAllocated[h] = SumFunctionOnSet(SizeIn(memory, h), Memories)
        /\ memoryUsed[h] = SumFunctionOnSet(UsedIn(memory, used, h), Memories)
        /\ adapterUsed[h] = memoryUsed[h] /\ memoryAllocated[h] <= HeapSize[h]
    BY <1>1 DEF StatsInv, AllocatedInv, UsedInv
  <2> HIDE DEF ms, size, use
  <2>7. SumFunctionOnSet(SizeIn(memory, h), Memories) = SumFunctionOnSet(size, ms)
    BY <2>1, <2>2, <2>3, <2>4, SumFilter
  <2>8. SumFunctionOnSet(UsedIn(memory, used, h), Memories) = SumFunctionOnSet(use, ms)
    BY <2>1, <2>2, <2>3, <2>5, SumFilter
  <2>9. SumFunctionOnSet(use, ms) <= SumFunctionOnSet(size, ms)
    <3>1. IsFiniteSet(ms)
      BY <2>1, <2>2, FS_Subset
    <3> QED
      BY <2>3, <3>1, SumLeq
  <2>10. /\ memoryAllocated[h] = SumFunctionOnSet(size, ms)
         /\ memoryUsed[h] = SumFunctionOnSet(use, ms)
         /\ memoryUsed[h] <= memoryAllocated[h]
    BY <2>6, <2>7, <2>8, <2>9
  <2> QED
    BY <2>6, <2>10 DEF ms, size, use, SizeOf
<1> QED
  BY <1>1, Invariance, BackedInvariance, StatsInvariance, PTL

=============================================================================
