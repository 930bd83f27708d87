---------------------------- MODULE MemoryChunk ----------------------------
(***************************************************************************)
(* The sub-allocator of DxvkMemoryChunk (src/dxvk/dxvk_memory.cpp) as       *)
(* operators on its free list.  A free list is a set of slices              *)
(* [offset, length]: where the order of m_freeList decides between slices   *)
(* of equal length, the operators leave the choice open.                    *)
(***************************************************************************)
EXTENDS Integers

End(slice) == slice.offset + slice.length

Slice(from, to) == [offset |-> from, length |-> to - from]

\* dxvk::align; Vulkan alignments are powers of two.
Align(what, to) == ((what + to - 1) \div to) * to

\* The slices that alloc() may pick for size: one of exactly that length if
\* there is one, else one of the largest.
BestSlices(free, size) ==
  LET exact == {s \in free : s.length = size}
  IN IF exact # {} THEN exact ELSE {s \in free : \A t \in free : t.length <= s.length}

\* The range that an allocation takes from slice s, whether it fits or not.
Allocated(s, size, align) ==
  LET start == Align(s.offset, align)
  IN Slice(start, Align(start + size, align))

Fits(s, size, align) == End(Allocated(s, size, align)) <= End(s)

\* The free list once Allocated(s, size, align) is taken out of s.
AllocFrom(free, s, size, align) ==
  LET a == Allocated(s, size, align)
  IN (free \ {s}) \cup {r \in {Slice(s.offset, a.offset), Slice(End(a), End(s))} :
                          r.length # 0}

\* Mutant: a slice merges with the free slice after it only.
FreeIntoNoLeft(free, slice) ==
  LET after == {f \in free : f.offset = End(slice)}
      stop  == IF after = {} THEN End(slice) ELSE End(CHOOSE f \in after : TRUE)
  IN (free \ after) \cup {Slice(slice.offset, stop)}

\* free(): the slice merges with the free slices next to it.
FreeInto(free, slice) ==
  LET before == {f \in free : End(f) = slice.offset}
      after  == {f \in free : f.offset = End(slice)}
      start  == IF before = {} THEN slice.offset ELSE (CHOOSE f \in before : TRUE).offset
      stop   == IF after = {} THEN End(slice) ELSE End(CHOOSE f \in after : TRUE)
  IN (free \ (before \cup after)) \cup {Slice(start, stop)}

\* isEmpty(): one free slice that is as long as the chunk.
IsEmpty(free, size) == \E s \in free : free = {s} /\ s.length = size

-----------------------------------------------------------------------------
(* What the free list and the slices in use must be to one another.         *)

WithinChunk(slices, size) ==
  \A s \in slices : s.offset \in Nat /\ s.length \in Nat \ {0} /\ End(s) <= size

Apart(s, t) == End(s) <= t.offset \/ End(t) <= s.offset

\* Slices in use overlap neither each other nor free slices.
Disjoint(free, used) ==
  /\ \A s, t \in free : s # t => Apart(s, t)
  /\ \A s, t \in used : s # t => Apart(s, t)
  /\ \A s \in free, t \in used : Apart(s, t)

\* No two free slices are neighbours.
Coalesced(free) == \A s, t \in free : End(s) # t.offset

\* Nothing is lost: every byte is free or in use.
Covered(free, used, size) ==
  \A b \in 0 .. size - 1 : \E s \in free \cup used : s.offset <= b /\ b < End(s)

Partition(free, used, size) ==
  /\ WithinChunk(free, size) /\ WithinChunk(used, size)
  /\ Disjoint(free, used)
  /\ Coalesced(free)
  /\ Covered(free, used, size)

=============================================================================
