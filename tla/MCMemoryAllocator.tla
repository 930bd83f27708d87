------------------------- MODULE MCMemoryAllocator -------------------------
(* MemoryAllocator for TLC: a small device with one heap and two types.     *)
EXTENDS MemoryAllocator, TLC

MCTypeFlags == <<{"local"}, {"visible"}>>
MCTypeHeap == <<"heap", "heap">>
MCHeapSize == [h \in {"heap"} |-> 128]

Request(size, align, types, flags, hints, dedicated, required, optimal) ==
  [size |-> size, align |-> align, types |-> types, flags |-> flags, hints |-> hints,
   dedicated |-> dedicated, required |-> required, optimal |-> optimal]

\* A small buffer and a small image that may share a chunk, host
\* memory, and a dedicated allocation that puts the heap under pressure.
MCRequests ==
  {Request(3, 1, {1}, {"local"}, {"writable"}, FALSE, FALSE, FALSE),
   Request(1, 1, {1, 2}, {"local"}, {}, FALSE, FALSE, FALSE),
   Request(1, 1, {1}, {"local"}, {}, FALSE, FALSE, TRUE),
   Request(1, 1, {2}, {"visible"}, {"transient"}, FALSE, FALSE, FALSE),
   Request(110, 1, {1}, {"local"}, {}, TRUE, TRUE, FALSE)}

Symmetry == Permutations(Memories)

=============================================================================
