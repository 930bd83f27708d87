-------------------------- MODULE D3D8BatchProofs --------------------------
(***************************************************************************)
(* Theorems about D3D8Batch, for any width of an index, any start vertices, *)
(* counts of primitives and numbers of draws, and any states and buffers;   *)
(* and, below, about the other part of the D3D8 front end that defers state,*)
(* D3D8StateBlocks: for any shaders, textures, buffers, blocks and calls.   *)
(***************************************************************************)
EXTENDS D3D8Batch, D3D8StateBlocks, SequenceTheorems, TLAPS

Indices == 0 .. Width - 1

BatchRecords == [on : BOOLEAN, indices : Seq(Indices), offset : Nat,
                 min : Starts \cup {-1}, max : 0 .. Width, count : Nat]

DeviceRecords == [st : States, indices : IndexBuffers \cup {Null}]

\* Batch x of primitives of type b stands for the vertices a, in their order.
Collected(b, x, a) ==
  /\ Len(a) = x.offset
  /\ x.offset = x.count * PerPrimitive(b)
  /\ x.on <=> x.min # -1
  /\ ~x.on => a = <<>>
  /\ \A k \in 1 .. Len(a) : x.indices[k] = a[k] % Width /\ x.min <= a[k]
  /\ (\A k \in 1 .. Len(a) : a[k] < Width) => \A k \in 1 .. Len(a) : a[k] < x.max

BatchInv ==
  /\ batch \in [Batches -> BatchRecords]
  /\ \A b \in Batches : batch[b].offset <= Len(batch[b].indices)
  /\ asked \in [Batches -> Seq(Nat)]
  /\ under \in [Batches -> SUBSET (States \X (Streams \cup {Null}))]
  /\ \A b \in Batches : ~batch[b].on => under[b] = {}
  /\ \A b \in ListTypes : Collected(b, batch[b], asked[b])

DeviceInv ==
  /\ bound \in Buffers /\ app \in Buffers /\ d9 \in DeviceRecords
  /\ recording \in BOOLEAN /\ stale \in BOOLEAN /\ spoiled \in BOOLEAN
  /\ draws \in 0 .. MaxDraws

\* What the application has bound is what the batcher has, and the index buffer also what
\* the device has; and every pending draw was asked for in the state that the device is
\* still in, with the stream that the batcher still has.
StateInv ==
  ~spoiled =>
    /\ app.stream # Null => bound.stream = app.stream
    /\ app.indices # Null => bound.indices = app.indices /\ d9.indices = app.indices
    /\ \A b \in Batches : under[b] \subseteq {<<d9.st, bound.stream>>}

\* What a flush has drawn of a primitive list.
DrawsAsked(d) ==
  LET vs == {d.asked[k] : k \in DOMAIN d.asked}
  IN  /\ d.count * PerPrimitive(d.type) = Len(d.asked)
      /\ (\A v \in vs : v - d.first < Width) => d.fetched = d.asked
      /\ (\A v \in vs : v < Width) => vs \subseteq d.limits

DrawnInv == (\A d \in Listed : DrawsAsked(d)) /\ DrawnUnderItsState

IInv == BatchInv /\ DeviceInv /\ StateInv /\ DrawnInv

-----------------------------------------------------------------------------
(* Indices                                                                 *)

\* An index that was cut to the width, made relative in the width and added to the
\* base again is the vertex, if the vertex is less than the width away from the base.
LEMMA Remainder ==
  ASSUME NEW w \in Nat \ {0}, NEW q \in Int, NEW r \in 0 .. w - 1
  PROVE  (q * w + r) % w = r
<1>. DEFINE x == q * w + r
            d == x \div w
            m == x % w
<1>1. x \in Int /\ d \in Int /\ m \in 0 .. w - 1 /\ x = w * d + m
  OBVIOUS
<1>2. w * (d - q) = r - m
  BY <1>1
<1>3. d - q \in Int
  BY <1>1
<1>4. \A e \in Int : e >= 1 => w * e >= w
  OBVIOUS
<1>5. \A e \in Int : e <= -1 => w * e <= -w
  OBVIOUS
<1>6. d - q = 0
  BY <1>1, <1>2, <1>3, <1>4, <1>5
<1>. QED
  BY <1>1, <1>2, <1>6

LEMMA IndexRoundTrip ==
  ASSUME NEW w \in Nat \ {0}, NEW v \in Int, NEW m \in Int, v >= m, v - m < w
  PROVE  m + (((v % w) - m) % w) = v
<1>. DEFINE d == v \div w
            r == v % w
            a == -d
<1>1. d \in Int /\ r \in Int /\ v = w * d + r
  OBVIOUS
<1>2. v - m \in 0 .. w - 1 /\ a \in Int
  BY <1>1
<1>3. r - m = a * w + (v - m)
  <2>1. a * w = -(w * d)
    BY <1>1
  <2>. QED
    BY <1>1, <2>1
<1>4. (a * w + (v - m)) % w = v - m
  BY <1>2, Remainder
<1>. QED
  BY <1>1, <1>2, <1>3, <1>4
\* A list of primitives: the vertices of a call start with the lowest and end with
\* the highest one.
LEMMA VerticesOfList ==
  ASSUME NEW t \in PrimTypes, t # "strip", NEW start \in Nat, NEW n \in Nat
  PROVE  /\ BatchOf(t) \in ListTypes
         /\ Vertices(t, start, n) \in Seq(Nat)
         /\ Len(Vertices(t, start, n)) = n * PerPrimitive(BatchOf(t))
         /\ \A k \in 1 .. Len(Vertices(t, start, n)) :
              /\ start <= Vertices(t, start, n)[k]
              /\ Vertices(t, start, n)[k] <= Vertices(t, start, n)[Len(Vertices(t, start, n))]
<1>. DEFINE vs == Vertices(t, start, n)
<1>1. CASE t = "points"
  BY <1>1 DEF Vertices, BatchOf, PerPrimitive, ListTypes
<1>2. CASE t = "lines"
  BY <1>2 DEF Vertices, BatchOf, PerPrimitive, ListTypes
<1>3. CASE t = "triangles"
  BY <1>3 DEF Vertices, BatchOf, PerPrimitive, ListTypes
<1>4. CASE t = "linestrip"
  <2>1. vs = [k \in 1 .. n * 2 |-> start + ((k - 1) \div 2) + ((k - 1) % 2)]
    BY <1>4 DEF Vertices, BatchOf, PerPrimitive
  <2>2. BatchOf(t) = "lines" /\ PerPrimitive(BatchOf(t)) = 2
    BY <1>4 DEF BatchOf, PerPrimitive
  <2>3. \A k \in 1 .. n * 2 : vs[k] \in Nat /\ start <= vs[k] /\ vs[k] <= start + n
    BY <2>1
  <2>4. n * 2 >= 1 => vs[n * 2] = start + n
    BY <2>1
  <2>5. Len(vs) = n * 2 /\ vs \in Seq(Nat)
    BY <2>1, <2>3
  <2>. QED
    BY <2>2, <2>3, <2>4, <2>5 DEF ListTypes
<1>5. CASE t = "fan"
  <2>1. vs = [k \in 1 .. n * 3 |-> IF k % 3 = 1 THEN start ELSE start + ((k - 1) \div 3) + ((k - 1) % 3)]
    BY <1>5 DEF Vertices, BatchOf, PerPrimitive
  <2>2. BatchOf(t) = "triangles" /\ PerPrimitive(BatchOf(t)) = 3
    BY <1>5 DEF BatchOf, PerPrimitive
  <2>3. \A k \in 1 .. n * 3 : vs[k] \in Nat /\ start <= vs[k] /\ vs[k] <= start + n + 1
    BY <2>1
  <2>4. n * 3 >= 1 => vs[n * 3] = start + n + 1
    BY <2>1
  <2>5. Len(vs) = n * 3 /\ vs \in Seq(Nat)
    BY <2>1, <2>3
  <2>. QED
    BY <2>2, <2>3, <2>4, <2>5 DEF ListTypes
<1>. QED
  BY <1>1, <1>2, <1>3, <1>4, <1>5 DEF PrimTypes, Batches, ListTypes
LEMMA FunctionIsSeq ==
  ASSUME NEW S, NEW m \in Nat, NEW f \in [1 .. m -> S]
  PROVE  f \in Seq(S) /\ Len(f) = m
OBVIOUS

LEMMA VerticesOfStrip ==
  ASSUME NEW start \in Nat, NEW n \in Nat
  PROVE  Vertices("strip", start, n) \in Seq(Nat)
<1>. DEFINE vs == Vertices("strip", start, n)
<1>1. vs = [k \in 1 .. n * 3 |-> start + ((k - 1) \div 3) + ((k - 1) % 3)]
  BY DEF Vertices, BatchOf, PerPrimitive
<1>2. \A k \in 1 .. n * 3 : vs[k] \in Nat
  BY <1>1
<1>3. PICK m \in Nat : m = n * 3
  OBVIOUS
<1>. HIDE DEF vs
<1>4. vs \in [1 .. m -> Nat]
  BY <1>1, <1>2, <1>3
<1>. QED
  BY <1>4, FunctionIsSeq DEF vs

\* A call with the vertices vs is appended to the first indices of a list.
Grown(off, ix, vs) ==
  [k \in 1 .. off + Len(vs) |-> IF k <= off THEN ix[k] ELSE vs[k - off] % Width]

LEMMA IndicesGrow ==
  ASSUME NEW off \in Nat, NEW ix \in Seq(Indices), off <= Len(ix),
         NEW a \in Seq(Nat), Len(a) = off, \A k \in 1 .. off : ix[k] = a[k] % Width,
         NEW vs \in Seq(Nat)
  PROVE  /\ Grown(off, ix, vs) \in Seq(Indices) /\ Len(Grown(off, ix, vs)) = off + Len(vs)
         /\ a \o vs \in Seq(Nat) /\ Len(a \o vs) = off + Len(vs)
         /\ \A k \in 1 .. off + Len(vs) : Grown(off, ix, vs)[k] = (a \o vs)[k] % Width
<1>. DEFINE ind == Grown(off, ix, vs)
            len == off + Len(vs)
            all == a \o vs
<1>1. Len(vs) \in Nat /\ len \in Nat /\ Len(ix) \in Nat
  OBVIOUS
<1>2. all \in Seq(Nat) /\ Len(all) = len
  BY ConcatProperties
<1>3. \A k \in 1 .. len : all[k] = IF k <= off THEN a[k] ELSE vs[k - off]
  BY ConcatProperties
<1>. USE DEF Grown
<1>4. \A z \in Nat : z % Width \in Indices
  BY BatchSizes DEF Indices
<1>5. \A k \in 1 .. len : ind[k] = all[k] % Width
  BY <1>1, <1>3
<1>6. \A k \in 1 .. len : all[k] \in Nat
  BY <1>2
<1>7. \A k \in 1 .. len : ind[k] \in Indices
  BY <1>4, <1>5, <1>6
<1>8. DOMAIN ind = 1 .. len /\ ind = [k \in 1 .. len |-> ind[k]]
  OBVIOUS
<1>9. ind \in [1 .. len -> Indices]
  BY <1>7, <1>8
<1>10. ind \in Seq(Indices) /\ Len(ind) = len
  BY <1>1, <1>9, FunctionIsSeq
<1>. QED
  BY <1>2, <1>5, <1>10

\* The new vertices are bounded by those of the call, the old ones by the old limits.
LEMMA LimitsWiden ==
  ASSUME NEW a \in Seq(Nat), NEW vs \in Seq(Nat), NEW start \in Nat, NEW mn \in Nat \cup {-1},
         NEW mx \in Nat, NEW mx2 \in Nat, NEW w \in Nat,
         mn = -1 => a = <<>>,
         \A k \in 1 .. Len(a) : mn <= a[k],
         \A k \in 1 .. Len(vs) : start <= vs[k] /\ vs[k] <= vs[Len(vs)],
         (\A k \in 1 .. Len(a) : a[k] < w) => \A k \in 1 .. Len(a) : a[k] < mx,
         mx <= mx2,
         Len(vs) > 0 /\ vs[Len(vs)] < w => vs[Len(vs)] < mx2
  PROVE  /\ \A k \in 1 .. Len(a \o vs) : Lower(mn, start) <= (a \o vs)[k]
         /\ (\A k \in 1 .. Len(a \o vs) : (a \o vs)[k] < w)
              => \A k \in 1 .. Len(a \o vs) : (a \o vs)[k] < mx2
<1>. DEFINE all == a \o vs
<1>1. Len(a) \in Nat /\ Len(vs) \in Nat
  OBVIOUS
<1>2. all \in Seq(Nat) /\ Len(all) = Len(a) + Len(vs)
  BY ConcatProperties
<1>3. \A k \in 1 .. Len(all) : all[k] = IF k <= Len(a) THEN a[k] ELSE vs[k - Len(a)]
  BY ConcatProperties
<1>4. \A k \in 1 .. Len(all) :
        \/ k \in 1 .. Len(a) /\ all[k] = a[k] /\ a[k] \in Nat
        \/ k - Len(a) \in 1 .. Len(vs) /\ all[k] = vs[k - Len(a)] /\ vs[k - Len(a)] \in Nat
  <2>1. TAKE k \in 1 .. Len(all)
  <2>2. CASE k <= Len(a)
    BY <2>2, <1>1, <1>2, <1>3
  <2>3. CASE k > Len(a)
    <3>1. k - Len(a) \in 1 .. Len(vs) /\ ~(k <= Len(a))
      BY <2>3, <1>1, <1>2
    <3>. QED
      BY <3>1, <1>3
  <2>. QED
    BY <2>2, <2>3, <1>1
<1>5. \A k \in 1 .. Len(a) : k \in 1 .. Len(all) /\ all[k] = a[k] /\ mn # -1
  BY <1>1, <1>2, <1>3
<1>6. Len(vs) > 0 => Len(all) \in 1 .. Len(all) /\ all[Len(all)] = vs[Len(vs)]
                     /\ vs[Len(vs)] \in Nat
  BY <1>1, <1>2, <1>3
<1>7. /\ Lower(mn, start) \in Nat /\ Lower(mn, start) <= start
      /\ mn # -1 => Lower(mn, start) <= mn
  BY DEF Lower
<1>. HIDE DEF all
<1>8. \A k \in 1 .. Len(all) : Lower(mn, start) <= all[k]
  <2>1. TAKE k \in 1 .. Len(all)
  <2>2. CASE k \in 1 .. Len(a) /\ all[k] = a[k] /\ a[k] \in Nat
    <3>1. mn # -1 /\ mn <= a[k] /\ mn \in Nat
      BY <2>2, <1>5
    <3>. QED
      BY <3>1, <2>2, <1>7
  <2>3. CASE k - Len(a) \in 1 .. Len(vs) /\ all[k] = vs[k - Len(a)] /\ vs[k - Len(a)] \in Nat
    <3>1. PICK i \in 1 .. Len(vs) : all[k] = vs[i] /\ vs[i] \in Nat
      BY <2>3
    <3>2. start <= vs[i]
      OBVIOUS
    <3>. QED
      BY <3>1, <3>2, <1>7
  <2>. QED
    BY <2>2, <2>3, <1>4
<1>9. ASSUME \A k \in 1 .. Len(all) : all[k] < w
      PROVE  \A k \in 1 .. Len(all) : all[k] < mx2
  <2>1. \A k \in 1 .. Len(a) : a[k] < mx
    BY <1>5, <1>9
  <2>2. Len(vs) > 0 => vs[Len(vs)] < mx2
    BY <1>6, <1>9
  <2>3. TAKE k \in 1 .. Len(all)
  <2>4. CASE k \in 1 .. Len(a) /\ all[k] = a[k] /\ a[k] \in Nat
    BY <2>4, <2>1
  <2>5. CASE k - Len(a) \in 1 .. Len(vs) /\ all[k] = vs[k - Len(a)] /\ vs[k - Len(a)] \in Nat
    <3>1. PICK i \in 1 .. Len(vs) : all[k] = vs[i] /\ vs[i] \in Nat
      BY <2>5
    <3>2. vs[i] <= vs[Len(vs)]
      OBVIOUS
    <3>3. Len(vs) > 0
      BY <1>1
    <3>. QED
      BY <3>1, <3>2, <3>3, <2>2, <1>6
  <2>. QED
    BY <2>4, <2>5, <1>4
<1>. QED
  BY <1>8, <1>9 DEF all
\* What DrawPrimitive leaves of its batch, which the call extended to z.
Extended(z, start, n) ==
  [z EXCEPT !.on = TRUE, !.count = @ + n, !.min = Lower(@, start),
            !.max = IF z.indices = <<>> THEN @ ELSE Higher(@, z.indices[Len(z.indices)] + 1)]

\* The batch with other indices.
Refilled(x, ind, len) == [x EXCEPT !.indices = ind, !.offset = len]

LEMMA ExtendedFields ==
  ASSUME NEW x \in BatchRecords, NEW ind \in Seq(Indices), NEW len \in Nat,
         NEW start \in Starts, NEW n \in Nat
  PROVE  LET y == Extended(Refilled(x, ind, len), start, n)
         IN  /\ y \in BatchRecords
             /\ y.on = TRUE /\ y.indices = ind /\ y.offset = len /\ y.count = x.count + n
             /\ y.min = Lower(x.min, start) /\ y.min \in Starts
             /\ y.max = (IF ind = <<>> THEN x.max ELSE Higher(x.max, ind[Len(ind)] + 1))
             /\ y.max >= x.max
             /\ Len(ind) > 0 => ind[Len(ind)] \in Indices /\ y.max > ind[Len(ind)]
<1>. DEFINE z == Refilled(x, ind, len)
            y == Extended(z, start, n)
            top == IF ind = <<>> THEN x.max ELSE Higher(x.max, ind[Len(ind)] + 1)
            low == Lower(x.min, start)
<1>1. /\ x.on \in BOOLEAN /\ x.min \in Starts \cup {-1} /\ x.max \in 0 .. Width /\ x.count \in Nat
      /\ x = [on |-> x.on, indices |-> x.indices, offset |-> x.offset, min |-> x.min,
              max |-> x.max, count |-> x.count]
  BY DEF BatchRecords
<1>2. z = [on |-> x.on, indices |-> ind, offset |-> len, min |-> x.min, max |-> x.max,
           count |-> x.count]
  <2>1. z = [x EXCEPT !.indices = ind, !.offset = len]
    BY DEF Refilled
  <2>. HIDE DEF z
  <2>. QED
    BY <1>1, <2>1
<1>3. y = [on |-> TRUE, indices |-> ind, offset |-> len, min |-> low, max |-> top,
           count |-> x.count + n]
  <2>1. /\ z.count = x.count /\ z.min = x.min /\ z.max = x.max /\ z.indices = ind
    BY <1>2
  <2>2. y = [z EXCEPT !.on = TRUE, !.count = x.count + n, !.min = low, !.max = top]
    BY <2>1 DEF Extended
  <2>. HIDE DEF y, low, top, z
  <2>. QED
    BY <1>2, <2>2
<1>4. start \in Nat /\ Width \in Nat \ {0} /\ Starts \subseteq Nat
  BY BatchSizes
<1>5. low \in Starts
  BY <1>1, <1>4 DEF Lower
<1>6. Len(ind) > 0 => ind[Len(ind)] \in Indices
  BY <1>4
<1>7. ind # <<>> => Len(ind) > 0
  OBVIOUS
<1>8. top \in 0 .. Width /\ top >= x.max /\ (Len(ind) > 0 => top > ind[Len(ind)])
  BY <1>1, <1>4, <1>6, <1>7 DEF Higher, Indices
<1>9. x.count + n \in Nat
  BY <1>1
<1>. HIDE DEF top, low, y
<1>10. y \in BatchRecords
  BY <1>3, <1>5, <1>8, <1>9 DEF BatchRecords
<1>11. /\ y.on = TRUE /\ y.indices = ind /\ y.offset = len /\ y.count = x.count + n
       /\ y.min = low /\ y.max = top
  BY <1>3
<1>. QED
  BY <1>5, <1>6, <1>8, <1>10, <1>11 DEF y, low, top

\* What a call of a primitive list does to its batch.
LEMMA AppendListCollects ==
  ASSUME NEW b \in ListTypes, NEW x \in BatchRecords, NEW a \in Seq(Nat), Collected(b, x, a),
         x.offset <= Len(x.indices),
         NEW start \in Starts, NEW n \in Nat, NEW vs \in Seq(Nat),
         Len(vs) = n * PerPrimitive(b),
         \A k \in 1 .. Len(vs) : start <= vs[k] /\ vs[k] <= vs[Len(vs)]
  PROVE  LET y == Extended(AppendList(x, vs), start, n)
         IN  y \in BatchRecords /\ y.offset <= Len(y.indices) /\ y.on /\ Collected(b, y, a \o vs)
<1>. DEFINE z == AppendList(x, vs)
            y == Extended(z, start, n)
            all == a \o vs
<1>0. start \in Nat /\ Width \in Nat \ {0} /\ Starts \subseteq Nat
  BY BatchSizes
<1>1. /\ x.indices \in Seq(Indices) /\ x.offset \in Nat /\ x.on \in BOOLEAN
      /\ x.min \in Starts \cup {-1} /\ x.max \in 0 .. Width /\ x.count \in Nat
  BY DEF BatchRecords
<1>2. Len(a) = x.offset
  BY DEF Collected
<1>3. \A k \in 1 .. x.offset : x.indices[k] = a[k] % Width
  BY <1>2 DEF Collected
<1>4. PICK off : off = x.offset
  OBVIOUS
<1>5. PICK ix : ix = x.indices
  OBVIOUS
<1>6. PICK ind : ind = Grown(off, ix, vs)
  OBVIOUS
<1>7. /\ ind \in Seq(Indices) /\ Len(ind) = off + Len(vs)
      /\ all \in Seq(Nat) /\ Len(all) = off + Len(vs)
      /\ \A k \in 1 .. off + Len(vs) : ind[k] = all[k] % Width
  <2>1. off \in Nat /\ ix \in Seq(Indices) /\ off <= Len(ix)
        /\ Len(a) = off /\ \A k \in 1 .. off : ix[k] = a[k] % Width
    BY <1>1, <1>2, <1>3, <1>4, <1>5
  <2>2. off \in Nat /\ ix \in Seq(Indices)
    BY <1>0, <2>1
  <2>3. off <= Len(ix)
    BY <2>1
  <2>4. Len(a) = off
    BY <2>1
  <2>5. \A k \in 1 .. off : ix[k] = a[k] % Width
    BY <2>1
  <2>6. /\ Grown(off, ix, vs) \in Seq(Indices) /\ Len(Grown(off, ix, vs)) = off + Len(vs)
        /\ a \o vs \in Seq(Nat) /\ Len(a \o vs) = off + Len(vs)
        /\ \A k \in 1 .. off + Len(vs) : Grown(off, ix, vs)[k] = (a \o vs)[k] % Width
    BY <2>2, <2>3, <2>4, <2>5, IndicesGrow
  <2>. QED
    BY <2>6, <1>6
<1>8. PICK len : len = off + Len(vs)
  OBVIOUS
<1>9. len \in Nat /\ Len(vs) \in Nat
  BY <1>1, <1>4, <1>8
<1>10. z = Refilled(x, ind, len)
  BY <1>4, <1>5, <1>6, <1>8 DEF AppendList, Grown, Refilled
<1>11. /\ y \in BatchRecords
       /\ y.on = TRUE /\ y.indices = ind /\ y.offset = len /\ y.count = x.count + n
       /\ y.min = Lower(x.min, start) /\ y.min \in Starts
       /\ y.max >= x.max
       /\ Len(ind) > 0 => ind[Len(ind)] \in Indices /\ y.max > ind[Len(ind)]
  <2>1. ind \in Seq(Indices) /\ len \in Nat
    BY <1>7, <1>9
  <2>2. LET e == Extended(Refilled(x, ind, len), start, n)
        IN  /\ e \in BatchRecords
            /\ e.on = TRUE /\ e.indices = ind /\ e.offset = len /\ e.count = x.count + n
            /\ e.min = Lower(x.min, start) /\ e.min \in Starts
            /\ e.max = (IF ind = <<>> THEN x.max ELSE Higher(x.max, ind[Len(ind)] + 1))
            /\ e.max >= x.max
            /\ Len(ind) > 0 => ind[Len(ind)] \in Indices /\ e.max > ind[Len(ind)]
    BY <2>1, ExtendedFields
  <2>. HIDE DEF z
  <2>. QED
    BY <2>2, <1>10
<1>. HIDE DEF y, all, z
<1>12. y.max \in Nat
  BY <1>0, <1>11 DEF BatchRecords
<1>13. Len(vs) > 0 /\ vs[Len(vs)] < Width => vs[Len(vs)] < y.max
  <2>1. ASSUME Len(vs) > 0, vs[Len(vs)] < Width
        PROVE  vs[Len(vs)] < y.max
    <3>1. Len(ind) > 0 /\ len \in 1 .. off + Len(vs) /\ len = Len(ind) /\ off \in Nat
      BY <2>1, <1>1, <1>4, <1>7, <1>8, <1>9
    <3>2. all[len] = vs[Len(vs)]
      <4>1. a \in Seq(Nat) /\ Len(a) = off
        BY <1>2, <1>4
      <4>. QED
        BY <4>1, <3>1, <2>1, <1>8, <1>9, ConcatProperties DEF all
    <3>3. ind[len] = vs[Len(vs)] % Width
      BY <3>1, <3>2, <1>7
    <3>4. vs[Len(vs)] \in Nat
      BY <2>1, <1>9
    <3>5. vs[Len(vs)] % Width = vs[Len(vs)]
      <4>1. \A v \in Nat : v < Width => v % Width = v
        BY <1>0
      <4>. QED
        BY <4>1, <3>4, <2>1
    <3>. QED
      BY <3>1, <3>3, <3>5, <1>11
  <2>. QED
    BY <2>1
<1>14. /\ \A k \in 1 .. Len(all) : Lower(x.min, start) <= all[k]
       /\ (\A k \in 1 .. Len(all) : all[k] < Width) => \A k \in 1 .. Len(all) : all[k] < y.max
  <2>1. x.min \in Nat \cup {-1} /\ x.max \in Nat
    <3>1. 0 .. Width \subseteq Nat
      BY <1>0
    <3>. QED
      BY <3>1, <1>0, <1>1
  <2>2. /\ x.min = -1 => a = <<>>
        /\ \A k \in 1 .. Len(a) : x.min <= a[k]
        /\ (\A k \in 1 .. Len(a) : a[k] < Width) => \A k \in 1 .. Len(a) : a[k] < x.max
    BY <1>1 DEF Collected
  <2>3. x.max <= y.max
    BY <2>1, <1>11, <1>12
  <2>. QED
    BY <2>1, <2>2, <2>3, <1>0, <1>12, <1>13, LimitsWiden DEF all
<1>15. len = (x.count + n) * PerPrimitive(b)
  <2>1. x.offset = x.count * PerPrimitive(b)
    BY DEF Collected
  <2>. QED
    BY <2>1, <1>1, <1>4, <1>8 DEF PerPrimitive, ListTypes
<1>16. y.min # -1
  BY <1>0, <1>11
<1>17. Collected(b, y, all)
  <2>1. Len(all) = len
    BY <1>7, <1>8
  <2>2. \A k \in 1 .. Len(all) : y.indices[k] = all[k] % Width
    BY <1>7, <1>11
  <2>3. \A k \in 1 .. Len(all) : y.min <= all[k]
    BY <1>11, <1>14
  <2>. QED
    BY <2>1, <2>2, <2>3, <1>11, <1>14, <1>15, <1>16 DEF Collected
<1>18. y.offset <= Len(y.indices)
  BY <1>7, <1>8, <1>9, <1>11
<1>. QED
  BY <1>11, <1>17, <1>18 DEF y, all, z

\* A strip: the numbers that are appended are indices.
LEMMA AppendStripKeeps ==
  ASSUME NEW x \in BatchRecords, x.offset <= Len(x.indices),
         NEW start \in Starts, NEW n \in Nat, NEW junk \in Indices
  PROVE  LET y == Extended(AppendStrip(x, start, n, junk), start, n)
         IN  y \in BatchRecords /\ y.offset <= Len(y.indices) /\ y.on
<1>. DEFINE z == AppendStrip(x, start, n, junk)
            y == Extended(z, start, n)
            old == Resize(x.indices, x.offset + n + 2)
            off == IF x.offset > 0 THEN x.offset + 2 ELSE 0
            Join(k) == IF x.offset > 0 /\ k = off
                       THEN IF x.offset > 1 THEN old[x.offset - 1] ELSE junk
                       ELSE old[k]
            ind == [k \in DOMAIN old |->
                      IF k \in off + 1 .. off + n THEN (start + k - off - 1) % Width ELSE Join(k)]
<1>0. start \in Nat /\ Width \in Nat \ {0} /\ Starts \subseteq Nat
  BY BatchSizes
<1>1. x.indices \in Seq(Indices) /\ x.offset \in Nat
  BY DEF BatchRecords
<1>2. PICK ix : ix = x.indices
  OBVIOUS
<1>3. PICK o \in Nat : o = x.offset
  BY <1>1
<1>4. DOMAIN old = 1 .. o + n + 2 /\ \A k \in 1 .. o + n + 2 : old[k] \in Indices
  <2>1. old = [k \in 1 .. o + n + 2 |-> IF k <= Len(ix) THEN ix[k] ELSE 0]
    BY <1>2, <1>3 DEF Resize
  <2>2. ix \in Seq(Indices) /\ Len(ix) \in Nat
    BY <1>1, <1>2
  <2>3. \A k \in 1 .. o + n + 2 : k <= Len(ix) => ix[k] \in Indices
    BY <2>2, <1>0
  <2>. QED
    BY <2>1, <2>3, <1>0 DEF Indices
<1>5. off \in Nat /\ off + n <= o + n + 2
  BY <1>3
<1>. HIDE DEF old
<1>6. \A k \in 1 .. o + n + 2 : Join(k) \in Indices
  <2>1. o > 1 => o - 1 \in 1 .. o + n + 2
    OBVIOUS
  <2>. QED
    BY <2>1, <1>3, <1>4
<1>. HIDE DEF off, Join
<1>7. \A v \in Int : v % Width \in Indices
  BY <1>0 DEF Indices
<1>8. \A k \in 1 .. o + n + 2 : ind[k] \in Indices
  <2>1. TAKE k \in 1 .. o + n + 2
  <2>2. CASE k \in off + 1 .. off + n
    <3>1. start + k - off - 1 \in Int
      BY <1>0, <1>5
    <3>. QED
      BY <3>1, <2>2, <1>4, <1>7
  <2>3. CASE ~(k \in off + 1 .. off + n)
    BY <2>3, <1>4, <1>6
  <2>. QED
    BY <2>2, <2>3
<1>9. ind = [k \in 1 .. o + n + 2 |-> ind[k]]
  BY <1>4
<1>10. z = Refilled(x, ind, off + n)
  BY DEF Refilled, AppendStrip, old, off, Join
<1>. HIDE DEF ind
<1>11. ind \in Seq(Indices) /\ Len(ind) = o + n + 2
  <2>1. ind \in [1 .. o + n + 2 -> Indices]
    BY <1>8, <1>9
  <2>2. o + n + 2 \in Nat
    OBVIOUS
  <2>3. PICK m \in Nat : m = o + n + 2
    BY <2>2
  <2>4. ind \in [1 .. m -> Indices]
    BY <2>1, <2>3
  <2>5. ind \in Seq(Indices) /\ Len(ind) = m
    BY <2>4, FunctionIsSeq
  <2>. QED
    BY <2>3, <2>5
<1>12. y \in BatchRecords /\ y.on = TRUE /\ y.indices = ind /\ y.offset = off + n
  <2>1. PICK len \in Nat : len = off + n
    BY <1>5
  <2>2. PICK ix2 \in Seq(Indices) : ix2 = ind
    BY <1>11
  <2>3. LET e == Extended(Refilled(x, ix2, len), start, n)
        IN  /\ e \in BatchRecords
            /\ e.on = TRUE /\ e.indices = ix2 /\ e.offset = len /\ e.count = x.count + n
            /\ e.min = Lower(x.min, start) /\ e.min \in Starts
            /\ e.max = (IF ix2 = <<>> THEN x.max ELSE Higher(x.max, ix2[Len(ix2)] + 1))
            /\ e.max >= x.max
            /\ Len(ix2) > 0 => ix2[Len(ix2)] \in Indices /\ e.max > ix2[Len(ix2)]
    BY ExtendedFields
  <2>. HIDE DEF z
  <2>. QED
    BY <2>1, <2>2, <2>3, <1>10
<1>. QED
  BY <1>5, <1>11, <1>12 DEF y, z
-----------------------------------------------------------------------------
(* Flushes                                                                 *)

\* A batch that was drawn is empty, whatever is left of its indices.
LEMMA ResetIsEmpty ==
  ASSUME NEW x \in BatchRecords
  PROVE  /\ ResetBatch(x) \in BatchRecords /\ ResetBatch(x).offset <= Len(ResetBatch(x).indices) /\ ~ResetBatch(x).on
         /\ \A b \in ListTypes : Collected(b, ResetBatch(x), <<>>)
<1>. DEFINE ind == [k \in DOMAIN x.indices |-> (x.indices[k] - x.min) % Width]
<1>1. x.indices \in Seq(Indices) /\ x.min \in Int /\ Width \in Nat \ {0}
  <2>1. x.indices \in Seq(Indices) /\ x.min \in Starts \cup {-1}
    BY DEF BatchRecords
  <2>2. Width \in Nat \ {0} /\ Starts \subseteq Nat
    BY BatchSizes
  <2>3. x.min \in Int
    <3>1. CASE x.min = -1
      BY <3>1
    <3>2. CASE x.min \in Starts
      <4>1. PICK m \in Starts : m = x.min
        BY <3>2
      <4>2. m \in Nat
        BY <2>2
      <4>. QED
        BY <4>1, <4>2
    <3>. QED
      BY <3>1, <3>2, <2>1
  <2>. QED
    BY <2>1, <2>2, <2>3
<1>2. PICK m \in Nat : m = Len(x.indices)
  BY <1>1
<1>3. DOMAIN x.indices = 1 .. m /\ \A k \in 1 .. m : x.indices[k] \in Int
  BY <1>1, <1>2 DEF Indices
<1>4. \A v \in Int : v % Width \in Indices
  BY <1>1 DEF Indices
<1>5. \A k \in 1 .. m : ind[k] \in Indices
  <2>1. \A k \in 1 .. m : x.indices[k] - x.min \in Int
    BY <1>1, <1>3
  <2>. QED
    BY <2>1, <1>3, <1>4
<1>6. ind \in [1 .. m -> Indices]
  BY <1>3, <1>5
<1>7. ind \in Seq(Indices) /\ Len(ind) = m
  BY <1>6, FunctionIsSeq
<1>8. ResetBatch(x) = [on |-> FALSE, indices |-> ind, offset |-> 0, min |-> -1, max |-> 0, count |-> 0]
  <2>1. ResetBatch(x) = [Empty EXCEPT !.indices = ind]
    BY DEF ResetBatch
  <2>. HIDE DEF ind
  <2>. QED
    BY <2>1 DEF Empty
<1>. HIDE DEF ind
<1>9. ResetBatch(x) \in BatchRecords
  BY <1>1, <1>7, <1>8 DEF BatchRecords
<1>10. /\ ResetBatch(x).on = FALSE /\ ResetBatch(x).indices = ind /\ ResetBatch(x).offset = 0 /\ ResetBatch(x).min = -1
       /\ ResetBatch(x).max = 0 /\ ResetBatch(x).count = 0
  BY <1>8
<1>11. \A b \in ListTypes : Collected(b, ResetBatch(x), <<>>)
  <2>1. TAKE b \in ListTypes
  <2>2. 0 = 0 * PerPrimitive(b)
    BY DEF PerPrimitive, ListTypes
  <2>. QED
    BY <2>2, <1>10 DEF Collected
<1>. QED
  BY <1>7, <1>9, <1>10, <1>11

\* The vertices that D3D9 fetches.
LEMMA FetchedIsAsked ==
  ASSUME NEW b \in ListTypes, NEW x \in BatchRecords, NEW a \in Seq(Nat), Collected(b, x, a),
         x.on
  PROVE  /\ x.count * PerPrimitive(b) = Len(a)
         /\ (\A k \in 1 .. Len(a) : a[k] - x.min < Width) => Fetched(b, x) = a
         /\ (\A k \in 1 .. Len(a) : a[k] < Width)
              => \A k \in 1 .. Len(a) : a[k] \in x.min .. x.max - 1
<1>1. x.count * PerPrimitive(b) = Len(a)
  BY DEF Collected
<1>2. x.min \in Nat /\ x.max \in Nat /\ Width \in Nat \ {0}
  <2>1. x.min \in Starts \cup {-1} /\ x.max \in 0 .. Width
    BY DEF BatchRecords
  <2>2. x.min # -1
    BY DEF Collected
  <2>3. Width \in Nat \ {0} /\ Starts \subseteq Nat /\ 0 .. Width \subseteq Nat
    BY BatchSizes
  <2>. QED
    BY <2>1, <2>2, <2>3
<1>3. \A k \in 1 .. Len(a) : a[k] \in Nat /\ x.min <= a[k] /\ x.indices[k] = a[k] % Width
  BY DEF Collected
<1>4. ASSUME \A k \in 1 .. Len(a) : a[k] - x.min < Width
      PROVE  Fetched(b, x) = a
  <2>1. Fetched(b, x) = [k \in 1 .. Len(a) |-> x.min + ((x.indices[k] - x.min) % Width)]
    BY <1>1 DEF Fetched, ListTypes
  <2>2. \A k \in 1 .. Len(a) : x.min + ((x.indices[k] - x.min) % Width) = a[k]
    <3>1. TAKE k \in 1 .. Len(a)
    <3>2. a[k] \in Int /\ x.min \in Int /\ a[k] >= x.min /\ a[k] - x.min < Width
      BY <1>2, <1>3, <1>4
    <3>3. x.min + (((a[k] % Width) - x.min) % Width) = a[k]
      BY <3>2, <1>2, IndexRoundTrip
    <3>. QED
      BY <3>3, <1>3
  <2>3. a = [k \in 1 .. Len(a) |-> a[k]]
    OBVIOUS
  <2>. QED
    BY <2>1, <2>2, <2>3
<1>5. ASSUME \A k \in 1 .. Len(a) : a[k] < Width
      PROVE  \A k \in 1 .. Len(a) : a[k] \in x.min .. x.max - 1
  <2>1. \A k \in 1 .. Len(a) : a[k] < x.max
    BY <1>5 DEF Collected
  <2>. QED
    BY <2>1, <1>2, <1>3
<1>. QED
  BY <1>1, <1>4, <1>5

LEMMA FlushStep ==
  ASSUME BatchInv, NEW s, FlushFrom(s)
  PROVE  /\ BatchInv'
         /\ \A d \in Listed' : DrawsAsked(d)
         /\ \A d \in drawn' : \E b \in Batches : d.under = under[b] /\ d.state = <<d9.st, s>>
         /\ \A b \in Batches : under'[b] = {}
<1>1. /\ batch \in [Batches -> BatchRecords] /\ asked \in [Batches -> Seq(Nat)]
      /\ \A b \in Batches : batch[b] \in BatchRecords /\ asked[b] \in Seq(Nat)
      /\ ListTypes \subseteq Batches
  BY DEF BatchInv, Batches
<1>2. /\ batch' = [b \in Batches |-> IF b \in Pending THEN ResetBatch(batch[b]) ELSE batch[b]]
      /\ asked' = [b \in Batches |-> <<>>]
      /\ under' = [b \in Batches |-> {}]
  BY DEF FlushFrom
<1>3. \A b \in Batches : /\ b \in Pending => batch'[b] = ResetBatch(batch[b])
                         /\ b \notin Pending => batch'[b] = batch[b] /\ ~batch[b].on
                         /\ asked'[b] = <<>> /\ under'[b] = {}
  BY <1>2 DEF Pending
<1>4. \A b \in Batches : batch'[b] \in BatchRecords /\ batch'[b].offset <= Len(batch'[b].indices)
  BY <1>1, <1>3, ResetIsEmpty DEF BatchInv
<1>5. batch' \in [Batches -> BatchRecords]
  BY <1>2, <1>4
<1>6. \A b \in ListTypes : Collected(b, batch'[b], asked'[b])
  <2>1. TAKE b \in ListTypes
  <2>2. CASE b \in Pending
    BY <2>2, <1>1, <1>3, ResetIsEmpty
  <2>3. CASE b \notin Pending
    <3>1. Collected(b, batch[b], asked[b]) /\ ~batch[b].on
      BY <2>3, <1>1, <1>3 DEF BatchInv
    <3>2. asked[b] = <<>>
      BY <3>1 DEF Collected
    <3>. QED
      BY <3>1, <3>2, <2>3, <1>1, <1>3
  <2>. QED
    BY <2>2, <2>3
<1>7. BatchInv'
  <2>1. asked' \in [Batches -> Seq(Nat)]
    BY <1>2
  <2>2. under' \in [Batches -> SUBSET (States \X (Streams \cup {Null}))]
    BY <1>2
  <2>. QED
    BY <2>1, <2>2, <1>3, <1>4, <1>5, <1>6 DEF BatchInv
<1>8. ASSUME NEW d \in drawn'
      PROVE  /\ d.type \in ListTypes => DrawsAsked(d)
             /\ \E b \in Batches : d.under = under[b] /\ d.state = <<d9.st, s>>
  <2>1. PICK b \in Pending :
          d = [type |-> b, fetched |-> Fetched(b, batch[b]),
               first |-> batch[b].min, limits |-> batch[b].min .. batch[b].max - 1,
               count |-> batch[b].count, state |-> <<d9.st, s>>,
               asked |-> asked[b], under |-> under[b]]
    BY <1>8 DEF FlushFrom
  <2>2. /\ d.type = b /\ d.fetched = Fetched(b, batch[b]) /\ d.first = batch[b].min
        /\ d.limits = batch[b].min .. batch[b].max - 1 /\ d.count = batch[b].count
        /\ d.state = <<d9.st, s>> /\ d.asked = asked[b] /\ d.under = under[b]
    BY <2>1
  <2>3. b \in Batches /\ batch[b].on
    BY DEF Pending
  <2>4. ASSUME d.type \in ListTypes
        PROVE  DrawsAsked(d)
    <3>1. PICK x : x = batch[b]
      OBVIOUS
    <3>2. PICK a : a = asked[b]
      OBVIOUS
    <3>3. b \in ListTypes /\ x \in BatchRecords /\ a \in Seq(Nat) /\ Collected(b, x, a) /\ x.on
      BY <3>1, <3>2, <2>2, <2>3, <2>4, <1>1 DEF BatchInv
    <3>4. /\ x.count * PerPrimitive(b) = Len(a)
          /\ (\A k \in 1 .. Len(a) : a[k] - x.min < Width) => Fetched(b, x) = a
          /\ (\A k \in 1 .. Len(a) : a[k] < Width)
               => \A k \in 1 .. Len(a) : a[k] \in x.min .. x.max - 1
      BY <3>3, FetchedIsAsked
    <3>5. DOMAIN a = 1 .. Len(a)
      BY <3>3
    <3>6. /\ d.type = b /\ d.fetched = Fetched(b, x) /\ d.first = x.min
          /\ d.limits = x.min .. x.max - 1 /\ d.count = x.count /\ d.asked = a
      BY <3>1, <3>2, <2>2
    <3>. QED
      BY <3>4, <3>5, <3>6 DEF DrawsAsked
  <2>. QED
    BY <2>2, <2>3, <2>4
<1>. QED
  BY <1>3, <1>7, <1>8 DEF Listed

LEMMA NoFlushStep ==
  ASSUME BatchInv, UNCHANGED <<batch, asked, under>>, drawn' = {}
  PROVE  BatchInv' /\ Listed' = {} /\ \A b \in Batches : under'[b] = under[b]
BY DEF BatchInv, Listed

LEMMA DrawPrimitiveStep ==
  ASSUME BatchInv, d9 \in DeviceRecords, app \in Buffers, DrawPrimitive
  PROVE  /\ BatchInv'
         /\ \A b \in Batches : under'[b] \subseteq under[b] \cup Asking
<1>1. PICK t \in PrimTypes, start \in Starts, n \in 0 .. MaxPrimitives :
      \E junk \in IF t = "strip" /\ batch[t].offset = 1 THEN 0 .. Width - 1 ELSE {0} :
       LET b   == BatchOf(t)
           vs  == Vertices(t, start, n)
           new == IF t = "strip" THEN AppendStrip(batch[b], start, n, junk)
                  ELSE AppendList(batch[b], vs)
       IN  /\ t = "strip" => n > 0
           /\ batch' = [batch EXCEPT ![b] = Extended(new, start, n)]
           /\ asked' = [asked EXCEPT ![b] = @ \o vs]
           /\ under' = [under EXCEPT ![b] = @ \cup Asking]
  BY DEF DrawPrimitive, Extended
<1>2. PICK junk \in IF t = "strip" /\ batch[t].offset = 1 THEN 0 .. Width - 1 ELSE {0} :
       LET b   == BatchOf(t)
           vs  == Vertices(t, start, n)
           new == IF t = "strip" THEN AppendStrip(batch[b], start, n, junk)
                  ELSE AppendList(batch[b], vs)
       IN  /\ t = "strip" => n > 0
           /\ batch' = [batch EXCEPT ![b] = Extended(new, start, n)]
           /\ asked' = [asked EXCEPT ![b] = @ \o vs]
           /\ under' = [under EXCEPT ![b] = @ \cup Asking]
  BY <1>1
<1>3. PICK b : b = BatchOf(t)
  OBVIOUS
<1>4. PICK vs : vs = Vertices(t, start, n)
  OBVIOUS
<1>5. PICK new : new = IF t = "strip" THEN AppendStrip(batch[b], start, n, junk)
                       ELSE AppendList(batch[b], vs)
  OBVIOUS
<1>6. PICK y : y = Extended(new, start, n)
  OBVIOUS
<1>7. PICK u : u = Asking
  OBVIOUS
<1>8. /\ batch' = [batch EXCEPT ![b] = y]
      /\ asked' = [asked EXCEPT ![b] = @ \o vs]
      /\ under' = [under EXCEPT ![b] = @ \cup u]
  BY <1>2, <1>3, <1>4, <1>5, <1>6, <1>7, Zenon
<1>9. n \in Nat /\ start \in Nat /\ junk \in Indices /\ Width \in Nat \ {0}
  <2>1. Width \in Nat \ {0} /\ Starts \subseteq Nat /\ MaxPrimitives \in Nat
    BY BatchSizes
  <2>. QED
    BY <2>1 DEF Indices
<1>10. b \in Batches /\ (t # "strip" => b \in ListTypes) /\ (t = "strip" => b = "strip")
       /\ "strip" \notin ListTypes /\ ListTypes \subseteq Batches
  BY <1>3, <1>9, VerticesOfList DEF BatchOf, Batches, ListTypes, PrimTypes
<1>11. vs \in Seq(Nat)
  BY <1>4, <1>9, VerticesOfList, VerticesOfStrip
<1>12. PICK x : x = batch[b]
  OBVIOUS
<1>13. PICK a : a = asked[b]
  OBVIOUS
<1>14. x \in BatchRecords /\ a \in Seq(Nat) /\ x.offset <= Len(x.indices)
       /\ batch \in [Batches -> BatchRecords] /\ asked \in [Batches -> Seq(Nat)]
       /\ under \in [Batches -> SUBSET (States \X (Streams \cup {Null}))]
  BY <1>10, <1>12, <1>13 DEF BatchInv
<1>15. y \in BatchRecords /\ y.offset <= Len(y.indices) /\ y.on
       /\ (t # "strip" => Collected(b, y, a \o vs))
  <2>1. CASE t = "strip"
    BY <2>1, <1>5, <1>6, <1>9, <1>12, <1>14, AppendStripKeeps
  <2>2. CASE t # "strip"
    <3>1. b \in ListTypes /\ Collected(b, x, a)
      BY <2>2, <1>10, <1>12, <1>13 DEF BatchInv
    <3>2. /\ Len(vs) = n * PerPrimitive(b)
          /\ \A k \in 1 .. Len(vs) : start <= vs[k] /\ vs[k] <= vs[Len(vs)]
      BY <2>2, <1>3, <1>4, <1>9, VerticesOfList
    <3>3. y = Extended(AppendList(x, vs), start, n)
      BY <2>2, <1>5, <1>6, <1>12
    <3>. QED
      BY <2>2, <3>1, <3>2, <3>3, <1>9, <1>11, <1>14, AppendListCollects
  <2>. QED
    BY <2>1, <2>2
<1>16. u \in SUBSET (States \X (Streams \cup {Null}))
  BY <1>7 DEF DeviceRecords, Buffers, Asking
<1>17. /\ batch'[b] = y /\ asked'[b] = a \o vs /\ under'[b] = under[b] \cup u
       /\ \A c \in Batches : c # b => batch'[c] = batch[c] /\ asked'[c] = asked[c]
                                      /\ under'[c] = under[c]
  BY <1>8, <1>10, <1>13, <1>14
<1>18. /\ batch' \in [Batches -> BatchRecords]
       /\ asked' \in [Batches -> Seq(Nat)]
       /\ under' \in [Batches -> SUBSET (States \X (Streams \cup {Null}))]
  <2>1. a \o vs \in Seq(Nat)
    BY <1>11, <1>14, ConcatProperties
  <2>. QED
    BY <2>1, <1>8, <1>10, <1>13, <1>14, <1>15, <1>16
<1>19. \A c \in Batches : batch'[c].offset <= Len(batch'[c].indices)
                          /\ (~batch'[c].on => under'[c] = {})
  BY <1>15, <1>17 DEF BatchInv
<1>20. \A c \in ListTypes : Collected(c, batch'[c], asked'[c])
  <2>1. TAKE c \in ListTypes
  <2>2. CASE c = b
    BY <2>2, <1>10, <1>15, <1>17
  <2>3. CASE c # b
    <3>1. batch'[c] = batch[c] /\ asked'[c] = asked[c] /\ Collected(c, batch[c], asked[c])
      BY <2>3, <1>10, <1>17 DEF BatchInv
    <3>. QED
      BY <3>1
  <2>. QED
    BY <2>2, <2>3
<1>. QED
  BY <1>7, <1>10, <1>17, <1>18, <1>19, <1>20 DEF BatchInv
-----------------------------------------------------------------------------
(* The steps                                                               *)

\* What the step of an action does to the batches and draws.
BatchStep ==
  /\ BatchInv'
  /\ \A d \in Listed' : DrawsAsked(d)

LEMMA FlushIf ==
  ASSUME BatchInv, NEW p \in BOOLEAN, IF p THEN NoFlush ELSE Flush
  PROVE  /\ BatchStep
         /\ \A d \in drawn' : ~p /\ \E b \in Batches : d.under = under[b]
                                                       /\ d.state = <<d9.st, bound.stream>>
         /\ ~p => \A b \in Batches : under'[b] = {}
         /\ p => under' = under
<1>1. CASE p
  BY <1>1, NoFlushStep DEF NoFlush, BatchStep
<1>2. CASE ~p
  BY <1>2, FlushStep DEF Flush, BatchStep
<1>. QED
  BY <1>1, <1>2

\* The index buffer of the device after a flush is its own or the batcher's, if no
\* draw was pending while a block is recorded.
LEMMA FlushedBuffers ==
  ASSUME DeviceInv
  PROVE  /\ Flushed \in DeviceRecords /\ Flushed.st = d9.st
         /\ recording /\ Pending = {} => Flushed = d9
         /\ ~recording => Flushed.indices \in {d9.indices, bound.indices}
<1>1. /\ d9 = [st |-> d9.st, indices |-> d9.indices]
      /\ d9.st \in States /\ d9.indices \in IndexBuffers \cup {Null}
      /\ bound.indices \in IndexBuffers \cup {Null}
  BY DEF DeviceInv, DeviceRecords, Buffers
<1>2. CASE Flushed = d9
  BY <1>1, <1>2 DEF DeviceInv
<1>3. CASE recording /\ Pending # {} /\ Flushed = [d9 EXCEPT !.indices = Null]
  BY <1>1, <1>3 DEF DeviceRecords
<1>4. CASE ~recording /\ Flushed = [d9 EXCEPT !.indices = bound.indices]
  BY <1>1, <1>4 DEF DeviceRecords
<1>. QED
  BY <1>2, <1>3, <1>4 DEF Flushed

LEMMA InitInv ==
  Init => IInv
<1>. SUFFICES ASSUME Init PROVE IInv
  OBVIOUS
<1>1. /\ batch = [b \in Batches |-> Empty] /\ asked = [b \in Batches |-> <<>>]
      /\ under = [b \in Batches |-> {}]
  BY DEF Init
<1>2. Empty \in BatchRecords /\ Empty.offset <= Len(Empty.indices)
  <2>1. Width \in Nat \ {0}
    BY BatchSizes
  <2>. QED
    BY <2>1 DEF Empty, BatchRecords
<1>3. \A b \in ListTypes : Collected(b, Empty, <<>>)
  <2>1. TAKE b \in ListTypes
  <2>2. 0 = 0 * PerPrimitive(b)
    BY DEF PerPrimitive, ListTypes
  <2>. QED
    BY <2>2 DEF Collected, Empty
<1>4. BatchInv
  <2>1. ListTypes \subseteq Batches
    BY DEF Batches
  <2>. QED
    BY <2>1, <1>1, <1>2, <1>3 DEF BatchInv
<1>5. DeviceInv
  <2>1. d9 \in DeviceRecords /\ bound \in Buffers /\ app \in Buffers
    BY DEF Init, DeviceRecords, Buffers
  <2>2. draws \in 0 .. MaxDraws
    BY BatchSizes DEF Init
  <2>. QED
    BY <2>1, <2>2 DEF Init, DeviceInv
<1>6. StateInv
  BY <1>1 DEF Init, StateInv
<1>7. DrawnInv
  BY DEF Init, DrawnInv, DrawnUnderItsState, Listed
<1>. QED
  BY <1>4, <1>5, <1>6, <1>7 DEF IInv
\* Of an action that flushes, or not, and then changes the device: when the draws that
\* a flush leaves pending, none, and those it draws agree with the state.
LEMMA StateKept ==
  ASSUME BatchInv, StateInv, NEW p \in BOOLEAN, IF p THEN NoFlush ELSE Flush,
         spoiled' \in BOOLEAN, spoiled => spoiled',
         ~spoiled' /\ p => d9'.st = d9.st /\ bound'.stream = bound.stream,
         ~spoiled' =>
           /\ app'.stream # Null => bound'.stream = app'.stream
           /\ app'.indices # Null => bound'.indices = app'.indices /\ d9'.indices = app'.indices
  PROVE  StateInv' /\ DrawnUnderItsState'
<1>1. ASSUME ~spoiled'
      PROVE  /\ \A b \in Batches : under'[b] \subseteq {<<d9'.st, bound'.stream>>}
             /\ \A d \in drawn' : d.under \subseteq {d.state}
  <2>1. \A b \in Batches : under[b] \subseteq {<<d9.st, bound.stream>>}
    BY <1>1 DEF StateInv
  <2>2. \A d \in drawn' : d.under \subseteq {d.state}
    BY <2>1, FlushIf
  <2>3. CASE p
    BY <2>1, <2>3, <1>1, FlushIf
  <2>4. CASE ~p
    <3>1. \A b \in Batches : under'[b] = {}
      BY <2>4, FlushIf
    <3>. QED
      BY <3>1, <2>2
  <2>. QED
    BY <2>2, <2>3, <2>4
<1>. QED
  BY <1>1 DEF StateInv, DrawnUnderItsState

LEMMA StepInv ==
  ASSUME IInv, [Next]_vars
  PROVE  IInv'
<1>. USE DEF IInv, DrawnInv
<1>0. /\ d9 = [st |-> d9.st, indices |-> d9.indices]
      /\ d9.st \in States /\ d9.indices \in IndexBuffers \cup {Null}
      /\ bound = [stream |-> bound.stream, indices |-> bound.indices]
      /\ app = [stream |-> app.stream, indices |-> app.indices]
      /\ bound \in Buffers /\ app \in Buffers /\ recording \in BOOLEAN
      /\ stale \in BOOLEAN /\ spoiled \in BOOLEAN
      /\ draws \in 0 .. MaxDraws
  BY DEF DeviceInv, DeviceRecords, Buffers
<1>1. CASE DrawPrimitive
  <2>1. /\ BatchInv' /\ drawn' = {} /\ draws' = draws + 1 /\ draws < MaxDraws /\ app.stream # Null
        /\ \A b \in Batches : under'[b] \subseteq under[b] \cup Asking
        /\ UNCHANGED <<bound, d9, app, recording, stale, spoiled>>
    <3>1. d9 \in DeviceRecords /\ app \in Buffers
      BY DEF DeviceInv
    <3>. QED
      BY <3>1, <1>1, DrawPrimitiveStep DEF DrawPrimitive
  <2>2. DeviceInv'
    <3>1. draws' \in 0 .. MaxDraws
      BY <2>1, <1>0, BatchSizes
    <3>. QED
      BY <3>1, <2>1 DEF DeviceInv
  <2>3. StateInv'
    <3>1. ~spoiled => Asking \subseteq {<<d9.st, bound.stream>>}
      BY <2>1 DEF StateInv, Asking
    <3>. QED
      BY <3>1, <2>1 DEF StateInv
  <2>. QED
    BY <2>1, <2>2, <2>3 DEF Listed, DrawnUnderItsState
<1>2. PICK f : f = Flushed
  OBVIOUS
<1>3. /\ f \in DeviceRecords /\ f.st = d9.st
      /\ f = [st |-> f.st, indices |-> f.indices]
      /\ f.st \in States /\ f.indices \in IndexBuffers \cup {Null}
      /\ recording /\ Pending = {} => f = d9
      /\ ~recording => f.indices \in {d9.indices, bound.indices}
  <2>1. f \in DeviceRecords
    BY <1>2, FlushedBuffers
  <2>. QED
    BY <1>2, <2>1, FlushedBuffers DEF DeviceRecords
\* The flush leaves the buffers of the application bound, if it may.
<1>4. ~spoiled /\ (recording => Pending = {}) =>
        /\ app.stream # Null => bound.stream = app.stream
        /\ app.indices # Null => bound.indices = app.indices /\ f.indices = app.indices
  BY <1>0, <1>3 DEF StateInv
<1>5. ~spoiled =>
        /\ app.stream # Null => bound.stream = app.stream
        /\ app.indices # Null => bound.indices = app.indices /\ d9.indices = app.indices
  BY DEF StateInv
<1>6. CASE SetState
  <2>1. Flush /\ UNCHANGED <<bound, app, recording, draws, stale>>
    BY <1>6 DEF SetState
  <2>2. PICK v \in States : d9' = [f EXCEPT !.st = IF recording THEN @ ELSE v]
    BY <1>2, <1>6 DEF SetState
  <2>3. spoiled' = (spoiled \/ (recording /\ Pending # {}))
    BY <1>6 DEF SetState, SpoiledBy
  <2>4. /\ d9' \in DeviceRecords /\ d9'.indices = f.indices
    BY <1>3, <2>2 DEF DeviceRecords
  <2>5. BatchStep
    BY <2>1, FlushIf
  <2>6. DeviceInv'
    BY <1>0, <2>1, <2>3, <2>4 DEF DeviceInv
  <2>7. ~spoiled' => ~spoiled /\ (recording => Pending = {})
    BY <2>3, <1>0
  <2>8. StateInv' /\ DrawnUnderItsState'
    <3>1. ~spoiled' =>
           /\ app'.stream # Null => bound'.stream = app'.stream
           /\ app'.indices # Null => bound'.indices = app'.indices /\ d9'.indices = app'.indices
      BY <2>1, <2>4, <2>7, <1>4
    <3>2. spoiled' \in BOOLEAN /\ (spoiled => spoiled')
      BY <2>3, <1>0
    <3>3. PICK p \in BOOLEAN : p = FALSE
      OBVIOUS
    <3>4. IF p THEN NoFlush ELSE Flush
      BY <2>1, <3>3
    <3>5. ~spoiled' /\ p => d9'.st = d9.st /\ bound'.stream = bound.stream
      BY <3>3
    <3>. QED
      BY <3>1, <3>2, <3>4, <3>5, StateKept
  <2>. QED
    BY <2>5, <2>6, <2>8 DEF BatchStep
<1>7. CASE SetIfChanged
  <2>1. PICK v \in States :
          IF v = d9.st
          THEN NoFlush /\ UNCHANGED <<d9, spoiled>>
          ELSE /\ Flush
               /\ d9' = [f EXCEPT !.st = IF recording THEN @ ELSE v]
               /\ SpoiledBy(Pending # {})
    BY <1>2, <1>7 DEF SetIfChanged
  <2>2. UNCHANGED <<bound, app, recording, draws, stale>>
    BY <1>7 DEF SetIfChanged
  <2>3. PICK p \in BOOLEAN : p <=> v = d9.st
    OBVIOUS
  <2>4. IF p THEN NoFlush ELSE Flush
    BY <2>1, <2>3
  <2>5. p => d9' = d9 /\ spoiled' = spoiled
    BY <2>1, <2>3
  <2>6. ~p => /\ d9' \in DeviceRecords /\ d9'.indices = f.indices
              /\ spoiled' = (spoiled \/ (recording /\ Pending # {}))
    BY <2>1, <2>3, <1>3 DEF DeviceRecords, SpoiledBy
  <2>7. BatchStep
    BY <2>4, FlushIf
  <2>8. DeviceInv'
    <3>1. d9' \in DeviceRecords /\ spoiled' \in BOOLEAN
      BY <2>5, <2>6, <1>0 DEF DeviceInv
    <3>. QED
      BY <3>1, <1>0, <2>2 DEF DeviceInv
  <2>9. StateInv' /\ DrawnUnderItsState'
    <3>1. ~spoiled' =>
           /\ app'.stream # Null => bound'.stream = app'.stream
           /\ app'.indices # Null => bound'.indices = app'.indices /\ d9'.indices = app'.indices
      BY <2>2, <2>5, <2>6, <1>0, <1>4, <1>5
    <3>2. spoiled' \in BOOLEAN /\ (spoiled => spoiled')
      BY <2>5, <2>6, <1>0
    <3>3. ~spoiled' /\ p => d9'.st = d9.st /\ bound'.stream = bound.stream
      BY <2>2, <2>5
    <3>. QED
      BY <3>1, <3>2, <3>3, <2>4, StateKept
  <2>. QED
    BY <2>7, <2>8, <2>9 DEF BatchStep
<1>8. CASE SetStreamSource
  <2>1. PICK s \in Streams \cup {Null} :
          /\ SetStream(s)
          /\ bound' = [bound EXCEPT !.stream = s]
          /\ app' = [app EXCEPT !.stream = s]
          /\ d9' = IF bound.stream = s THEN d9 ELSE f
    BY <1>2, <1>8 DEF SetStreamSource
  <2>2. UNCHANGED <<recording, draws>> /\ stale' = FALSE /\ spoiled' = (spoiled \/ recording)
    BY <1>8 DEF SetStreamSource, SpoiledBy
  <2>3. PICK p \in BOOLEAN : p <=> bound.stream = s
    OBVIOUS
  <2>4. IF p THEN NoFlush ELSE Flush
    BY <2>1, <2>3 DEF SetStream
  <2>5. /\ bound' \in Buffers /\ bound'.stream = s /\ bound'.indices = bound.indices
        /\ app' \in Buffers /\ app'.stream = s /\ app'.indices = app.indices
    BY <2>1, <1>0 DEF Buffers
  <2>6. d9' = IF p THEN d9 ELSE f
    BY <2>1, <2>3
  <2>9. d9' \in DeviceRecords /\ d9'.st = d9.st /\ (p => d9' = d9) /\ (~p => d9' = f)
    BY <2>6, <1>0, <1>3 DEF DeviceRecords
  <2>10. BatchStep
    BY <2>4, FlushIf
  <2>11. DeviceInv'
    BY <1>0, <2>2, <2>5, <2>9 DEF DeviceInv
  <2>12. StateInv' /\ DrawnUnderItsState'
    <3>1. ~spoiled' =>
           /\ app'.stream # Null => bound'.stream = app'.stream
           /\ app'.indices # Null => bound'.indices = app'.indices /\ d9'.indices = app'.indices
      BY <2>2, <2>5, <2>6, <2>9, <1>0, <1>4, <1>5
    <3>2. spoiled' \in BOOLEAN /\ (spoiled => spoiled')
      BY <2>2, <1>0
    <3>3. ~spoiled' /\ p => d9'.st = d9.st /\ bound'.stream = bound.stream
      BY <2>3, <2>5, <2>9
    <3>. QED
      BY <3>1, <3>2, <3>3, <2>4, StateKept
  <2>. QED
    BY <2>10, <2>11, <2>12 DEF BatchStep
<1>9. CASE SetIndices
  <2>1. PICK i \in IndexBuffers \cup {Null} :
          /\ IF bound.indices = i THEN NoFlush ELSE Flush
          /\ bound' = [bound EXCEPT !.indices = i]
          /\ app' = [app EXCEPT !.indices = i]
          /\ d9' = [(IF bound.indices = i THEN d9 ELSE f) EXCEPT !.indices = i]
    BY <1>2, <1>9 DEF SetIndices
  <2>2. UNCHANGED <<recording, draws, stale, spoiled>> /\ ~recording
    BY <1>9 DEF SetIndices
  <2>3. PICK p \in BOOLEAN : p <=> bound.indices = i
    OBVIOUS
  <2>4. IF p THEN NoFlush ELSE Flush
    BY <2>1, <2>3
  <2>5. /\ bound' \in Buffers /\ bound'.stream = bound.stream /\ bound'.indices = i
        /\ app' \in Buffers /\ app'.stream = app.stream /\ app'.indices = i
    BY <2>1, <1>0 DEF Buffers
  <2>6. PICK d : d = IF p THEN d9 ELSE f
    OBVIOUS
  <2>7. d = [st |-> d9.st, indices |-> d.indices] /\ d.indices \in IndexBuffers \cup {Null}
    BY <2>6, <1>0, <1>3
  <2>8. d9' = [d EXCEPT !.indices = i]
    BY <2>1, <2>3, <2>6
  <2>9. d9' \in DeviceRecords /\ d9'.st = d9.st /\ d9'.indices = i
    BY <2>7, <2>8, <1>0 DEF DeviceRecords
  <2>10. BatchStep
    BY <2>4, FlushIf
  <2>11. DeviceInv'
    BY <1>0, <2>2, <2>5, <2>9 DEF DeviceInv
  <2>12. StateInv' /\ DrawnUnderItsState'
    <3>1. ~spoiled' =>
           /\ app'.stream # Null => bound'.stream = app'.stream
           /\ app'.indices # Null => bound'.indices = app'.indices /\ d9'.indices = app'.indices
      BY <2>2, <2>5, <2>6, <2>9, <1>0, <1>4, <1>5
    <3>2. spoiled' \in BOOLEAN /\ (spoiled => spoiled')
      BY <2>2, <1>0
    <3>3. ~spoiled' /\ p => d9'.st = d9.st /\ bound'.stream = bound.stream
      BY <2>5, <2>9
    <3>. QED
      BY <3>1, <3>2, <3>3, <2>4, StateKept
  <2>. QED
    BY <2>10, <2>11, <2>12 DEF BatchStep
<1>10. CASE DrawUP
  <2>1. PICK indexed \in BOOLEAN :
       /\ app' = IF indexed THEN [stream |-> Null, indices |-> Null]
                 ELSE [app EXCEPT !.stream = Null]
       /\ d9' = IF indexed THEN [f EXCEPT !.indices = Null] ELSE f
    BY <1>2, <1>10 DEF DrawUP
  <2>2. Flush /\ UNCHANGED <<bound, recording, draws>> /\ stale' = FALSE
    BY <1>10 DEF DrawUP
  <2>3. spoiled' = (spoiled \/ (recording /\ Pending # {}))
    BY <1>10 DEF DrawUP, SpoiledBy
  <2>4. /\ app' \in Buffers /\ app'.stream = Null /\ app'.indices \in {Null, app.indices}
        /\ d9' \in DeviceRecords
        /\ app'.indices # Null => d9'.indices = f.indices
    <3>1. CASE indexed
      BY <3>1, <2>1, <1>0, <1>3 DEF Buffers, DeviceRecords
    <3>2. CASE ~indexed
      BY <3>2, <2>1, <1>0, <1>3 DEF Buffers, DeviceRecords
    <3>. QED
      BY <3>1, <3>2
  <2>5. BatchStep
    BY <2>2, FlushIf
  <2>6. DeviceInv'
    BY <1>0, <2>2, <2>3, <2>4 DEF DeviceInv
  <2>7. StateInv' /\ DrawnUnderItsState'
    <3>1. ~spoiled' =>
           /\ app'.stream # Null => bound'.stream = app'.stream
           /\ app'.indices # Null => bound'.indices = app'.indices /\ d9'.indices = app'.indices
      BY <2>2, <2>3, <2>4, <1>0, <1>4
    <3>2. spoiled' \in BOOLEAN /\ (spoiled => spoiled')
      BY <2>3, <1>0
    <3>3. PICK p \in BOOLEAN : p = FALSE
      OBVIOUS
    <3>4. IF p THEN NoFlush ELSE Flush
      BY <2>2, <3>3
    <3>5. ~spoiled' /\ p => d9'.st = d9.st /\ bound'.stream = bound.stream
      BY <3>3
    <3>. QED
      BY <3>1, <3>2, <3>4, <3>5, StateKept
  <2>. QED
    BY <2>5, <2>6, <2>7 DEF BatchStep
<1>11. CASE ResetDevice
  <2>1. /\ Flush /\ app' = [stream |-> Null, indices |-> Null] /\ stale' = FALSE
        /\ UNCHANGED <<bound, recording, draws, spoiled>>
    BY <1>11 DEF ResetDevice
  <2>2. d9' \in DeviceRecords
    BY <1>11 DEF ResetDevice, DeviceRecords
  <2>3. app' \in Buffers /\ app'.stream = Null /\ app'.indices = Null
    BY <2>1 DEF Buffers
  <2>4. BatchStep
    BY <2>1, FlushIf
  <2>5. DeviceInv'
    BY <1>0, <2>1, <2>2, <2>3 DEF DeviceInv
  <2>6. StateInv' /\ DrawnUnderItsState'
    <3>1. PICK p \in BOOLEAN : p = FALSE
      OBVIOUS
    <3>2. IF p THEN NoFlush ELSE Flush
      BY <2>1, <3>1
    <3>3. ~spoiled' /\ p => d9'.st = d9.st /\ bound'.stream = bound.stream
      BY <3>1
    <3>4. spoiled' \in BOOLEAN /\ (spoiled => spoiled')
      BY <2>1, <1>0
    <3>. QED
      BY <2>3, <3>2, <3>3, <3>4, StateKept
  <2>. QED
    BY <2>4, <2>5, <2>6 DEF BatchStep
<1>12. CASE BeginOrEndStateBlock
  <2>1. /\ recording' = ~recording /\ drawn' = {}
        /\ UNCHANGED <<batch, bound, d9, app, draws, asked, under, stale, spoiled>>
    BY <1>12 DEF BeginOrEndStateBlock
  <2>2. BatchInv' /\ StateInv' /\ Listed' = {} /\ DrawnUnderItsState'
    BY <2>1, NoFlushStep DEF StateInv, DrawnUnderItsState
  <2>3. DeviceInv'
    BY <2>1 DEF DeviceInv
  <2>. QED
    BY <2>2, <2>3
<1>13. CASE UNCHANGED vars
  <2>1. UNCHANGED <<batch, bound, d9, app, recording, draws, asked, under, drawn, stale, spoiled>>
    BY <1>13 DEF vars
  <2>2. BatchInv' /\ DeviceInv' /\ StateInv'
    BY <2>1 DEF BatchInv, DeviceInv, StateInv
  <2>. QED
    BY <2>1, <2>2 DEF Listed, DrawnUnderItsState
<1>14. CASE SetSoftwareVertexProcessing
  <2>1. PICK v \in States :
          d9' = [d9 EXCEPT !.st = v] /\ spoiled' = (spoiled \/ (v # d9.st /\ Pending # {}))
    BY <1>14 DEF SetSoftwareVertexProcessing
  <2>2. NoFlush /\ UNCHANGED <<bound, app, recording, draws, stale>>
    BY <1>14 DEF SetSoftwareVertexProcessing
  <2>3. d9' \in DeviceRecords /\ d9'.st = v /\ d9'.indices = d9.indices
    BY <1>0, <2>1 DEF DeviceRecords
  <2>4. BatchInv' /\ Listed' = {} /\ drawn' = {} /\ \A b \in Batches : under'[b] = under[b]
    BY <2>2, NoFlushStep DEF NoFlush
  <2>5. DeviceInv'
    BY <1>0, <2>1, <2>2, <2>3 DEF DeviceInv
  <2>6. ASSUME ~spoiled' PROVE \A b \in Batches : under'[b] \subseteq {<<v, bound.stream>>}
    <3>1. CASE v = d9.st
      BY <3>1, <2>1, <2>4, <2>6 DEF StateInv
    <3>2. CASE Pending = {}
      <4>1. \A b \in Batches : under[b] = {}
        BY <3>2 DEF Pending, BatchInv
      <4>. QED
        BY <4>1, <2>4
    <3>. QED
      BY <3>1, <3>2, <2>1, <2>6
  <2>7. StateInv'
    <3>1. ~spoiled' => ~spoiled
      BY <2>1
    <3>. QED
      BY <3>1, <2>2, <2>3, <2>6, <1>5 DEF StateInv
  <2>. QED
    BY <2>4, <2>5, <2>7 DEF DrawnUnderItsState
<1>15. CASE ApplyBlock
  <2>1. Flush /\ UNCHANGED <<recording, draws>>
    BY <1>15 DEF ApplyBlock
  <2>2. spoiled' = (spoiled \/ (recording /\ Pending # {}))
    BY <1>15 DEF ApplyBlock, SpoiledBy
\* The block was recorded, held no index buffer, or one that the wrapper sets too.
  <2>3. /\ d9' \in DeviceRecords /\ stale' \in BOOLEAN
        /\ bound' \in Buffers /\ app' \in Buffers
        /\ bound'.stream = bound.stream /\ app'.stream = app.stream
        /\ \/ d9'.indices = f.indices /\ bound' = bound /\ app' = app
           \/ d9'.indices = app'.indices /\ bound'.indices = app'.indices
           \/ spoiled
    <3>1. CASE recording
      <4>1. d9' = f /\ UNCHANGED <<bound, app, stale>>
        BY <3>1, <1>2, <1>15 DEF ApplyBlock
      <4>. QED
        BY <4>1, <1>0, <1>3
    <3>2. CASE ~recording
      <4>1. PICK v \in States :
               \/ d9' = [f EXCEPT !.st = v] /\ UNCHANGED <<bound, app>>
               \/ \E i \in IndexBuffers \cup {Null} :
                    /\ d9' = [f EXCEPT !.st = v, !.indices = i]
                    /\ \/ /\ bound' = [bound EXCEPT !.indices = i]
                          /\ app' = [app EXCEPT !.indices = i]
                       \/ spoiled /\ UNCHANGED <<bound, app>>
        BY <3>2, <1>2, <1>15 DEF ApplyBlock
      <4>2. stale' \in BOOLEAN
        BY <3>2, <1>15 DEF ApplyBlock
      <4>3. CASE d9' = [f EXCEPT !.st = v] /\ UNCHANGED <<bound, app>>
        BY <4>2, <4>3, <1>0, <1>3 DEF DeviceRecords
      <4>4. ASSUME NEW i \in IndexBuffers \cup {Null},
                   d9' = [f EXCEPT !.st = v, !.indices = i],
                   bound' = [bound EXCEPT !.indices = i], app' = [app EXCEPT !.indices = i]
            PROVE  /\ d9' \in DeviceRecords /\ d9'.indices = i
                   /\ bound' \in Buffers /\ bound'.stream = bound.stream /\ bound'.indices = i
                   /\ app' \in Buffers /\ app'.stream = app.stream /\ app'.indices = i
        BY <4>4, <1>0, <1>3 DEF DeviceRecords, Buffers
      <4>5. ASSUME NEW i \in IndexBuffers \cup {Null},
                   d9' = [f EXCEPT !.st = v, !.indices = i], spoiled, UNCHANGED <<bound, app>>
            PROVE  d9' \in DeviceRecords
        BY <4>5, <1>3 DEF DeviceRecords
      <4>. QED
        BY <4>1, <4>2, <4>3, <4>4, <4>5, <1>0
    <3>. QED
      BY <3>1, <3>2
  <2>4. BatchStep
    BY <2>1, FlushIf
  <2>5. DeviceInv'
    BY <1>0, <2>1, <2>2, <2>3 DEF DeviceInv
  <2>6. ~spoiled' => ~spoiled /\ (recording => Pending = {})
    BY <2>2, <1>0
  <2>7. StateInv' /\ DrawnUnderItsState'
    <3>1. ~spoiled' =>
           /\ app'.stream # Null => bound'.stream = app'.stream
           /\ app'.indices # Null => bound'.indices = app'.indices /\ d9'.indices = app'.indices
      BY <2>3, <2>6, <1>4
    <3>2. spoiled' \in BOOLEAN /\ (spoiled => spoiled')
      BY <2>2, <1>0
    <3>3. PICK p \in BOOLEAN : p = FALSE
      OBVIOUS
    <3>4. IF p THEN NoFlush ELSE Flush
      BY <2>1, <3>3
    <3>5. ~spoiled' /\ p => d9'.st = d9.st /\ bound'.stream = bound.stream
      BY <3>3
    <3>. QED
      BY <3>1, <3>2, <3>4, <3>5, StateKept
  <2>. QED
    BY <2>4, <2>5, <2>7 DEF BatchStep
<1>. QED
  BY <1>1, <1>6, <1>7, <1>8, <1>9, <1>10, <1>11, <1>12, <1>13, <1>14, <1>15 DEF Next

-----------------------------------------------------------------------------
(* Theorems                                                                *)

\* The inductive invariant holds in every state.
THEOREM Invariance == Spec => []IInv
<1>1. IInv /\ [Next]_vars => IInv'
  BY StepInv
<1>. QED
  BY <1>1, InitInv, PTL DEF Spec

\* A flush draws, of every type of primitive list, exactly the primitives asked for
\* since the last flush, in their order, from vertices that are in the range handed to
\* D3D9, as long as the vertices of a batch are less than the width of an index apart,
\* or less than it (D3D8Batcher::DrawPrimitive and StateChange).
THEOREM DrawsWhatWasAsked == Spec => []FlushDrawsWhatWasAsked
<1>1. IInv => FlushDrawsWhatWasAsked
  <2>1. ASSUME IInv PROVE TypeOK
    <3>1. \A b \in Batches : /\ batch[b].on \in BOOLEAN
                             /\ batch[b].offset \in 0 .. Len(batch[b].indices)
                             /\ \A k \in DOMAIN batch[b].indices : batch[b].indices[k] \in 0 .. Width - 1
                             /\ batch[b].min \in Starts \cup {-1}
                             /\ batch[b].max \in 0 .. Width
                             /\ batch[b].count \in Nat
      <4>1. TAKE b \in Batches
      <4>2. PICK x : x = batch[b]
        OBVIOUS
      <4>3. /\ x.on \in BOOLEAN /\ x.indices \in Seq(Indices) /\ x.offset \in Nat
            /\ x.min \in Starts \cup {-1} /\ x.max \in 0 .. Width /\ x.count \in Nat
            /\ x.offset <= Len(x.indices)
        BY <2>1, <4>2 DEF IInv, BatchInv, BatchRecords
      <4>4. x.offset \in 0 .. Len(x.indices)
        BY <4>3
      <4>5. \A k \in DOMAIN x.indices : x.indices[k] \in 0 .. Width - 1
        <5>1. \A k \in DOMAIN x.indices : x.indices[k] \in Indices
          BY <4>3
        <5>. QED
          BY <5>1 DEF Indices
      <4>. QED
        BY <4>2, <4>3, <4>4, <4>5
    <3>. QED
      BY <2>1, <3>1 DEF IInv, DeviceInv, DeviceRecords, TypeOK
  <2>. QED
    BY <2>1 DEF IInv, DrawnInv, DrawsAsked, FlushDrawsWhatWasAsked
<1>. QED
  BY <1>1, Invariance, PTL

\* Every draw is executed under the state, and with the vertices of the stream, that the
\* application had set when it asked for it: every setter of D3D8Device and ApplyStateBlock
\* flush before they change the device, but the one of software vertex processing. Not said
\* of draws that ask for the stream of an applied block, nor once a flush or a stream came
\* into the recording of a block or that setter was called with draws pending.
THEOREM DrawsUnderTheirState == Spec => []DrawnUnderItsState
<1>1. IInv => DrawnUnderItsState
  BY DEF IInv, DrawnInv
<1>. QED
  BY <1>1, Invariance, PTL

\* Outside of a recording the device has the index buffer that the application bound last
\* or a block restored, although a flush draws with DrawIndexedPrimitiveUP, which unbinds it
\* (D3D8Batcher::StateChange, D3D8StateBlock::Apply).
THEOREM IndicesAreBound == Spec => []IndicesStayBound
<1>1. IInv => IndicesStayBound
  BY DEF IInv, StateInv, IndicesStayBound
<1>. QED
  BY <1>1, Invariance, PTL

-----------------------------------------------------------------------------
(* State blocks. The two components share what an index buffer and nothing are. *)

StateOK(s) ==
  /\ DOMAIN s = Fields9 \cup Fields8
  /\ \A f \in DOMAIN s : s[f] \in FieldType(f)

Program(h) == IF h \in Programs THEN h ELSE Null

\* The mirrors of s agree with its D3D9 state, field by field.
Mirrors(s) ==
  /\ s.vs = Program(s.vs8)
  /\ s.vs8 # Null => s.decl = s.vs8
  /\ s.ps = s.ps8 /\ s.tex = s.tex8 /\ s.idx = s.idx8

\* What a D3D9 block with values at9 and a wrapper with values at8 cover is what they
\* promise: state the wrapper knows of, and state that is handed through.
Covers(at9, at8, made) ==
  /\ PartOf(Fields9, at9) /\ PartOf(Fields8, at8)
  /\ {"decl", "vs"} \cap DOMAIN at9 # {} => "vs8" \in DOMAIN at8
  /\ "ps"  \in DOMAIN at9 => "ps8"  \in DOMAIN at8
  /\ "tex" \in DOMAIN at9 => "tex8" \in DOMAIN at8
  /\ "idx" \in DOMAIN at9 => "idx8" \in DOMAIN at8
  /\ DOMAIN made = DOMAIN at9 \cup UNION {Stands(f) : f \in DOMAIN at8}

\* The two layers hold values of the same state, the promised one.
Agree(at9, at8, made) ==
  /\ "vs8" \in DOMAIN at8 =>
       /\ at8.vs8 \in VertexHandles
       /\ "vs" \in DOMAIN at9 => at9.vs = Program(at8.vs8)
       /\ "decl" \in DOMAIN at9 /\ at8.vs8 # Null => at9.decl = at8.vs8
       /\ made.vs = Program(at8.vs8)
       /\ made.decl = IF at8.vs8 = Null THEN Bad ELSE at8.vs8
  /\ "tex8" \in DOMAIN at8 => /\ made.tex = at8.tex8
                              /\ "tex" \in DOMAIN at9 => at9.tex = at8.tex8
  /\ "ps8"  \in DOMAIN at8 => made.ps  = at8.ps8
  /\ "idx8" \in DOMAIN at8 => made.idx = at8.idx8
  /\ "rest" \in DOMAIN at9 => made.rest = at9.rest

\* Every block covers what it promises, and, as long as no block was applied that `torn'
\* excepts, the mirrors agree and so do the two layers of each block that is not excepted.
BlockInv ==
  /\ BlocksTypeOK
  /\ recorder # Null => block[recorder].captured
  /\ DOMAIN promise = Blocks
  /\ \A b \in Blocks \ DOMAIN block : promise[b] = None
  /\ \A b \in DOMAIN block : Covers(block[b].at9, block[b].at8, promise[b])
  /\ ~torn => /\ Mirrors(dev)
              /\ \A b \in DOMAIN block : block[b].captured /\ ~block[b].mixed =>
                   Agree(block[b].at9, block[b].at8, promise[b])

-----------------------------------------------------------------------------
(* What the setters do, field by field. *)

LEMMA TypesOfFields ==
  /\ FieldType("decl") = VertexHandles /\ FieldType("vs") = VertexHandles
  /\ FieldType("vs8") = VertexHandles
  /\ FieldType("ps") = PixelHandles /\ FieldType("ps8") = PixelHandles
  /\ FieldType("tex") = Textures \cup {Null} /\ FieldType("tex8") = Textures \cup {Null}
  /\ FieldType("idx") = IndexBuffers \cup {Null}
  /\ FieldType("idx8") = IndexBuffers \cup {Null}
  /\ FieldType("rest") = Rest
BY DEF FieldType

LEMMA Fields ==
  ASSUME NEW s, StateOK(s)
  PROVE  /\ s.decl \in VertexHandles /\ s.vs \in VertexHandles /\ s.vs8 \in VertexHandles
         /\ s.ps \in PixelHandles /\ s.ps8 \in PixelHandles
         /\ s.tex \in Textures \cup {Null} /\ s.tex8 \in Textures \cup {Null}
         /\ s.idx \in IndexBuffers \cup {Null} /\ s.idx8 \in IndexBuffers \cup {Null}
         /\ s.rest \in Rest
<1> DEFINE All == Fields9 \cup Fields8
<1>1. /\ "decl" \in All /\ "vs" \in All /\ "ps" \in All /\ "tex" \in All /\ "idx" \in All
      /\ "rest" \in All /\ "vs8" \in All /\ "ps8" \in All /\ "tex8" \in All /\ "idx8" \in All
  BY DEF Fields9, Fields8
<1>2. \A f \in All : s[f] \in FieldType(f)
  BY DEF StateOK
<1> QED
  BY <1>1, <1>2, TypesOfFields

LEMMA BindsFields ==
  ASSUME NEW h
  PROVE  /\ DOMAIN Binds(h) = IF h = Null THEN {"vs"} ELSE {"decl", "vs"}
         /\ Binds(h).vs = Program(h)
         /\ h # Null => Binds(h).decl = h
BY BlockAssumption DEF Binds, Program

\* r is s but for the fields F.
But(s, r, F) == DOMAIN r = DOMAIN s /\ \A f \in DOMAIN s \ F : r[f] = s[f]

LEMMA VertexShaderSet ==
  ASSUME NEW s, StateOK(s), NEW h \in VertexHandles \cup {Bad}
  PROVE  LET r == SetVertexShader(s, h)
         IN  /\ But(s, r, {"decl", "vs", "vs8"})
             /\ \/ r = s /\ (h = Bad \/ s.vs8 = h)
                \/ /\ h # Bad /\ r.vs8 = h /\ r.vs = Program(h)
                   /\ r.decl = IF h = Null THEN s.decl ELSE h
<1> DEFINE r == SetVertexShader(s, h)
           u == [s EXCEPT !.vs8 = h]
<1>1. CASE h = Bad \/ (h \notin Shaders /\ s.vs8 = h)
  BY <1>1 DEF SetVertexShader, But
<1>2. CASE ~(h = Bad \/ (h \notin Shaders /\ s.vs8 = h))
  <2>1. r = Over(u, Binds(h))
    BY <1>2 DEF SetVertexShader
  <2>2. DOMAIN u = DOMAIN s /\ u["vs8"] = h /\ \A f \in DOMAIN s \ {"vs8"} : u[f] = s[f]
    BY DEF StateOK, Fields8, Fields9
  <2>3. {"decl", "vs", "vs8"} \subseteq DOMAIN s
    BY DEF StateOK, Fields8, Fields9
  <2>4. /\ DOMAIN Binds(h) = IF h = Null THEN {"vs"} ELSE {"decl", "vs"}
        /\ Binds(h).vs = Program(h)
        /\ h # Null => Binds(h).decl = h
    BY BindsFields
  <2> HIDE DEF u
  <2>5. DOMAIN r = DOMAIN s
    BY <2>1, <2>2, <2>3, <2>4 DEF Over
  <2>6. \A f \in DOMAIN s : r[f] = IF f \in DOMAIN Binds(h) THEN Binds(h)[f] ELSE u[f]
    BY <2>1, <2>2, <2>3, <2>4 DEF Over
  <2> HIDE DEF r
  <2>7. But(s, r, {"decl", "vs", "vs8"})
    BY <2>2, <2>4, <2>5, <2>6 DEF But
  <2>8. r.vs8 = h
    BY <2>2, <2>3, <2>4, <2>6
  <2>9. r.vs = Program(h)
    BY <2>3, <2>4, <2>6
  <2>10. r.decl = IF h = Null THEN s.decl ELSE h
    BY <2>2, <2>3, <2>4, <2>6
  <2> QED
    BY <1>2, <2>7, <2>8, <2>9, <2>10 DEF r
<1> QED
  BY <1>1, <1>2

LEMMA OtherSet ==
  ASSUME NEW s, StateOK(s), NEW x
  PROVE  /\ But(s, SetPixelShader(s, x), {"ps", "ps8"})
         /\ LET r == SetPixelShader(s, x)
            IN  IF x \in alive \cup {Null} THEN r.ps = x /\ r.ps8 = x ELSE r = s
         /\ But(s, SetTexture(s, x), {"tex", "tex8"})
         /\ LET r == SetTexture(s, x)
            IN  IF x = s.tex8 THEN r = s ELSE r.tex = x /\ r.tex8 = x
         /\ But(s, WithIndices(s, x), {"idx", "idx8"})
         /\ WithIndices(s, x).idx = x /\ WithIndices(s, x).idx8 = x
<1>1. {"ps", "ps8", "tex", "tex8", "idx", "idx8"} \subseteq DOMAIN s
  BY DEF StateOK, Fields8, Fields9
<1>2. /\ But(s, SetPixelShader(s, x), {"ps", "ps8"})
      /\ LET r == SetPixelShader(s, x)
         IN  IF x \in alive \cup {Null} THEN r.ps = x /\ r.ps8 = x ELSE r = s
  BY <1>1 DEF SetPixelShader, But
<1>3. /\ But(s, SetTexture(s, x), {"tex", "tex8"})
      /\ LET r == SetTexture(s, x)
         IN  IF x = s.tex8 THEN r = s ELSE r.tex = x /\ r.tex8 = x
  BY <1>1 DEF SetTexture, But
<1>4. /\ But(s, WithIndices(s, x), {"idx", "idx8"})
      /\ WithIndices(s, x).idx = x /\ WithIndices(s, x).idx8 = x
  BY <1>1 DEF WithIndices, But
<1> QED
  BY <1>2, <1>3, <1>4

\* A state is one still with values of their types in some fields.
LEMMA StateBut ==
  ASSUME NEW s, StateOK(s), NEW r, NEW F, But(s, r, F), \A f \in F : r[f] \in FieldType(f)
  PROVE  StateOK(r)
BY DEF StateOK, But

-----------------------------------------------------------------------------
(* Applying a block. *)

\* What Apply leaves: its D3D9 part is in force but where a setter of the second layer has
\* set something else.
LEMMA AppliedFields ==
  ASSUME alive \subseteq PixelShaders, NEW s, StateOK(s),
         NEW at9, NEW at8, PartOf(Fields9, at9), PartOf(Fields8, at8)
  PROVE  LET r  == Applied(s, at9, at8)
             s0 == Over(s, Sent(at9))
         IN  /\ StateOK(s0) /\ StateOK(r)
             /\ r.rest = s0.rest
             /\ IF "vs8" \in DOMAIN at8
                THEN \/ /\ r.vs8 = s0.vs8 /\ r.vs = s0.vs /\ r.decl = s0.decl
                        /\ at8.vs8 \in {Bad, s0.vs8}
                     \/ /\ at8.vs8 # Bad /\ r.vs8 = at8.vs8 /\ r.vs = Program(at8.vs8)
                        /\ r.decl = IF at8.vs8 = Null THEN s0.decl ELSE at8.vs8
                ELSE r.vs8 = s0.vs8 /\ r.vs = s0.vs /\ r.decl = s0.decl
             /\ IF "ps8" \in DOMAIN at8 /\ at8.ps8 \in alive \cup {Null}
                THEN r.ps = at8.ps8 /\ r.ps8 = at8.ps8
                ELSE r.ps = s0.ps /\ r.ps8 = s0.ps8
             /\ IF "tex8" \in DOMAIN at8 /\ at8.tex8 # s0.tex8
                THEN r.tex = at8.tex8 /\ r.tex8 = at8.tex8
                ELSE r.tex = s0.tex /\ r.tex8 = s0.tex8
             /\ IF "idx8" \in DOMAIN at8
                THEN r.idx = at8.idx8 /\ r.idx8 = at8.idx8
                ELSE r.idx = s0.idx /\ r.idx8 = s0.idx8
<1> DEFINE s0 == Over(s, Sent(at9))
           s1 == IF "vs8"  \in DOMAIN at8 THEN SetVertexShader(s0, at8.vs8) ELSE s0
           s2 == IF "ps8"  \in DOMAIN at8 THEN SetPixelShader(s1, at8.ps8)  ELSE s1
           s3 == IF "tex8" \in DOMAIN at8 THEN SetTexture(s2, at8.tex8)     ELSE s2
           s4 == IF "idx8" \in DOMAIN at8 THEN WithIndices(s3, at8.idx8)     ELSE s3
<1>1. Applied(s, at9, at8) = s4
  BY DEF Applied
<1>2. StateOK(s0)
  <2>1. DOMAIN at9 \subseteq Fields9 /\ \A f \in DOMAIN at9 : at9[f] \in FieldType(f)
    BY DEF PartOf, Values, Fields9
  <2>2. DOMAIN Sent(at9) \subseteq DOMAIN at9 /\ \A f \in DOMAIN Sent(at9) : Sent(at9)[f] = at9[f]
    BY DEF Sent, On
  <2>3. \A f \in DOMAIN s0 : s0[f] = IF f \in DOMAIN Sent(at9) THEN Sent(at9)[f] ELSE s[f]
    BY DEF Over
  <2>4. DOMAIN s0 = Fields9 \cup Fields8
    BY <2>1, <2>2 DEF Over, StateOK
  <2> QED
    BY <2>1, <2>2, <2>3, <2>4 DEF StateOK
<1>3. /\ "vs8" \in DOMAIN at8 => at8.vs8 \in VertexHandles \cup {Bad}
      /\ "tex8" \in DOMAIN at8 => at8.tex8 \in Textures \cup {Null}
      /\ "idx8" \in DOMAIN at8 => at8.idx8 \in IndexBuffers \cup {Null}
  BY DEF PartOf, Values, FieldType
<1>4. DOMAIN s0 = {"decl", "vs", "ps", "tex", "idx", "rest", "vs8", "ps8", "tex8", "idx8"}
  BY <1>2 DEF StateOK, Fields8, Fields9
<1> HIDE DEF s0
<1>5. /\ But(s0, s1, {"decl", "vs", "vs8"})
      /\ IF "vs8" \in DOMAIN at8
         THEN \/ s1 = s0 /\ at8.vs8 \in {Bad, s0.vs8}
              \/ /\ at8.vs8 # Bad /\ s1.vs8 = at8.vs8 /\ s1.vs = Program(at8.vs8)
                 /\ s1.decl = IF at8.vs8 = Null THEN s0.decl ELSE at8.vs8
         ELSE s1 = s0
  <2>1. CASE "vs8" \in DOMAIN at8
    BY <1>2, <1>3, <2>1, VertexShaderSet
  <2>2. CASE "vs8" \notin DOMAIN at8
    BY <2>2 DEF But
  <2> QED
    BY <2>1, <2>2
<1> HIDE DEF s1
<1>6. StateOK(s1)
  <2>1. \A h \in VertexHandles : Program(h) \in VertexHandles
    BY DEF Program, VertexHandles
  <2>2. s1.decl \in VertexHandles /\ s1.vs \in VertexHandles /\ s1.vs8 \in VertexHandles
    BY <1>2, <1>3, <1>5, <2>1, Fields
  <2> QED
    BY <1>2, <1>5, <2>2, StateBut, TypesOfFields
<1>7. /\ But(s1, s2, {"ps", "ps8"})
      /\ IF "ps8" \in DOMAIN at8 /\ at8.ps8 \in alive \cup {Null}
         THEN s2.ps = at8.ps8 /\ s2.ps8 = at8.ps8 ELSE s2 = s1
  BY <1>6, OtherSet DEF But
<1> HIDE DEF s2
<1>8. StateOK(s2)
  <2>1. s2.ps \in PixelHandles /\ s2.ps8 \in PixelHandles
    BY <1>6, <1>7, Fields DEF PixelHandles
  <2> QED
    BY <1>6, <1>7, <2>1, StateBut, TypesOfFields
<1>9. /\ But(s2, s3, {"tex", "tex8"})
      /\ IF "tex8" \in DOMAIN at8 /\ at8.tex8 # s2.tex8
         THEN s3.tex = at8.tex8 /\ s3.tex8 = at8.tex8 ELSE s3 = s2
  BY <1>8, OtherSet DEF But
<1> HIDE DEF s3
<1>10. StateOK(s3)
  <2>1. s3.tex \in Textures \cup {Null} /\ s3.tex8 \in Textures \cup {Null}
    BY <1>3, <1>8, <1>9, Fields
  <2> QED
    BY <1>8, <1>9, <2>1, StateBut, TypesOfFields
<1>11. /\ But(s3, s4, {"idx", "idx8"})
       /\ IF "idx8" \in DOMAIN at8 THEN s4.idx = at8.idx8 /\ s4.idx8 = at8.idx8 ELSE s4 = s3
  BY <1>10, OtherSet DEF But
<1> HIDE DEF s4
<1>12. StateOK(s4)
  <2>1. s4.idx \in IndexBuffers \cup {Null} /\ s4.idx8 \in IndexBuffers \cup {Null}
    BY <1>3, <1>10, <1>11, Fields
  <2> QED
    BY <1>10, <1>11, <2>1, StateBut, TypesOfFields
<1>13. s4.rest = s0.rest
  BY <1>4, <1>5, <1>7, <1>9, <1>11 DEF But
<1>14. s4.vs8 = s1.vs8 /\ s4.vs = s1.vs /\ s4.decl = s1.decl
  BY <1>4, <1>5, <1>7, <1>9, <1>11 DEF But
<1>15. s1.ps = s0.ps /\ s1.ps8 = s0.ps8 /\ s4.ps = s2.ps /\ s4.ps8 = s2.ps8
  BY <1>4, <1>5, <1>7, <1>9, <1>11 DEF But
<1>16. s2.tex = s0.tex /\ s2.tex8 = s0.tex8 /\ s4.tex = s3.tex /\ s4.tex8 = s3.tex8
  BY <1>4, <1>5, <1>7, <1>9, <1>11 DEF But
<1>17. s3.idx = s0.idx /\ s3.idx8 = s0.idx8
  BY <1>4, <1>5, <1>7, <1>9 DEF But
<1>18. /\ StateOK(s0) /\ StateOK(s4)
       /\ s4.rest = s0.rest
       /\ IF "vs8" \in DOMAIN at8
          THEN \/ /\ s4.vs8 = s0.vs8 /\ s4.vs = s0.vs /\ s4.decl = s0.decl
                  /\ at8.vs8 \in {Bad, s0.vs8}
               \/ /\ at8.vs8 # Bad /\ s4.vs8 = at8.vs8 /\ s4.vs = Program(at8.vs8)
                  /\ s4.decl = IF at8.vs8 = Null THEN s0.decl ELSE at8.vs8
          ELSE s4.vs8 = s0.vs8 /\ s4.vs = s0.vs /\ s4.decl = s0.decl
  BY <1>2, <1>5, <1>12, <1>13, <1>14
<1>19. /\ IF "ps8" \in DOMAIN at8 /\ at8.ps8 \in alive \cup {Null}
          THEN s4.ps = at8.ps8 /\ s4.ps8 = at8.ps8
          ELSE s4.ps = s0.ps /\ s4.ps8 = s0.ps8
       /\ IF "tex8" \in DOMAIN at8 /\ at8.tex8 # s0.tex8
          THEN s4.tex = at8.tex8 /\ s4.tex8 = at8.tex8
          ELSE s4.tex = s0.tex /\ s4.tex8 = s0.tex8
       /\ IF "idx8" \in DOMAIN at8
          THEN s4.idx = at8.idx8 /\ s4.idx8 = at8.idx8
          ELSE s4.idx = s0.idx /\ s4.idx8 = s0.idx8
  BY <1>7, <1>9, <1>11, <1>15, <1>16, <1>17
<1> QED
  BY <1>1, <1>18, <1>19 DEF s0

\* The D3D9 block skips a declaration that is null and sets everything else it has.
LEMMA SentFields ==
  ASSUME NEW s, StateOK(s), NEW at9
  PROVE  LET s0 == Over(s, Sent(at9))
             Kept(f) == IF f \in DOMAIN at9 THEN at9[f] ELSE s[f]
         IN  /\ s0.decl = IF "decl" \in DOMAIN at9 /\ at9.decl # Null THEN at9.decl ELSE s.decl
             /\ s0.vs = Kept("vs") /\ s0.ps = Kept("ps") /\ s0.tex = Kept("tex")
             /\ s0.idx = Kept("idx") /\ s0.rest = Kept("rest")
             /\ DOMAIN at9 \subseteq Fields9 =>
                  s0.vs8 = s.vs8 /\ s0.ps8 = s.ps8 /\ s0.tex8 = s.tex8 /\ s0.idx8 = s.idx8
<1> DEFINE s0 == Over(s, Sent(at9))
<1>1. DOMAIN Sent(at9) = {f \in DOMAIN at9 : f = "decl" => at9[f] # Null}
  BY DEF Sent, On
<1>2. \A f \in DOMAIN Sent(at9) : Sent(at9)[f] = at9[f]
  BY DEF Sent, On
<1>3. \A f \in DOMAIN s : s0[f] = IF f \in DOMAIN Sent(at9) THEN at9[f] ELSE s[f]
  BY <1>2 DEF Over
<1>4. DOMAIN s = {"decl", "vs", "ps", "tex", "idx", "rest", "vs8", "ps8", "tex8", "idx8"}
  BY DEF StateOK, Fields8, Fields9
<1> HIDE DEF s0
<1>5. s0.decl = IF "decl" \in DOMAIN at9 /\ at9.decl # Null THEN at9.decl ELSE s.decl
  BY <1>1, <1>3, <1>4
<1>6. \A f \in {"vs", "ps", "tex", "idx", "rest", "vs8", "ps8", "tex8", "idx8"} :
         s0[f] = IF f \in DOMAIN at9 THEN at9[f] ELSE s[f]
  BY <1>1, <1>3, <1>4
<1>7. DOMAIN at9 \subseteq Fields9 =>
        \A f \in {"vs8", "ps8", "tex8", "idx8"} : f \notin DOMAIN at9
  BY DEF Fields9
<1> QED
  BY <1>5, <1>6, <1>7 DEF s0

\* Applying values that agree restores what they promise and leaves mirrors that agree.
LEMMA AppliedRestores ==
  ASSUME alive \subseteq PixelShaders, NEW s, StateOK(s), Mirrors(s),
         NEW at9, NEW at8, NEW made, Covers(at9, at8, made), Agree(at9, at8, made),
         "ps8" \in DOMAIN at8 => at8.ps8 \in alive \cup {Null}
  PROVE  LET r == Applied(s, at9, at8)
         IN  Mirrors(r) /\ \A f \in DOMAIN made : made[f] \in {Bad, r[f]}
<1> DEFINE r  == Applied(s, at9, at8)
           s0 == Over(s, Sent(at9))
           V8 == "vs8" \in DOMAIN at8
<1>1. PartOf(Fields9, at9) /\ PartOf(Fields8, at8) /\ DOMAIN at9 \subseteq Fields9
  BY DEF Covers, PartOf
<1>2. /\ StateOK(r)
      /\ r.rest = s0.rest
      /\ IF V8
         THEN \/ /\ r.vs8 = s0.vs8 /\ r.vs = s0.vs /\ r.decl = s0.decl
                 /\ at8.vs8 \in {Bad, s0.vs8}
              \/ /\ at8.vs8 # Bad /\ r.vs8 = at8.vs8 /\ r.vs = Program(at8.vs8)
                 /\ r.decl = IF at8.vs8 = Null THEN s0.decl ELSE at8.vs8
         ELSE r.vs8 = s0.vs8 /\ r.vs = s0.vs /\ r.decl = s0.decl
      /\ IF "ps8" \in DOMAIN at8 /\ at8.ps8 \in alive \cup {Null}
         THEN r.ps = at8.ps8 /\ r.ps8 = at8.ps8
         ELSE r.ps = s0.ps /\ r.ps8 = s0.ps8
      /\ IF "tex8" \in DOMAIN at8 /\ at8.tex8 # s0.tex8
         THEN r.tex = at8.tex8 /\ r.tex8 = at8.tex8
         ELSE r.tex = s0.tex /\ r.tex8 = s0.tex8
      /\ IF "idx8" \in DOMAIN at8
         THEN r.idx = at8.idx8 /\ r.idx8 = at8.idx8
         ELSE r.idx = s0.idx /\ r.idx8 = s0.idx8
  BY <1>1, AppliedFields
<1>3. /\ s0.decl = IF "decl" \in DOMAIN at9 /\ at9.decl # Null THEN at9.decl ELSE s.decl
      /\ s0.vs = (IF "vs" \in DOMAIN at9 THEN at9.vs ELSE s.vs)
      /\ s0.ps = (IF "ps" \in DOMAIN at9 THEN at9.ps ELSE s.ps)
      /\ s0.tex = (IF "tex" \in DOMAIN at9 THEN at9.tex ELSE s.tex)
      /\ s0.idx = (IF "idx" \in DOMAIN at9 THEN at9.idx ELSE s.idx)
      /\ s0.rest = (IF "rest" \in DOMAIN at9 THEN at9.rest ELSE s.rest)
      /\ s0.vs8 = s.vs8 /\ s0.ps8 = s.ps8 /\ s0.tex8 = s.tex8 /\ s0.idx8 = s.idx8
  BY <1>1, SentFields
<1> HIDE DEF r, s0
<1>4. Bad \notin VertexHandles
  BY BlockAssumption DEF VertexHandles
<1>5. /\ r.vs = Program(r.vs8) /\ (r.vs8 # Null => r.decl = r.vs8)
      /\ V8 => /\ made.vs = r.vs
               /\ made.decl \in {Bad, r.decl}
  <2>1. CASE V8
    <3>1. r.vs8 = at8.vs8
      BY <1>2, <1>4, <2>1 DEF Agree
    <3>2. r.vs = Program(at8.vs8)
      BY <1>2, <1>3, <1>4, <2>1 DEF Agree, Mirrors
    <3>3. at8.vs8 # Null => r.decl = at8.vs8
      BY <1>2, <1>3, <1>4, <2>1 DEF Agree, Mirrors
    <3> QED
      BY <2>1, <3>1, <3>2, <3>3 DEF Agree
  <2>2. CASE ~V8
    <3>1. "decl" \notin DOMAIN at9 /\ "vs" \notin DOMAIN at9
      BY <2>2 DEF Covers
    <3> QED
      BY <1>2, <1>3, <2>2, <3>1 DEF Mirrors
  <2> QED
    BY <2>1, <2>2
<1>6. r.ps = r.ps8 /\ ("ps8" \in DOMAIN at8 => made.ps = r.ps)
  BY <1>2, <1>3 DEF Covers, Agree, Mirrors
<1>7. r.tex = r.tex8 /\ ("tex8" \in DOMAIN at8 => made.tex = r.tex)
  BY <1>2, <1>3 DEF Covers, Agree, Mirrors
<1>8. r.idx = r.idx8 /\ ("idx8" \in DOMAIN at8 => made.idx = r.idx)
  BY <1>2, <1>3 DEF Covers, Agree, Mirrors
<1>9. "rest" \in DOMAIN at9 => made.rest = r.rest
  BY <1>2, <1>3 DEF Agree
<1>10. ASSUME NEW f \in DOMAIN made PROVE made[f] \in {Bad, r[f]}
  <2>1. \/ f \in {"decl", "vs"} /\ V8
        \/ f = "ps" /\ "ps8" \in DOMAIN at8
        \/ f = "tex" /\ "tex8" \in DOMAIN at8
        \/ f = "idx" /\ "idx8" \in DOMAIN at8
        \/ f = "rest" /\ "rest" \in DOMAIN at9
    <3>1. CASE f \in DOMAIN at9
      BY <1>1, <3>1 DEF Covers, Fields9
    <3>2. CASE f \in UNION {Stands(g) : g \in DOMAIN at8}
      <4>1. PICK g \in DOMAIN at8 : f \in Stands(g)
        BY <3>2
      <4>2. g \in {"vs8", "ps8", "tex8", "idx8"}
        BY <1>1 DEF PartOf, Fields8
      <4> QED
        BY <4>1, <4>2 DEF Stands
    <3> QED
      BY <3>1, <3>2 DEF Covers
  <2> QED
    BY <1>5, <1>6, <1>7, <1>8, <1>9, <2>1
<1> QED
  BY <1>5, <1>6, <1>7, <1>8, <1>10 DEF Mirrors, r

-----------------------------------------------------------------------------
(* Capturing and recording. *)

\* A state whose mirrors agree gives values that agree.
LEMMA CapturedAgrees ==
  ASSUME NEW s, StateOK(s), Mirrors(s), NEW F9, NEW F8,
         F9 \subseteq Fields9, F8 \subseteq Fields8
  PROVE  Agree(On(F9, s), On(F8, s), Promised(F9, F8, s))
<1> DEFINE at9 == On(F9, s)
           at8 == On(F8, s)
           u   == IF s.vs8 = Null THEN [s EXCEPT !.decl = Bad] ELSE s
           made == Promised(F9, F8, s)
<1>1. DOMAIN at9 = F9 /\ DOMAIN at8 = F8
  BY DEF On
<1>2. (\A f \in F9 : at9[f] = s[f]) /\ (\A f \in F8 : at8[f] = s[f])
  BY DEF On
<1>3. \A f \in F9 \cup UNION {Stands(g) : g \in F8} : made[f] = u[f]
  BY DEF Promised, On
<1>4. /\ "vs8" \in F8 => made.vs = u.vs /\ made.decl = u.decl
      /\ "ps8" \in F8 => made.ps = u.ps
      /\ "tex8" \in F8 => made.tex = u.tex
      /\ "idx8" \in F8 => made.idx = u.idx
      /\ "rest" \in F9 => made.rest = u.rest
  <2>1. /\ "decl" \in Stands("vs8") /\ "vs" \in Stands("vs8") /\ "ps" \in Stands("ps8")
        /\ "tex" \in Stands("tex8") /\ "idx" \in Stands("idx8")
    BY DEF Stands
  <2> QED
    BY <1>3, <2>1
<1>5. /\ u.vs = s.vs /\ u.ps = s.ps /\ u.tex = s.tex /\ u.idx = s.idx /\ u.rest = s.rest
      /\ u.decl = IF s.vs8 = Null THEN Bad ELSE s.decl
  BY DEF StateOK, Fields8, Fields9
<1> HIDE DEF at9, at8, u, made
<1>6. s.vs8 \in VertexHandles
  BY Fields
<1>7. Agree(at9, at8, made)
  BY <1>1, <1>2, <1>4, <1>5, <1>6 DEF Agree, Mirrors
<1> QED
  BY <1>7 DEF at9, at8, made

LEMMA OverFields ==
  ASSUME NEW f, NEW g
  PROVE  /\ DOMAIN Over(f, g) = DOMAIN f \cup DOMAIN g
         /\ \A x \in DOMAIN g : Over(f, g)[x] = g[x]
         /\ \A x \in DOMAIN f \ DOMAIN g : Over(f, g)[x] = f[x]
BY DEF Over

LEMMA OverPart ==
  ASSUME NEW F, NEW f, NEW g, PartOf(F, f), PartOf(F, g)
  PROVE  PartOf(F, Over(f, g))
<1> DEFINE o == Over(f, g)
<1>1. /\ DOMAIN o = DOMAIN f \cup DOMAIN g
      /\ \A x \in DOMAIN g : o[x] = g[x]
      /\ \A x \in DOMAIN f \ DOMAIN g : o[x] = f[x]
  BY OverFields
<1> HIDE DEF o
<1>2. PartOf(F, o)
  BY <1>1 DEF PartOf
<1> QED
  BY <1>2 DEF o

\* Values recorded into a block cover, with what it has, what both promise.
LEMMA RecordingCovers ==
  ASSUME NEW at9, NEW at8, NEW made, Covers(at9, at8, made),
         NEW in9, NEW in8, NEW means, Covers(in9, in8, means)
  PROVE  Covers(Over(at9, in9), Over(at8, in8), Over(made, means))
<1> DEFINE o9 == Over(at9, in9)
           o8 == Over(at8, in8)
           om == Over(made, means)
<1>1. PartOf(Fields9, o9) /\ PartOf(Fields8, o8)
  BY OverPart DEF Covers
<1>2. /\ DOMAIN o9 = DOMAIN at9 \cup DOMAIN in9 /\ DOMAIN o8 = DOMAIN at8 \cup DOMAIN in8
      /\ DOMAIN om = DOMAIN made \cup DOMAIN means
  BY OverFields
<1> HIDE DEF o9, o8, om
<1>3. \A x : (\E f \in DOMAIN o8 : x \in Stands(f)) <=>
             \/ \E f \in DOMAIN at8 : x \in Stands(f)
             \/ \E f \in DOMAIN in8 : x \in Stands(f)
  BY <1>2
<1>4. DOMAIN om = DOMAIN o9 \cup UNION {Stands(f) : f \in DOMAIN o8}
  <2>1. \A x : x \in DOMAIN made <=> x \in DOMAIN at9 \/ \E f \in DOMAIN at8 : x \in Stands(f)
    BY DEF Covers
  <2>2. \A x : x \in DOMAIN means <=> x \in DOMAIN in9 \/ \E f \in DOMAIN in8 : x \in Stands(f)
    BY DEF Covers
  <2>3. \A x : x \in DOMAIN om <=> x \in DOMAIN o9 \/ \E f \in DOMAIN o8 : x \in Stands(f)
    BY <1>2, <1>3, <2>1, <2>2
  <2> QED
    BY <2>3
<1>5. Covers(o9, o8, om)
  BY <1>1, <1>2, <1>4 DEF Covers
<1> QED
  BY <1>5 DEF o9, o8, om

\* No value of the wrapper meets one of the D3D9 block that stands for other state.
Unmixed(at9, in9, in8, means) ==
  \A f \in DOMAIN in8 \cap {"vs8", "tex8"} :
    \A g \in (Stands(f) \cap DOMAIN at9) \ DOMAIN in9 : means[g] = Bad

LEMMA RecordingAgrees ==
  ASSUME NEW at9, NEW at8, NEW made, Covers(at9, at8, made), Agree(at9, at8, made),
         NEW in9, NEW in8, NEW means, Covers(in9, in8, means), Agree(in9, in8, means),
         Unmixed(at9, in9, in8, means)
  PROVE  Agree(Over(at9, in9), Over(at8, in8), Over(made, means))
<1> DEFINE o9 == Over(at9, in9)
           o8 == Over(at8, in8)
           om == Over(made, means)
<1>1. /\ DOMAIN o9 = DOMAIN at9 \cup DOMAIN in9
      /\ \A x \in DOMAIN in9 : o9[x] = in9[x]
      /\ \A x \in DOMAIN at9 \ DOMAIN in9 : o9[x] = at9[x]
  BY OverFields
<1>2. /\ DOMAIN o8 = DOMAIN at8 \cup DOMAIN in8
      /\ \A x \in DOMAIN in8 : o8[x] = in8[x]
      /\ \A x \in DOMAIN at8 \ DOMAIN in8 : o8[x] = at8[x]
  BY OverFields
<1>3. /\ DOMAIN om = DOMAIN made \cup DOMAIN means
      /\ \A x \in DOMAIN means : om[x] = means[x]
      /\ \A x \in DOMAIN made \ DOMAIN means : om[x] = made[x]
  BY OverFields
<1> HIDE DEF o9, o8, om
<1>4. /\ Stands("vs8") = {"decl", "vs"} /\ Stands("ps8") = {"ps"}
      /\ Stands("tex8") = {"tex"} /\ Stands("idx8") = {"idx"}
  BY DEF Stands
<1>5. \A c9, c8, m : Covers(c9, c8, m) =>
        /\ "decl" \in DOMAIN m <=> "vs8" \in DOMAIN c8
        /\ "vs" \in DOMAIN m <=> "vs8" \in DOMAIN c8
        /\ "ps" \in DOMAIN m <=> "ps8" \in DOMAIN c8
        /\ "tex" \in DOMAIN m <=> "tex8" \in DOMAIN c8
        /\ "idx" \in DOMAIN m <=> "idx8" \in DOMAIN c8
        /\ "rest" \in DOMAIN m <=> "rest" \in DOMAIN c9
  <2> SUFFICES ASSUME NEW c9, NEW c8, NEW m, Covers(c9, c8, m)
               PROVE  /\ "decl" \in DOMAIN m <=> "vs8" \in DOMAIN c8
                      /\ "vs" \in DOMAIN m <=> "vs8" \in DOMAIN c8
                      /\ "ps" \in DOMAIN m <=> "ps8" \in DOMAIN c8
                      /\ "tex" \in DOMAIN m <=> "tex8" \in DOMAIN c8
                      /\ "idx" \in DOMAIN m <=> "idx8" \in DOMAIN c8
                      /\ "rest" \in DOMAIN m <=> "rest" \in DOMAIN c9
    OBVIOUS
  <2>1. DOMAIN c8 \subseteq {"vs8", "ps8", "tex8", "idx8"}
    BY DEF Covers, PartOf, Fields8
  <2>2. \A x : x \in DOMAIN m <=> x \in DOMAIN c9 \/ \E f \in DOMAIN c8 : x \in Stands(f)
    BY DEF Covers
  <2> QED
    BY <1>4, <2>1, <2>2 DEF Covers
<1>6. \A f \in DOMAIN in8 \cap {"vs8", "tex8"} :
        \A g \in (Stands(f) \cap DOMAIN at9) \ DOMAIN in9 : means[g] = Bad
  BY DEF Unmixed
<1>7. /\ "vs8" \in DOMAIN o8 =>
           /\ o8.vs8 \in VertexHandles
           /\ "vs" \in DOMAIN o9 => o9.vs = Program(o8.vs8)
           /\ "decl" \in DOMAIN o9 /\ o8.vs8 # Null => o9.decl = o8.vs8
           /\ om.vs = Program(o8.vs8)
           /\ om.decl = IF o8.vs8 = Null THEN Bad ELSE o8.vs8
  <2>1. CASE "vs8" \in DOMAIN in8
    <3>1. o8.vs8 = in8.vs8 /\ in8.vs8 \in VertexHandles
      BY <1>2, <2>1 DEF Agree
    <3>2. om.vs = means.vs /\ om.decl = means.decl
      BY <1>3, <1>5, <2>1
    <3>3. /\ means.vs = Program(in8.vs8)
          /\ means.decl = IF in8.vs8 = Null THEN Bad ELSE in8.vs8
      BY <2>1 DEF Agree
    <3>4. Program(in8.vs8) # Bad /\ in8.vs8 # Bad
      BY <3>1, BlockAssumption DEF Program, VertexHandles
    <3>5. "vs" \in DOMAIN o9 => "vs" \in DOMAIN in9
      BY <1>1, <1>4, <1>6, <2>1, <3>3, <3>4
    <3>6. "decl" \in DOMAIN o9 /\ in8.vs8 # Null => "decl" \in DOMAIN in9
      BY <1>1, <1>4, <1>6, <2>1, <3>3, <3>4
    <3> QED
      BY <1>1, <2>1, <3>1, <3>2, <3>3, <3>5, <3>6 DEF Agree
  <2>2. CASE "vs8" \notin DOMAIN in8
    <3>1. "vs" \notin DOMAIN in9 /\ "decl" \notin DOMAIN in9
      BY <2>2 DEF Covers
    <3>2. "vs" \notin DOMAIN means /\ "decl" \notin DOMAIN means
      BY <1>5, <2>2
    <3>3. "vs8" \in DOMAIN at8 => "vs" \in DOMAIN made /\ "decl" \in DOMAIN made
      BY <1>5
    <3> QED
      BY <1>1, <1>2, <1>3, <2>2, <3>1, <3>2, <3>3 DEF Agree
  <2> QED
    BY <2>1, <2>2
<1>8. "tex8" \in DOMAIN o8 => /\ om.tex = o8.tex8
                              /\ "tex" \in DOMAIN o9 => o9.tex = o8.tex8
  <2>1. CASE "tex8" \in DOMAIN in8
    <3>1. o8.tex8 = in8.tex8 /\ means.tex = in8.tex8
      BY <1>2, <2>1 DEF Agree
    <3>2. in8.tex8 # Bad
      BY <2>1, BlockAssumption DEF Covers, PartOf, Values, FieldType
    <3>3. "tex" \in DOMAIN o9 => "tex" \in DOMAIN in9
      BY <1>1, <1>4, <1>6, <2>1, <3>1, <3>2
    <3>4. om.tex = means.tex
      BY <1>3, <1>5, <2>1
    <3> QED
      BY <1>1, <2>1, <3>1, <3>3, <3>4 DEF Agree
  <2>2. CASE "tex8" \notin DOMAIN in8
    <3>1. "tex" \notin DOMAIN in9 /\ "tex" \notin DOMAIN means
      BY <1>5, <2>2 DEF Covers
    <3>2. "tex8" \in DOMAIN at8 => "tex" \in DOMAIN made
      BY <1>5
    <3> QED
      BY <1>1, <1>2, <1>3, <2>2, <3>1, <3>2 DEF Agree
  <2> QED
    BY <2>1, <2>2
<1>9. "ps8" \in DOMAIN o8 => om.ps = o8.ps8
  BY <1>2, <1>3, <1>5 DEF Agree
<1>10. "idx8" \in DOMAIN o8 => om.idx = o8.idx8
  BY <1>2, <1>3, <1>5 DEF Agree
<1>11. "rest" \in DOMAIN o9 => om.rest = o9.rest
  BY <1>1, <1>3, <1>5 DEF Agree
<1>12. Agree(o9, o8, om)
  BY <1>7, <1>8, <1>9, <1>10, <1>11 DEF Agree
<1> QED
  BY <1>12 DEF o9, o8, om

\* What Apply sends of the D3D9 block covers and agrees as the block itself does.
LEMMA SentAgrees ==
  ASSUME NEW at9, NEW at8, NEW made, Covers(at9, at8, made)
  PROVE  /\ Covers(Sent(at9), at8, made)
         /\ Agree(at9, at8, made) => Agree(Sent(at9), at8, made)
<1> DEFINE sent == Sent(at9)
<1>1. DOMAIN sent = {f \in DOMAIN at9 : f = "decl" => at9[f] # Null}
  BY DEF Sent, On
<1>2. \A f \in DOMAIN sent : sent[f] = at9[f]
  BY DEF Sent, On
<1> HIDE DEF sent
<1>3. "decl" \in DOMAIN at9 => "decl" \in UNION {Stands(f) : f \in DOMAIN at8}
  BY DEF Covers, Stands
<1>4. \A f \in DOMAIN at9 : f \in DOMAIN sent \/ f \in UNION {Stands(g) : g \in DOMAIN at8}
  BY <1>1, <1>3
<1>5. DOMAIN made = DOMAIN sent \cup UNION {Stands(f) : f \in DOMAIN at8}
  <2> DEFINE U == UNION {Stands(f) : f \in DOMAIN at8}
  <2>1. DOMAIN made = DOMAIN at9 \cup U
    BY DEF Covers
  <2> HIDE DEF U
  <2>2. \A f \in DOMAIN at9 : f \in DOMAIN sent \/ f \in U
    BY <1>4 DEF U
  <2>3. DOMAIN made = DOMAIN sent \cup U
    BY <1>1, <2>1, <2>2
  <2> QED
    BY <2>3 DEF U
<1>6. Covers(sent, at8, made)
  BY <1>1, <1>2, <1>5 DEF Covers, PartOf
<1>7. Agree(at9, at8, made) => Agree(sent, at8, made)
  BY <1>1, <1>2 DEF Agree
<1> QED
  BY <1>6, <1>7 DEF sent

-----------------------------------------------------------------------------
(* Every step preserves the invariant. *)

LEMMA StateOfType == BlocksTypeOK => StateOK(dev) /\ alive \subseteq PixelShaders
BY DEF BlocksTypeOK, StateOK

\* Recording values into the block that is being recorded.
LEMMA RecordedStep ==
  ASSUME BlockInv, recorder # Null,
         NEW in9, NEW in8, NEW means, Recorded(in9, in8, means), Covers(in9, in8, means),
         ~torn' => ~torn /\ Agree(in9, in8, means),
         dev' = dev, recorder' = recorder, alive' = alive,
         calls' \in 0 .. CallBound, torn' \in BOOLEAN
  PROVE  BlockInv'
<1> DEFINE B == block[recorder]
           C == block'[recorder]
<1>1. recorder \in DOMAIN block /\ recorder \in Blocks
  BY DEF BlockInv, BlocksTypeOK
<1>2. /\ DOMAIN block' = DOMAIN block
      /\ \A b \in DOMAIN block \ {recorder} : block'[b] = block[b]
      /\ C.at9 = Over(B.at9, in9) /\ C.at8 = Over(B.at8, in8) /\ C.captured = TRUE
      /\ C.mixed = (B.mixed \/ Mixes(recorder, in9, in8, means))
  BY <1>1 DEF Recorded
<1>3. /\ DOMAIN promise' = Blocks
      /\ \A b \in Blocks \ {recorder} : promise'[b] = promise[b]
      /\ promise'[recorder] = Over(promise[recorder], means)
  BY <1>1 DEF Recorded, BlockInv
<1>4. Covers(B.at9, B.at8, promise[recorder])
  BY <1>1 DEF BlockInv
<1> HIDE DEF C
<1>5. Covers(C.at9, C.at8, promise'[recorder])
  BY <1>2, <1>3, <1>4, RecordingCovers
<1>6. ASSUME ~torn', C.captured, ~C.mixed PROVE Agree(C.at9, C.at8, promise'[recorder])
  <2>1. ~torn /\ ~B.mixed /\ ~Mixes(recorder, in9, in8, means)
    BY <1>2, <1>6
  <2>2. Unmixed(B.at9, in9, in8, means)
    BY <2>1 DEF Mixes, Unmixed
  <2>3. Agree(B.at9, B.at8, promise[recorder])
    BY <1>1, <2>1 DEF BlockInv
  <2> QED
    BY <1>2, <1>3, <1>4, <1>6, <2>2, <2>3, RecordingAgrees
<1>7. BlocksTypeOK'
  <2>1. PartOf(Fields9, C.at9) /\ PartOf(Fields8, C.at8)
    BY <1>5 DEF Covers
  <2>2. {C.captured, C.mixed} \subseteq BOOLEAN
    BY <1>1, <1>2 DEF BlockInv, BlocksTypeOK, Mixes
  <2>3. \A b \in DOMAIN block' :
          /\ PartOf(Fields9, block'[b].at9) /\ PartOf(Fields8, block'[b].at8)
          /\ {block'[b].captured, block'[b].mixed} \subseteq BOOLEAN
    <3> SUFFICES ASSUME NEW b \in DOMAIN block'
                 PROVE  /\ PartOf(Fields9, block'[b].at9) /\ PartOf(Fields8, block'[b].at8)
                        /\ {block'[b].captured, block'[b].mixed} \subseteq BOOLEAN
      OBVIOUS
    <3>1. CASE b = recorder
      BY <2>1, <2>2, <3>1 DEF C
    <3>2. CASE b # recorder
      BY <1>2, <3>2 DEF BlockInv, BlocksTypeOK
    <3> QED
      BY <3>1, <3>2
  <2> QED
    BY <1>1, <1>2, <2>3 DEF BlockInv, BlocksTypeOK, PartOf
<1>8. recorder' # Null => block'[recorder'].captured
  BY <1>2 DEF C
<1>9. \A b \in Blocks \ DOMAIN block' : promise'[b] = None
  BY <1>1, <1>2, <1>3 DEF BlockInv
<1>10. \A b \in DOMAIN block' : Covers(block'[b].at9, block'[b].at8, promise'[b])
  <2>1. \A b \in DOMAIN block \ {recorder} : Covers(block'[b].at9, block'[b].at8, promise'[b])
    BY <1>2, <1>3 DEF BlockInv, BlocksTypeOK
  <2> QED
    BY <1>2, <1>5, <2>1 DEF C
<1>11. ~torn' => /\ Mirrors(dev')
                 /\ \A b \in DOMAIN block' : block'[b].captured /\ ~block'[b].mixed =>
                      Agree(block'[b].at9, block'[b].at8, promise'[b])
  <2> SUFFICES ASSUME ~torn'
               PROVE  /\ Mirrors(dev')
                      /\ \A b \in DOMAIN block' : block'[b].captured /\ ~block'[b].mixed =>
                           Agree(block'[b].at9, block'[b].at8, promise'[b])
    OBVIOUS
  <2>1. Mirrors(dev')
    BY DEF BlockInv
  <2>2. \A b \in DOMAIN block \ {recorder} : block'[b].captured /\ ~block'[b].mixed =>
           Agree(block'[b].at9, block'[b].at8, promise'[b])
    BY <1>2, <1>3 DEF BlockInv, BlocksTypeOK
  <2> QED
    BY <1>2, <1>6, <2>1, <2>2 DEF C
<1> QED
  BY <1>3, <1>7, <1>8, <1>9, <1>10, <1>11 DEF BlockInv

\* A step that leaves the blocks alone.
LEMMA DeviceStep ==
  ASSUME BlockInv, StateOK(dev'), alive' \subseteq PixelShaders,
         ~torn' => ~torn /\ Mirrors(dev'),
         UNCHANGED <<block, promise>>,
         recorder' \in {recorder, Null}, calls' \in 0 .. CallBound, torn' \in BOOLEAN
  PROVE  BlockInv'
<1>1. BlocksTypeOK'
  BY DEF BlockInv, BlocksTypeOK, StateOK, PartOf
<1>2. \A b \in DOMAIN block' : Covers(block'[b].at9, block'[b].at8, promise'[b])
  BY DEF BlockInv
<1>3. ~torn' => \A b \in DOMAIN block' : block'[b].captured /\ ~block'[b].mixed =>
                  Agree(block'[b].at9, block'[b].at8, promise'[b])
  BY DEF BlockInv
<1>4. recorder' # Null => block'[recorder'].captured
  BY DEF BlockInv
<1> QED
  BY <1>1, <1>2, <1>3, <1>4 DEF BlockInv

\* A setter, recorded or not.
LEMMA SetStep ==
  ASSUME BlockInv, NEW s, NEW in9, NEW in8, NEW means, Set(s, in9, in8, means),
         StateOK(s), Mirrors(dev) => Mirrors(s), Covers(in9, in8, means), Agree(in9, in8, means)
  PROVE  BlockInv'
<1>1. /\ calls' \in 0 .. CallBound /\ torn' = torn /\ torn' \in BOOLEAN
      /\ recorder' = recorder /\ alive' = alive
  BY BlockAssumption DEF Set, Call, BlockInv, BlocksTypeOK
<1>2. CASE recorder = Null
  <2>1. dev' = s /\ UNCHANGED <<block, promise>>
    BY <1>2 DEF Set
  <2>2. ~torn' => ~torn /\ Mirrors(dev')
    BY <1>1, <2>1 DEF BlockInv
  <2>3. alive' \subseteq PixelShaders /\ StateOK(dev')
    BY <1>1, <2>1 DEF BlockInv, BlocksTypeOK
  <2> QED
    BY <1>1, <2>1, <2>2, <2>3, DeviceStep
<1>3. CASE recorder # Null
  <2>1. dev' = dev /\ Recorded(in9, in8, means)
    BY <1>3 DEF Set
  <2> QED
    BY <1>1, <1>3, <2>1, RecordedStep
<1> QED
  BY <1>2, <1>3

LEMMA NoneFields == DOMAIN None = {} /\ \A F : PartOf(F, None)
BY DEF None, PartOf

LEMMA SetVertexShaderStep ==
  ASSUME BlockInv, AppSetVertexShader
  PROVE  BlockInv'
<1>1. PICK h \in VertexHandles :
         Set(SetVertexShader(dev, h), None, [vs8 |-> h], Means(h))
  BY DEF AppSetVertexShader
<1> DEFINE r == SetVertexShader(dev, h)
           in8 == [vs8 |-> h]
           means == Means(h)
<1>2. StateOK(dev)
  BY StateOfType DEF BlockInv
<1>3. /\ But(dev, r, {"decl", "vs", "vs8"})
      /\ \/ r = dev /\ (h = Bad \/ dev.vs8 = h)
         \/ /\ h # Bad /\ r.vs8 = h /\ r.vs = Program(h)
            /\ r.decl = IF h = Null THEN dev.decl ELSE h
  BY <1>2, VertexShaderSet
<1>4. DOMAIN in8 = {"vs8"} /\ in8.vs8 = h
  OBVIOUS
<1>5. DOMAIN means = {"decl", "vs"} /\ means.vs = Program(h)
      /\ means.decl = IF h = Null THEN Bad ELSE h
  <2>1. /\ DOMAIN Binds(h) = IF h = Null THEN {"vs"} ELSE {"decl", "vs"}
        /\ Binds(h).vs = Program(h)
        /\ h # Null => Binds(h).decl = h
    BY BindsFields
  <2> QED
    BY <2>1 DEF Means, Over
<1> HIDE DEF r, in8, means
<1>6. StateOK(r)
  <2>1. r.decl \in VertexHandles /\ r.vs \in VertexHandles /\ r.vs8 \in VertexHandles
    BY <1>2, <1>3, Fields DEF Program, VertexHandles
  <2> QED
    BY <1>2, <1>3, <2>1, StateBut, TypesOfFields
<1>7. Mirrors(dev) => Mirrors(r)
  <2>1. {"ps", "ps8", "tex", "tex8", "idx", "idx8"} \subseteq DOMAIN dev
    BY <1>2 DEF StateOK, Fields8, Fields9
  <2>2. /\ r.ps = dev.ps /\ r.ps8 = dev.ps8 /\ r.tex = dev.tex /\ r.tex8 = dev.tex8
        /\ r.idx = dev.idx /\ r.idx8 = dev.idx8
    BY <1>3, <2>1 DEF But
  <2> QED
    BY <1>3, <2>2 DEF Mirrors
<1>8. Covers(None, in8, means)
  <2>1. PartOf(Fields8, in8)
    BY <1>4 DEF PartOf, Fields8, Values, FieldType
  <2>2. UNION {Stands(f) : f \in DOMAIN in8} = {"decl", "vs"}
    BY <1>4 DEF Stands
  <2> QED
    BY <1>4, <1>5, <2>1, <2>2, NoneFields DEF Covers
<1>9. Agree(None, in8, means)
  BY <1>4, <1>5, NoneFields DEF Agree
<1>10. Set(r, None, in8, means)
  BY <1>1 DEF r, in8, means
<1> QED
  BY <1>6, <1>7, <1>8, <1>9, <1>10, SetStep

\* The values that a setter of a mirror records, and what they stand for.
LEMMA OneAgrees ==
  ASSUME NEW x
  PROVE  /\ x \in PixelHandles =>
              Covers(None, [ps8 |-> x], [ps |-> x]) /\ Agree(None, [ps8 |-> x], [ps |-> x])
         /\ x \in Textures \cup {Null} =>
              Covers(None, [tex8 |-> x], [tex |-> x]) /\ Agree(None, [tex8 |-> x], [tex |-> x])
         /\ x \in IndexBuffers \cup {Null} =>
              Covers(None, [idx8 |-> x], [idx |-> x]) /\ Agree(None, [idx8 |-> x], [idx |-> x])
         /\ x \in Rest =>
              Covers([rest |-> x], None, [rest |-> x]) /\ Agree([rest |-> x], None, [rest |-> x])
<1>2. ASSUME x \in PixelHandles
      PROVE  Covers(None, [ps8 |-> x], [ps |-> x]) /\ Agree(None, [ps8 |-> x], [ps |-> x])
  <2>1. PartOf(Fields8, [ps8 |-> x])
    BY <1>2, TypesOfFields DEF PartOf, Fields8, Values
  <2>2. UNION {Stands(f) : f \in DOMAIN [ps8 |-> x]} = {"ps"}
    BY DEF Stands
  <2> QED
    BY <2>1, <2>2, NoneFields DEF Covers, Agree
<1>3. ASSUME x \in Textures \cup {Null}
      PROVE  Covers(None, [tex8 |-> x], [tex |-> x]) /\ Agree(None, [tex8 |-> x], [tex |-> x])
  <2>1. PartOf(Fields8, [tex8 |-> x])
    BY <1>3, TypesOfFields DEF PartOf, Fields8, Values
  <2>2. UNION {Stands(f) : f \in DOMAIN [tex8 |-> x]} = {"tex"}
    BY DEF Stands
  <2> QED
    BY <2>1, <2>2, NoneFields DEF Covers, Agree
<1>4. ASSUME x \in IndexBuffers \cup {Null}
      PROVE  Covers(None, [idx8 |-> x], [idx |-> x]) /\ Agree(None, [idx8 |-> x], [idx |-> x])
  <2>1. PartOf(Fields8, [idx8 |-> x])
    BY <1>4, TypesOfFields DEF PartOf, Fields8, Values
  <2>2. UNION {Stands(f) : f \in DOMAIN [idx8 |-> x]} = {"idx"}
    BY DEF Stands
  <2> QED
    BY <2>1, <2>2, NoneFields DEF Covers, Agree
<1>5. ASSUME x \in Rest
      PROVE  Covers([rest |-> x], None, [rest |-> x]) /\ Agree([rest |-> x], None, [rest |-> x])
  <2>1. PartOf(Fields9, [rest |-> x])
    BY <1>5, TypesOfFields DEF PartOf, Fields9, Values
  <2>2. UNION {Stands(f) : f \in DOMAIN None} = {}
    BY NoneFields
  <2> QED
    BY <2>1, <2>2, NoneFields DEF Covers, Agree
<1> QED
  BY <1>2, <1>3, <1>4, <1>5

LEMMA OtherSetStep ==
  ASSUME BlockInv,
         AppSetPixelShader \/ AppSetTexture \/ AppSetIndices \/ AppSetRest
  PROVE  BlockInv'
<1>1. StateOK(dev) /\ alive \subseteq PixelShaders
  BY StateOfType DEF BlockInv
<1>2. DOMAIN dev = {"decl", "vs", "ps", "tex", "idx", "rest", "vs8", "ps8", "tex8", "idx8"}
  BY <1>1 DEF StateOK, Fields8, Fields9
<1>3. CASE AppSetPixelShader
  <2>1. PICK p \in alive \cup {Null} :
           Set(SetPixelShader(dev, p), None, [ps8 |-> p], [ps |-> p])
    BY <1>3 DEF AppSetPixelShader
  <2> DEFINE r == SetPixelShader(dev, p)
  <2>2. But(dev, r, {"ps", "ps8"}) /\ r.ps = p /\ r.ps8 = p
    BY <1>1, OtherSet
  <2> HIDE DEF r
  <2>3. p \in PixelHandles
    BY <1>1 DEF PixelHandles
  <2>4. StateOK(r)
    BY <1>1, <2>2, <2>3, StateBut, TypesOfFields
  <2>5. Mirrors(dev) => Mirrors(r)
    BY <1>2, <2>2 DEF Mirrors, But
  <2>6. Set(r, None, [ps8 |-> p], [ps |-> p])
    BY <2>1 DEF r
  <2>7. /\ Covers(None, [ps8 |-> p], [ps |-> p])
        /\ Agree(None, [ps8 |-> p], [ps |-> p])
    BY <2>3, OneAgrees
  <2> QED
    BY <2>3, <2>4, <2>5, <2>6, <2>7, SetStep
<1>4. CASE AppSetTexture
  <2>1. PICK t \in Textures \cup {Null} :
           Set(SetTexture(dev, t), None, [tex8 |-> t], [tex |-> t])
    BY <1>4 DEF AppSetTexture
  <2> DEFINE r == SetTexture(dev, t)
  <2>2. /\ But(dev, r, {"tex", "tex8"})
        /\ IF t = dev.tex8 THEN r = dev ELSE r.tex = t /\ r.tex8 = t
    BY <1>1, OtherSet
  <2> HIDE DEF r
  <2>3. StateOK(r)
    BY <1>1, <2>2, StateBut, TypesOfFields
  <2>4. Mirrors(dev) => Mirrors(r)
    BY <1>2, <2>2 DEF Mirrors, But
  <2>5. Set(r, None, [tex8 |-> t], [tex |-> t])
    BY <2>1 DEF r
  <2>6. /\ Covers(None, [tex8 |-> t], [tex |-> t])
        /\ Agree(None, [tex8 |-> t], [tex |-> t])
    BY OneAgrees
  <2> QED
    BY <2>3, <2>4, <2>5, <2>6, SetStep
<1>5. CASE AppSetIndices
  <2>1. PICK i \in IndexBuffers \cup {Null} :
           Set(WithIndices(dev, i), None, [idx8 |-> i], [idx |-> i])
    BY <1>5 DEF AppSetIndices
  <2> DEFINE r == WithIndices(dev, i)
  <2>2. But(dev, r, {"idx", "idx8"}) /\ r.idx = i /\ r.idx8 = i
    BY <1>1, OtherSet
  <2> HIDE DEF r
  <2>3. StateOK(r)
    BY <1>1, <2>2, StateBut, TypesOfFields
  <2>4. Mirrors(dev) => Mirrors(r)
    BY <1>2, <2>2 DEF Mirrors, But
  <2>5. Set(r, None, [idx8 |-> i], [idx |-> i])
    BY <2>1 DEF r
  <2>6. /\ Covers(None, [idx8 |-> i], [idx |-> i])
        /\ Agree(None, [idx8 |-> i], [idx |-> i])
    BY OneAgrees
  <2> QED
    BY <2>3, <2>4, <2>5, <2>6, SetStep
<1>6. CASE AppSetRest
  <2>1. PICK v \in Rest :
           Set([dev EXCEPT !.rest = v], [rest |-> v], None, [rest |-> v])
    BY <1>6 DEF AppSetRest
  <2> DEFINE r == [dev EXCEPT !.rest = v]
  <2>2. But(dev, r, {"rest"}) /\ r.rest = v
    BY <1>2 DEF But
  <2> HIDE DEF r
  <2>3. StateOK(r)
    BY <1>1, <2>2, StateBut, TypesOfFields
  <2>4. Mirrors(dev) => Mirrors(r)
    BY <1>2, <2>2 DEF Mirrors, But
  <2>5. Set(r, [rest |-> v], None, [rest |-> v])
    BY <2>1 DEF r
  <2>6. /\ Covers([rest |-> v], None, [rest |-> v])
        /\ Agree([rest |-> v], None, [rest |-> v])
    BY OneAgrees
  <2> QED
    BY <2>3, <2>4, <2>5, <2>6, SetStep
<1> QED
  BY <1>3, <1>4, <1>5, <1>6

LEMMA DeviceCallsStep ==
  ASSUME BlockInv,
         DrawIndexedPrimitiveUP \/ Reset \/ DeletePixelShader \/ EndStateBlock
  PROVE  BlockInv'
<1>1. StateOK(dev) /\ alive \subseteq PixelShaders
  BY StateOfType DEF BlockInv
<1>2. DOMAIN dev = {"decl", "vs", "ps", "tex", "idx", "rest", "vs8", "ps8", "tex8", "idx8"}
  BY <1>1 DEF StateOK, Fields8, Fields9
<1>3. calls' \in 0 .. CallBound /\ torn' = torn /\ torn' \in BOOLEAN /\ UNCHANGED <<block, promise>>
  <2>1. Call /\ torn' = torn /\ UNCHANGED <<block, promise>>
    BY DEF DrawIndexedPrimitiveUP, Reset, DeletePixelShader, EndStateBlock
  <2>2. calls \in 0 .. CallBound /\ torn \in BOOLEAN
    BY DEF BlockInv, BlocksTypeOK
  <2> QED
    BY <2>1, <2>2, BlockAssumption DEF Call
<1>4. CASE DrawIndexedPrimitiveUP
  <2> DEFINE r == [dev EXCEPT !.idx8 = Null, !.idx = Null]
  <2>1. But(dev, r, {"idx", "idx8"}) /\ r.idx = Null /\ r.idx8 = Null
    BY <1>2 DEF But
  <2>2. dev' = r /\ recorder' = recorder /\ alive' = alive
    BY <1>4 DEF DrawIndexedPrimitiveUP
  <2> HIDE DEF r
  <2>3. StateOK(r)
    BY <1>1, <2>1, StateBut, TypesOfFields
  <2>4. Mirrors(dev) => Mirrors(r)
    BY <1>2, <2>1 DEF Mirrors, But
  <2>5. ~torn' => ~torn /\ Mirrors(dev')
    BY <1>3, <2>2, <2>4 DEF BlockInv
  <2> QED
    BY <1>1, <1>3, <2>2, <2>3, <2>5, DeviceStep
<1>5. CASE Reset
  <2>1. PICK v \in Rest :
          dev' = [dev EXCEPT !.tex8 = Null, !.tex = Null, !.idx8 = Null, !.idx = Null, !.rest = v]
    BY <1>5 DEF Reset
  <2> DEFINE r == [dev EXCEPT !.tex8 = Null, !.tex = Null, !.idx8 = Null, !.idx = Null, !.rest = v]
  <2>2. /\ But(dev, r, {"idx", "idx8", "tex", "tex8", "rest"})
        /\ r.idx = Null /\ r.idx8 = Null /\ r.tex = Null /\ r.tex8 = Null /\ r.rest = v
    BY <1>2 DEF But
  <2>3. dev' = r /\ recorder' = recorder /\ alive' = alive
    BY <1>5, <2>1 DEF Reset
  <2> HIDE DEF r
  <2>4. StateOK(r)
    BY <1>1, <2>2, StateBut, TypesOfFields
  <2>5. Mirrors(dev) => Mirrors(r)
    BY <1>2, <2>2 DEF Mirrors, But
  <2>6. ~torn' => ~torn /\ Mirrors(dev')
    BY <1>3, <2>3, <2>5 DEF BlockInv
  <2> QED
    BY <1>1, <1>3, <2>3, <2>4, <2>6, DeviceStep
<1>6. CASE DeletePixelShader \/ EndStateBlock
  <2>1. dev' = dev /\ alive' \subseteq alive /\ recorder' \in {recorder, Null}
    BY <1>6 DEF DeletePixelShader, EndStateBlock
  <2>2. ~torn' => ~torn /\ Mirrors(dev')
    BY <1>3, <2>1 DEF BlockInv
  <2> QED
    BY <1>1, <1>3, <2>1, <2>2, DeviceStep
<1> QED
  BY <1>4, <1>5, <1>6

\* Block b becomes, or is added as, c, with a promise, and nothing else changes but that its
\* recording may begin.
Replaced(b, c, made) ==
  /\ DOMAIN block' = DOMAIN block \cup {b} /\ block'[b] = c
  /\ \A x \in DOMAIN block \ {b} : block'[x] = block[x]
  /\ DOMAIN promise' = Blocks /\ promise'[b] = made
  /\ \A x \in Blocks \ {b} : promise'[x] = promise[x]
  /\ dev' = dev /\ alive' = alive /\ torn' = torn /\ calls' \in 0 .. CallBound
  /\ \/ recorder' = recorder /\ recorder # b
     \/ recorder' = b /\ c.captured

Sound(c, made) ==
  /\ Covers(c.at9, c.at8, made)
  /\ c.captured \in BOOLEAN /\ c.mixed \in BOOLEAN
  /\ ~torn /\ c.captured /\ ~c.mixed => Agree(c.at9, c.at8, made)

LEMMA OneBlockStep ==
  ASSUME BlockInv, NEW b \in Blocks, NEW c, NEW made,
         Replaced(b, c, made), Sound(c, made)
  PROVE  BlockInv'
<1> USE DEF Replaced, Sound
<1>1. PartOf(Fields9, c.at9) /\ PartOf(Fields8, c.at8)
  BY DEF Covers
<1>2. \A x \in DOMAIN block' :
          /\ PartOf(Fields9, block'[x].at9) /\ PartOf(Fields8, block'[x].at8)
          /\ {block'[x].captured, block'[x].mixed} \subseteq BOOLEAN
  <2>1. \A x \in DOMAIN block \ {b} :
          /\ PartOf(Fields9, block'[x].at9) /\ PartOf(Fields8, block'[x].at8)
          /\ {block'[x].captured, block'[x].mixed} \subseteq BOOLEAN
    BY DEF BlockInv, BlocksTypeOK
  <2> QED
    BY <1>1, <2>1
<1>3. recorder' \in DOMAIN block' \cup {Null}
  BY DEF BlockInv, BlocksTypeOK
<1>4. BlocksTypeOK'
  BY <1>2, <1>3 DEF BlockInv, BlocksTypeOK, PartOf
<1>5. recorder' # Null => block'[recorder'].captured
  BY DEF BlockInv, BlocksTypeOK
<1>6. \A x \in Blocks \ DOMAIN block' : promise'[x] = None
  BY DEF BlockInv
<1>7. \A x \in DOMAIN block' : Covers(block'[x].at9, block'[x].at8, promise'[x])
  <2>1. \A x \in DOMAIN block \ {b} : Covers(block'[x].at9, block'[x].at8, promise'[x])
    BY DEF BlockInv, BlocksTypeOK
  <2> QED
    BY <2>1
<1>8. ~torn' => \A x \in DOMAIN block' : block'[x].captured /\ ~block'[x].mixed =>
                  Agree(block'[x].at9, block'[x].at8, promise'[x])
  <2> SUFFICES ASSUME ~torn'
               PROVE  \A x \in DOMAIN block' : block'[x].captured /\ ~block'[x].mixed =>
                        Agree(block'[x].at9, block'[x].at8, promise'[x])
    OBVIOUS
  <2>1. \A x \in DOMAIN block \ {b} : block'[x].captured /\ ~block'[x].mixed =>
           Agree(block'[x].at9, block'[x].at8, promise'[x])
    BY DEF BlockInv, BlocksTypeOK
  <2> QED
    BY <2>1
<1> QED
  BY <1>4, <1>5, <1>6, <1>7, <1>8 DEF BlockInv

\* The part of a state on fields it has.
LEMMA PartOfState ==
  ASSUME NEW s, StateOK(s)
  PROVE  /\ \A F \in SUBSET Fields9 : PartOf(Fields9, On(F, s))
         /\ \A F \in SUBSET Fields8 : PartOf(Fields8, On(F, s))
BY DEF StateOK, PartOf, On, Values

LEMMA CaptureStep ==
  ASSUME BlockInv, CaptureStateBlock
  PROVE  BlockInv'
<1>1. PICK b \in DOMAIN block \ {recorder} :
        /\ block' = [block EXCEPT ![b] =
             [at9 |-> On(DOMAIN @.at9, dev), at8 |-> On(DOMAIN @.at8, dev),
              captured |-> TRUE, mixed |-> FALSE]]
        /\ promise' = [promise EXCEPT
             ![b] = Promised(DOMAIN block[b].at9, DOMAIN block[b].at8, dev)]
  BY DEF CaptureStateBlock, Complete
<1> DEFINE F9 == DOMAIN block[b].at9
           F8 == DOMAIN block[b].at8
           at9 == On(F9, dev)
           at8 == On(F8, dev)
           made == Promised(F9, F8, dev)
           c == [at9 |-> at9, at8 |-> at8, captured |-> TRUE, mixed |-> FALSE]
<1>2. StateOK(dev) /\ b \in Blocks /\ Covers(block[b].at9, block[b].at8, promise[b])
  BY StateOfType DEF BlockInv, BlocksTypeOK
<1>3. F9 \subseteq Fields9 /\ F8 \subseteq Fields8
  BY <1>2 DEF Covers, PartOf
<1>4. Covers(at9, at8, made)
  <2>1. DOMAIN at9 = F9 /\ DOMAIN at8 = F8 /\ DOMAIN made = F9 \cup UNION {Stands(f) : f \in F8}
    <3>1. /\ DOMAIN Promised(F9, F8, dev) = F9 \cup UNION {Stands(f) : f \in F8}
          /\ DOMAIN On(F9, dev) = F9 /\ DOMAIN On(F8, dev) = F8
      <4> HIDE DEF F9, F8
      <4> QED
        BY DEF Promised, On
    <3> QED
      BY <3>1
  <2>2. PartOf(Fields9, at9) /\ PartOf(Fields8, at8)
    BY <1>2, <1>3, PartOfState
  <2> HIDE DEF at9, at8, made
  <2> QED
    BY <1>2, <2>1, <2>2 DEF Covers
<1>5. ~torn => Agree(at9, at8, made)
  BY <1>2, <1>3, CapturedAgrees DEF BlockInv
<1> HIDE DEF at9, at8, made
<1>6. block' = [block EXCEPT ![b] = c] /\ promise' = [promise EXCEPT ![b] = made]
  BY <1>1 DEF at9, at8, made
<1>7. c.at9 = at9 /\ c.at8 = at8 /\ c.captured = TRUE /\ c.mixed = FALSE
  OBVIOUS
<1> HIDE DEF c
<1>8. /\ DOMAIN block' = DOMAIN block \cup {b} /\ block'[b] = c
      /\ \A x \in DOMAIN block \ {b} : block'[x] = block[x]
      /\ DOMAIN promise' = Blocks /\ promise'[b] = made
      /\ \A x \in Blocks \ {b} : promise'[x] = promise[x]
  BY <1>2, <1>6 DEF BlockInv
<1>9. /\ dev' = dev /\ alive' = alive /\ torn' = torn /\ calls' \in 0 .. CallBound
      /\ recorder' = recorder /\ recorder # b
  BY BlockAssumption DEF CaptureStateBlock, Call, BlockInv, BlocksTypeOK
<1>10. Replaced(b, c, made)
  BY <1>7, <1>8, <1>9 DEF Replaced
<1>11. Sound(c, made)
  BY <1>4, <1>5, <1>7 DEF Sound
<1> QED
  BY <1>2, <1>10, <1>11, OneBlockStep

\* The fields of a type of block: the wrapper has those whose D3D9 state it stands for.
LEMMA TypesCover ==
  ASSUME NEW type \in Types
  PROVE  LET F9 == CaptureType(type)
             F8 == Wrapped(type)
         IN  /\ F9 \subseteq Fields9 /\ F8 \subseteq Fields8
             /\ {"decl", "vs"} \cap F9 # {} => "vs8" \in F8
             /\ "ps" \in F9 => "ps8" \in F8
             /\ "tex" \in F9 => "tex8" \in F8
             /\ "idx" \in F9 => "idx8" \in F8
BY DEF Types, CaptureType, Wrapped, Fields9, Fields8

LEMMA CreateStep ==
  ASSUME BlockInv, CreateStateBlock
  PROVE  BlockInv'
<1>1. PICK b \in Blocks \ DOMAIN block, type \in Types :
        /\ block' = Over(block, [x \in {b} |->
             [at9 |-> On(CaptureType(type), dev),
              at8 |-> On(Wrapped(type), [f \in Fields8 |-> Null]),
              captured |-> FALSE, mixed |-> FALSE]])
        /\ promise' = [promise EXCEPT
             ![b] = Promised(CaptureType(type), Wrapped(type), dev)]
  BY DEF CreateStateBlock
<1> DEFINE F9 == CaptureType(type)
           F8 == Wrapped(type)
           at9 == On(F9, dev)
           at8 == On(F8, [f \in Fields8 |-> Null])
           made == Promised(F9, F8, dev)
           c == [at9 |-> at9, at8 |-> at8, captured |-> FALSE, mixed |-> FALSE]
           one == [x \in {b} |-> c]
<1>2. StateOK(dev)
  BY StateOfType DEF BlockInv
<1>3. /\ F9 \subseteq Fields9 /\ F8 \subseteq Fields8
      /\ {"decl", "vs"} \cap F9 # {} => "vs8" \in F8
      /\ "ps" \in F9 => "ps8" \in F8
      /\ "tex" \in F9 => "tex8" \in F8
      /\ "idx" \in F9 => "idx8" \in F8
  BY TypesCover
<1> HIDE DEF F9, F8
<1>4. Covers(at9, at8, made)
  <2>1. DOMAIN at9 = F9 /\ DOMAIN at8 = F8 /\ DOMAIN made = F9 \cup UNION {Stands(f) : f \in F8}
    BY DEF Promised, On
  <2>2. PartOf(Fields9, at9)
    BY <1>2, <1>3, PartOfState
  <2>3. \A f \in Fields8 : Null \in FieldType(f)
    BY TypesOfFields DEF Fields8, VertexHandles, PixelHandles
  <2>4. PartOf(Fields8, at8)
    BY <1>3, <2>3 DEF PartOf, On, Values
  <2> HIDE DEF at9, at8, made
  <2> QED
    BY <1>3, <2>1, <2>2, <2>4 DEF Covers
<1> HIDE DEF at9, at8, made
<1>5. c.at9 = at9 /\ c.at8 = at8 /\ c.captured = FALSE /\ c.mixed = FALSE
  OBVIOUS
<1>6. block' = Over(block, one) /\ promise' = [promise EXCEPT ![b] = made]
  BY <1>1 DEF at9, at8, made, F9, F8
<1> HIDE DEF c
<1>7. DOMAIN one = {b} /\ one[b] = c
  OBVIOUS
<1> HIDE DEF one
<1>8. /\ DOMAIN block' = DOMAIN block \cup {b} /\ block'[b] = c
      /\ \A x \in DOMAIN block \ {b} : block'[x] = block[x]
  BY <1>6, <1>7 DEF Over
<1>9. /\ DOMAIN promise' = Blocks /\ promise'[b] = made
      /\ \A x \in Blocks \ {b} : promise'[x] = promise[x]
  BY <1>6 DEF BlockInv
<1>10. /\ dev' = dev /\ alive' = alive /\ torn' = torn /\ calls' \in 0 .. CallBound
       /\ recorder' = recorder
  BY BlockAssumption DEF CreateStateBlock, Call, BlockInv, BlocksTypeOK
<1>11. recorder # b /\ b \in Blocks
  BY BlockAssumption DEF BlockInv, BlocksTypeOK
<1>12. Replaced(b, c, made)
  BY <1>5, <1>8, <1>9, <1>10, <1>11 DEF Replaced
<1>13. Sound(c, made)
  BY <1>4, <1>5 DEF Sound
<1> QED
  BY <1>11, <1>12, <1>13, OneBlockStep

LEMMA NoneCovers ==
  Covers(None, None, None) /\ Agree(None, None, None)
<1>1. UNION {Stands(f) : f \in DOMAIN None} = {}
  BY NoneFields
<1> QED
  BY <1>1, NoneFields DEF Covers, Agree

LEMMA BeginStep ==
  ASSUME BlockInv, BeginStateBlock
  PROVE  BlockInv'
<1> DEFINE c == [at9 |-> None, at8 |-> None, captured |-> TRUE, mixed |-> FALSE]
<1>1. PICK b \in Blocks \ DOMAIN block :
        recorder' = b /\ block' = Over(block, [x \in {b} |-> c])
  BY DEF BeginStateBlock
<1> DEFINE one == [x \in {b} |-> c]
<1>2. c.at9 = None /\ c.at8 = None /\ c.captured = TRUE /\ c.mixed = FALSE
  OBVIOUS
<1> HIDE DEF c
<1>3. DOMAIN one = {b} /\ one[b] = c /\ block' = Over(block, one)
  BY <1>1
<1> HIDE DEF one
<1>4. /\ DOMAIN block' = DOMAIN block \cup {b} /\ block'[b] = c
      /\ \A x \in DOMAIN block \ {b} : block'[x] = block[x]
  BY <1>3 DEF Over
<1>5. /\ DOMAIN promise' = Blocks /\ promise'[b] = None
      /\ \A x \in Blocks \ {b} : promise'[x] = promise[x]
  BY DEF BeginStateBlock, BlockInv
<1>6. dev' = dev /\ alive' = alive /\ torn' = torn /\ calls' \in 0 .. CallBound
  BY BlockAssumption DEF BeginStateBlock, Call, BlockInv, BlocksTypeOK
<1>7. Covers(c.at9, c.at8, None) /\ Agree(c.at9, c.at8, None)
  BY <1>2, NoneCovers
<1>8. Replaced(b, c, None)
  BY <1>1, <1>2, <1>4, <1>5, <1>6 DEF Replaced
<1>9. Sound(c, None)
  BY <1>2, <1>7 DEF Sound
<1> QED
  BY <1>8, <1>9, OneBlockStep

LEMMA DeleteStep ==
  ASSUME BlockInv, DeleteStateBlock
  PROVE  BlockInv'
<1>1. PICK b \in DOMAIN block : /\ block' = On(DOMAIN block \ {b}, block)
                                /\ promise' = [promise EXCEPT ![b] = None]
  BY DEF DeleteStateBlock
<1>2. DOMAIN block' = DOMAIN block \ {b} /\ \A x \in DOMAIN block \ {b} : block'[x] = block[x]
  BY <1>1 DEF On
<1>3. b \in Blocks /\ DOMAIN promise' = Blocks /\ promise'[b] = None
      /\ \A x \in Blocks \ {b} : promise'[x] = promise[x]
  BY <1>1 DEF BlockInv, BlocksTypeOK
<1>4. Call /\ dev' = dev /\ alive' = alive /\ torn' = torn /\ recorder = Null /\ recorder' = Null
  BY DEF DeleteStateBlock
<1>5. calls' \in 0 .. CallBound
  BY <1>4, BlockAssumption DEF Call, BlockInv, BlocksTypeOK
<1>6. BlocksTypeOK'
  BY <1>2, <1>4, <1>5 DEF BlockInv, BlocksTypeOK, PartOf
<1>7. \A x \in Blocks \ DOMAIN block' : promise'[x] = None
  BY <1>2, <1>3 DEF BlockInv
<1>8. \A x \in DOMAIN block' : Covers(block'[x].at9, block'[x].at8, promise'[x])
  BY <1>2, <1>3 DEF BlockInv, BlocksTypeOK
<1>9. ~torn' => /\ Mirrors(dev')
                /\ \A x \in DOMAIN block' : block'[x].captured /\ ~block'[x].mixed =>
                     Agree(block'[x].at9, block'[x].at8, promise'[x])
  BY <1>2, <1>3, <1>4 DEF BlockInv, BlocksTypeOK
<1> QED
  BY <1>3, <1>4, <1>6, <1>7, <1>8, <1>9 DEF BlockInv

\* Whatever a wrapper whose shaders were never written holds has the fields of the block.
LEMMA HeldFields ==
  ASSUME BlockInv, NEW b \in DOMAIN block, NEW at8 \in Held(b)
  PROVE  /\ DOMAIN at8 = DOMAIN block[b].at8 /\ PartOf(Fields8, at8)
         /\ block[b].captured => at8 = block[b].at8
<1> DEFINE own == block[b].at8
<1>1. PartOf(Fields8, own)
  BY DEF BlockInv, Covers
<1>2. CASE block[b].captured
  BY <1>1, <1>2 DEF Held
<1>3. CASE ~block[b].captured
  <2>1. PICK h \in VertexHandles \cup {Bad}, p \in PixelHandles \cup {Bad} :
          at8 = Unwritten(own, h, p)
    BY <1>3 DEF Held
  <2> DEFINE any == On(DOMAIN own \cap {"vs8", "ps8"}, [vs8 |-> h, ps8 |-> p])
  <2>2. DOMAIN any = DOMAIN own \cap {"vs8", "ps8"}
    BY DEF On
  <2>3. \A f \in DOMAIN any : any[f] = IF f = "vs8" THEN h ELSE p
    BY DEF On
  <2>4. at8 = Over(own, any)
    BY <2>1 DEF Unwritten
  <2> HIDE DEF any, own
  <2>5. \A f \in DOMAIN any : any[f] \in Values(f)
    BY <2>2, <2>3, TypesOfFields DEF Values
  <2>6. PartOf(Fields8, any)
    BY <1>1, <2>2, <2>5 DEF PartOf
  <2>7. PartOf(Fields8, at8)
    BY <1>1, <2>4, <2>6, OverPart
  <2>8. DOMAIN at8 = DOMAIN own
    BY <2>2, <2>4 DEF Over
  <2> QED
    BY <1>3, <2>7, <2>8 DEF own
<1> QED
  BY <1>2, <1>3

LEMMA ApplyStep ==
  ASSUME BlockInv, NEW b \in Blocks, ApplyTo(b)
  PROVE  BlockInv' /\ (recorder = Null /\ ~torn' => Restores(b))
<1>1. b \in DOMAIN block /\ StateOK(dev) /\ alive \subseteq PixelShaders
  BY StateOfType DEF ApplyTo, Complete, BlockInv
<1> DEFINE at9  == block[b].at9
           made == promise[b]
<1>2. PICK at8 \in Held(b) :
        IF recorder = Null
        THEN dev' = Applied(dev, at9, at8) /\ UNCHANGED <<block, promise>>
        ELSE dev' = dev /\ Recorded(Sent(at9), at8, made)
  BY DEF ApplyTo
<1>3. /\ DOMAIN at8 = DOMAIN block[b].at8 /\ PartOf(Fields8, at8)
      /\ block[b].captured => at8 = block[b].at8
  BY <1>1, HeldFields
<1>4. torn' = (torn \/ ~block[b].captured \/ block[b].mixed
                    \/ (/\ "ps8" \in DOMAIN block[b].at8
                        /\ block[b].at8.ps8 \notin alive \cup {Null}))
  BY DEF ApplyTo
<1>5. Covers(at9, at8, made)
  <2>1. Covers(at9, block[b].at8, made)
    BY <1>1 DEF BlockInv
  <2> QED
    BY <1>3, <2>1 DEF Covers
<1>6. ASSUME ~torn'
      PROVE  /\ ~torn /\ Mirrors(dev) /\ Agree(at9, at8, made)
             /\ "ps8" \in DOMAIN at8 => at8.ps8 \in alive \cup {Null}
  <2>1. ~torn /\ block[b].captured /\ ~block[b].mixed
    BY <1>4, <1>6
  <2>2. at8 = block[b].at8
    BY <1>3, <2>1
  <2>3. Mirrors(dev) /\ Agree(at9, block[b].at8, made)
    BY <1>1, <2>1 DEF BlockInv
  <2> QED
    BY <1>4, <1>6, <2>1, <2>2, <2>3
<1>7. /\ calls' \in 0 .. CallBound /\ torn' \in BOOLEAN /\ recorder' = recorder /\ alive' = alive
  <2>1. Call /\ recorder' = recorder /\ alive' = alive
    BY DEF ApplyTo
  <2>2. calls \in 0 .. CallBound /\ torn \in BOOLEAN /\ {block[b].captured, block[b].mixed} \subseteq BOOLEAN
    BY <1>1 DEF BlockInv, BlocksTypeOK
  <2>3. torn' \in BOOLEAN
    BY <1>4, <2>2
  <2> QED
    BY <2>1, <2>2, <2>3, BlockAssumption DEF Call
<1> HIDE DEF at9, made
<1>8. CASE recorder = Null
  <2> DEFINE r == Applied(dev, at9, at8)
  <2>1. dev' = r /\ UNCHANGED <<block, promise>>
    BY <1>2, <1>8
  <2>2. StateOK(r)
    <3>1. PartOf(Fields9, at9) /\ PartOf(Fields8, at8)
      BY <1>5 DEF Covers
    <3> QED
      BY <1>1, <3>1, AppliedFields
  <2>3. ~torn' => Mirrors(r) /\ \A f \in DOMAIN made : made[f] \in {Bad, r[f]}
    <3>1. ASSUME ~torn' PROVE Mirrors(r) /\ \A f \in DOMAIN made : made[f] \in {Bad, r[f]}
      BY <1>1, <1>5, <1>6, <3>1, AppliedRestores
    <3> QED
      BY <3>1
  <2> HIDE DEF r
  <2>4. ~torn' => Restores(b)
    BY <2>1, <2>3 DEF Restores, made
  <2>5. ~torn' => ~torn /\ Mirrors(dev')
    BY <1>6, <2>1, <2>3
  <2>6. BlockInv'
    BY <1>1, <1>7, <2>1, <2>2, <2>5, DeviceStep
  <2> QED
    BY <2>4, <2>6
<1>9. CASE recorder # Null
  <2>1. dev' = dev /\ Recorded(Sent(at9), at8, made)
    BY <1>2, <1>9
  <2>2. /\ Covers(Sent(at9), at8, made)
        /\ Agree(at9, at8, made) => Agree(Sent(at9), at8, made)
    BY <1>5, SentAgrees
  <2>3. ~torn' => ~torn /\ Agree(Sent(at9), at8, made)
    BY <1>6, <2>2
  <2>4. BlockInv'
    BY <1>7, <1>9, <2>1, <2>2, <2>3, RecordedStep
  <2> QED
    BY <1>9, <2>4
<1> QED
  BY <1>8, <1>9

LEMMA BlockStep ==
  ASSUME BlockInv, [BlocksNext]_blocksVars
  PROVE  BlockInv'
<1>1. CASE UNCHANGED blocksVars
  <2>1. /\ dev' = dev /\ block' = block /\ recorder' = recorder /\ alive' = alive
        /\ calls' = calls /\ promise' = promise /\ torn' = torn
    BY <1>1 DEF blocksVars
  <2>2. StateOK(dev') /\ alive' \subseteq PixelShaders
    BY <2>1, StateOfType DEF BlockInv
  <2>3. calls' \in 0 .. CallBound /\ torn' \in BOOLEAN
    BY <2>1 DEF BlockInv, BlocksTypeOK
  <2>4. ~torn' => ~torn /\ Mirrors(dev')
    BY <2>1 DEF BlockInv
  <2> QED
    BY <2>1, <2>2, <2>3, <2>4, DeviceStep
<1>2. CASE AppSetVertexShader
  BY <1>2, SetVertexShaderStep
<1>3. CASE AppSetPixelShader \/ AppSetTexture \/ AppSetIndices \/ AppSetRest
  BY <1>3, OtherSetStep
<1>4. CASE DrawIndexedPrimitiveUP \/ Reset \/ DeletePixelShader \/ EndStateBlock
  BY <1>4, DeviceCallsStep
<1>5. CASE CreateStateBlock
  BY <1>5, CreateStep
<1>6. CASE CaptureStateBlock
  BY <1>6, CaptureStep
<1>7. CASE ApplyStateBlock
  BY <1>7, ApplyStep DEF ApplyStateBlock
<1>8. CASE DeleteStateBlock
  BY <1>8, DeleteStep
<1>9. CASE BeginStateBlock
  BY <1>9, BeginStep
<1> QED
  BY <1>1, <1>2, <1>3, <1>4, <1>5, <1>6, <1>7, <1>8, <1>9 DEF BlocksNext

LEMMA BlockInit ==
  ASSUME BlocksInit
  PROVE  BlockInv
<1>1. PICK s \in {s \in [Fields9 \cup Fields8 -> {Null} \cup Rest] :
                    s.rest \in Rest /\ \A f \in DOMAIN s \ {"rest"} : s[f] = Null} : dev = s
  BY DEF BlocksInit
<1>2. /\ DOMAIN dev = {"decl", "vs", "ps", "tex", "idx", "rest", "vs8", "ps8", "tex8", "idx8"}
      /\ dev.rest \in Rest /\ \A f \in DOMAIN dev \ {"rest"} : dev[f] = Null
  BY <1>1 DEF Fields8, Fields9
<1>3. StateOK(dev)
  <2>1. DOMAIN dev = Fields9 \cup Fields8
    BY <1>2 DEF Fields8, Fields9
  <2>2. \A f \in DOMAIN dev : dev[f] \in FieldType(f)
    BY <1>2, TypesOfFields DEF VertexHandles, PixelHandles
  <2> QED
    BY <2>1, <2>2 DEF StateOK
<1>4. Mirrors(dev)
  BY <1>2, BlockAssumption DEF Mirrors, Program
<1>5. /\ DOMAIN block = {} /\ recorder = Null /\ alive = PixelShaders /\ calls = 0 /\ torn = FALSE
      /\ promise = [b \in Blocks |-> None]
  BY NoneFields DEF BlocksInit
<1>6. 0 \in 0 .. CallBound
  BY BlockAssumption
<1>7. BlocksTypeOK
  BY <1>3, <1>5, <1>6 DEF BlocksTypeOK, StateOK
<1> QED
  BY <1>4, <1>5, <1>7 DEF BlockInv

LEMMA MirrorsOfInv ==
  ASSUME BlockInv
  PROVE  MirrorAgrees
<1>1. /\ DOMAIN Binds(dev.vs8) = IF dev.vs8 = Null THEN {"vs"} ELSE {"decl", "vs"}
      /\ Binds(dev.vs8).vs = Program(dev.vs8)
      /\ dev.vs8 # Null => Binds(dev.vs8).decl = dev.vs8
  BY BindsFields
<1> QED
  BY <1>1 DEF MirrorAgrees, BlockInv, Mirrors

-----------------------------------------------------------------------------
LEMMA BlockInvariance == BlocksSpec => []BlockInv
<1>1. BlocksInit => BlockInv
  BY BlockInit
<1>2. BlockInv /\ [BlocksNext]_blocksVars => BlockInv'
  BY BlockStep
<1> QED
  BY <1>1, <1>2, PTL DEF BlocksSpec

\* Whatever is set, recorded, captured, applied, reset and deleted, in any order and number of
\* calls, D3D8Device's mirrors agree with the D3D9 device: the early returns of SetTexture and
\* SetVertexShader skip nothing, unless a block is applied that `torn' excepts.
THEOREM MirrorsAgree == BlocksSpec => []MirrorAgrees
<1>1. BlockInv => MirrorAgrees
  BY MirrorsOfInv
<1> QED
  BY <1>1, BlockInvariance, PTL

\* ApplyStateBlock restores on the D3D9 device all that the block captured last or that was
\* recorded into it, although two layers set it, the second through setters that return early.
THEOREM BlocksRestore == BlocksSpec => ApplyRestoresCapture
<1>1. BlockInv /\ [BlocksNext]_blocksVars =>
        [\A b \in Blocks : ApplyTo(b) /\ recorder = Null /\ ~torn' => Restores(b)]_blocksVars
  BY ApplyStep
<1> QED
  BY <1>1, BlockInvariance, PTL DEF BlocksSpec, ApplyRestoresCapture
=============================================================================
