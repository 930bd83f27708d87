--------------------------- MODULE MappingProofs ---------------------------
(***************************************************************************)
(* Theorems about BufferMapping, for any finite set of slices and any number *)
(* of calls of the application.                                             *)
(*                                                                         *)
(* A command goes through the chunk that is being filled, the dispatched     *)
(* chunks, the command list that is being recorded and the submitted ones.   *)
(* What is proved of its order is that of the numbers of contents, which the *)
(* application's commands and writes count up in program order.              *)
(***************************************************************************)
EXTENDS BufferMapping, FiniteSetTheorems, SequenceTheorems, TLAPS

Ops == {"read", "write", "invalidate", "flush"}

CommandRecords == [op : Ops, slice : Slices, contents : Nat]

UseRecords == [op : {"read", "write"}, slice : Slices, contents : Nat]

ListRecords == [uses : Seq(UseRecords), done : Nat, freed : SUBSET Slices]

\* Where commands wait: chunks, the last of which is being filled, and command
\* lists, the last of which is being recorded.
Q == Append(chunks, chunk)
L == Append(submitted, list)

IsUse(c) == c.op \in {"read", "write"}

TypeInv ==
  /\ kind \in Kinds
  /\ calls \in Nat /\ latest \in Nat /\ seqNum \in Nat
  /\ csSeqNum \in Nat /\ flushSeqNum \in 0 .. csSeqNum /\ executed \in Nat
  /\ pc \in {"idle", "implicit", "probe", "probed", "check", "busy", "recheck", "wait"}
  /\ map \in [type : {"none", "discard", "read", "write"}, wait : BOOLEAN, target : Nat,
              written : BOOLEAN]
  /\ access \in {"none", "read", "write"}
  /\ mapped \in Slices /\ physSlice \in Slices
  /\ chunk \in Seq(CommandRecords) /\ chunks \in Seq(Seq(CommandRecords))
  /\ csSeqNum = executed + Len(chunks)
  /\ freeSlices \subseteq Slices /\ nextSlices \subseteq Slices /\ allocated \subseteq Slices
  /\ list \in ListRecords /\ submitted \in Seq(ListRecords)
  /\ \A i \in 1 .. Len(submitted) : submitted[i].done <= Len(submitted[i].uses)
  /\ list.done = 0
  /\ retired \in Seq(SUBSET Slices) /\ Len(retired) <= 1
  /\ contents \in [Slices -> Nat]

\* Commands a and b were recorded in this order.
Ordered(a, b) ==
  /\ a.contents <= b.contents
  /\ a.op = "invalidate" \/ b.op = "write" => a.contents < b.contents

Before(i, j, k, l) == i < k \/ (i = k /\ j < l)

InOrder(q) ==
  \A i, k \in 1 .. Len(q) : \A j \in 1 .. Len(q[i]), l \in 1 .. Len(q[k]) :
    Before(i, j, k, l) /\ q[i][j].op # "flush" /\ q[k][l].op # "flush" => Ordered(q[i][j], q[k][l])

ListsInOrder(ls) ==
  \A i, k \in 1 .. Len(ls) : \A j \in 1 .. Len(ls[i].uses), l \in 1 .. Len(ls[k].uses) :
    Before(i, j, k, l) => Ordered(ls[i].uses[j], ls[k].uses[l])

\* The commands of chunks, the uses of command lists, and those not done yet.
CommandsIn(q) == UNION {{q[i][j] : j \in 1 .. Len(q[i])} : i \in 1 .. Len(q)}

UsesIn(ls) == UNION {{ls[i].uses[j] : j \in 1 .. Len(ls[i].uses)} : i \in 1 .. Len(ls)}

PendingIn(ls) ==
  UNION {{ls[i].uses[j] : j \in ls[i].done + 1 .. Len(ls[i].uses)} : i \in 1 .. Len(ls)}

\* The reads and writes that have been recorded and that the GPU has not done.
Pending == {c \in CommandsIn(Q) \cup PendingIn(L) : IsUse(c)}

\* Commands C come after the uses U and are numbered up to n; a renaming has a number
\* less than n, unless the application has not written (a) what it has just mapped.
Numbered(C, U, n, a) ==
  /\ \A u \in U, c \in C : c.op # "flush" => Ordered(u, c)
  /\ \A c \in C : c.op # "flush" => c.contents <= n
  /\ \A c \in C : c.op = "invalidate" /\ a # "write" => c.contents < n
  /\ \A u \in U : u.contents <= n

OrderInv == InOrder(Q) /\ ListsInOrder(L) /\ Numbered(CommandsIn(Q), UsesIn(L), latest, access)

\* Slice s is that of the buffer for a command numbered n: the one of the last
\* renaming before n that is pending, or the one the CS thread has.
Renamed(s, n, C, p) ==
  \/ s = p /\ \A b \in C : b.op = "invalidate" => b.contents >= n
  \/ \E a \in C : /\ a.op = "invalidate" /\ a.slice = s /\ a.contents < n
                  /\ \A b \in C : b.op = "invalidate" /\ b.contents < n => b.contents <= a.contents

\* The commands, and the application, have the slice of their time.
SlicesAgree(C, m, n, p) ==
  /\ \A c \in C : IsUse(c) => Renamed(c.slice, c.contents, C, p)
  /\ Renamed(m, n + 1, C, p)

\* A slice that a command list uses is the one the CS thread has, or is freed by that
\* command list or a later one.
Held(ls, p) ==
  \A i \in 1 .. Len(ls) : \A j \in 1 .. Len(ls[i].uses) :
    ls[i].uses[j].slice = p \/ \E k \in i .. Len(ls) : ls[i].uses[j].slice \in ls[k].freed

\* No slice is freed twice.
FreedOnce(ls) == \A i, k \in 1 .. Len(ls) : i # k => ls[i].freed \cap ls[k].freed = {}

FreedIn(ls) == UNION {ls[i].freed : i \in 1 .. Len(ls)}

SliceInv == SlicesAgree(CommandsIn(Q), mapped, latest, physSlice) /\ Held(L, physSlice)

RenamedTo(C) == {c.slice : c \in {x \in C : x.op = "invalidate"}}

\* The slices of backing buffers (all) are renamed to by commands C, freed by command lists
\* (F) or by one that is to be reset (R), the one the CS thread has (p), or free (f, n):
\* always one of these, and never two.
Apart(C, F, R, p, f, n, all) ==
  /\ all = RenamedTo(C) \cup F \cup R \cup {p} \cup f \cup n
  /\ p \notin RenamedTo(C) \cup f \cup n \cup F \cup R
  /\ RenamedTo(C) \cap (f \cup n \cup F \cup R) = {}
  /\ f \cap n = {} /\ (f \cup n) \cap (F \cup R) = {} /\ F \cap R = {}
  /\ \A a, b \in C :
       a.op = "invalidate" /\ b.op = "invalidate" /\ a.slice = b.slice => a = b

RetiredSlices == UNION {retired[k] : k \in 1 .. Len(retired)}

PlaceInv ==
  /\ Apart(CommandsIn(Q), FreedIn(L), RetiredSlices, physSlice, freeSlices, nextSlices, allocated)
  /\ FreedOnce(L)

\* The last chunk that uses the buffer is n or one before, if e chunks are executed.
UsedUpTo(q, e, n) == \A i \in 1 .. Len(q) : \A j \in 1 .. Len(q[i]) : IsUse(q[i][j]) => e + i <= n

\* What MapBuffer knows.
MapInv ==
  /\ pc # "idle" => access = "none" /\ map.type \in {"read", "write"}
  /\ access # "none" => map.type # "none"
  /\ kind.tracked => UsedUpTo(Q, executed, seqNum)
  /\ pc \in {"probe", "recheck", "wait"} =>
       IF kind.tracked THEN map.target = seqNum ELSE map.target = csSeqNum /\ chunk = <<>>
  /\ pc = "probed" /\ ~map.written => \A c \in CommandsIn(Q) \cup UsesIn(L) : c.op # "write"

\* While the application may write (a) slice m, no pending command uses it, ...
Exclusive(P, m, a) == \A c \in P : c.slice = m => a # "write" /\ (a = "read" => c.op = "read")

ExclusiveInv == Exclusive(Pending, mapped, access)

\* Slice s has contents n, or a pending write brings it.
Brought(P, k, s, n) == k[s] = n \/ \E w \in P : w.op = "write" /\ w.slice = s /\ w.contents = n

\* The contents k of the slices, up to n, are older than what pending commands P write,
\* and those are all that is missing from what P reads and, unless it is discarded (a map
\* of type t), from the slice m of the buffer.
UpToDate(P, k, m, n, a, t) ==
  /\ \A s \in Slices : k[s] <= n
  /\ \A w \in P : w.op = "write" => k[w.slice] < w.contents
  /\ ~(a = "write" /\ t = "discard") => Brought(P, k, m, n)
  /\ \A r \in P : r.op = "read" => Brought(P, k, r.slice, r.contents)

ContentsInv == UpToDate(Pending, contents, mapped, latest, access, map.type)

IInv == TypeInv /\ OrderInv /\ SliceInv /\ PlaceInv /\ MapInv /\ ExclusiveInv /\ ContentsInv

-----------------------------------------------------------------------------
(* Sequences of sequences of commands                                      *)

LEMMA CommandPlace ==
  ASSUME NEW q, NEW c \in CommandsIn(q)
  PROVE  \E i \in 1 .. Len(q) : \E j \in 1 .. Len(q[i]) : c = q[i][j]
BY DEF CommandsIn

LEMMA CommandMember ==
  ASSUME NEW q, NEW i \in 1 .. Len(q), NEW j \in 1 .. Len(q[i])
  PROVE  q[i][j] \in CommandsIn(q)
BY DEF CommandsIn

LEMMA UsePlace ==
  ASSUME NEW l, NEW u \in UsesIn(l)
  PROVE  \E i \in 1 .. Len(l) : \E j \in 1 .. Len(l[i].uses) : u = l[i].uses[j]
BY DEF UsesIn

LEMMA UseMember ==
  ASSUME NEW l, NEW i \in 1 .. Len(l), NEW j \in 1 .. Len(l[i].uses)
  PROVE  l[i].uses[j] \in UsesIn(l)
BY DEF UsesIn

LEMMA PendingPlace ==
  ASSUME NEW l, NEW u \in PendingIn(l)
  PROVE  \E i \in 1 .. Len(l) : \E j \in l[i].done + 1 .. Len(l[i].uses) : u = l[i].uses[j]
BY DEF PendingIn

LEMMA PendingMember ==
  ASSUME NEW l, NEW i \in 1 .. Len(l), NEW j \in l[i].done + 1 .. Len(l[i].uses)
  PROVE  l[i].uses[j] \in PendingIn(l)
BY DEF PendingIn

\* D are the commands C and c, and flushes.
Adds(C, D, c) ==
  /\ C \subseteq D /\ (c.op # "flush" => c \in D)
  /\ \A x \in D : x \in C \/ x.op = "flush" \/ x = c

\* D are the commands C without c.
Drops(C, D, c) == D \subseteq C /\ c \in C /\ \A x \in C : x \in D \/ x = c

\* The chunks r are the chunks q after command c, or none, and flushes were added to the
\* last one, and empty ones after it.
Extends(q, r, c) ==
  /\ \A i \in 1 .. Len(q) :
       i \in 1 .. Len(r) /\ \A j \in 1 .. Len(q[i]) : j \in 1 .. Len(r[i]) /\ r[i][j] = q[i][j]
  /\ \A i \in 1 .. Len(r) : \A j \in 1 .. Len(r[i]) :
       \/ i \in 1 .. Len(q) /\ j \in 1 .. Len(q[i])
       \/ i = Len(q) /\ j > Len(q[i]) /\ r[i][j].op = "flush"
       \/ i = Len(q) /\ j = Len(q[i]) + 1 /\ r[i][j] = c
  /\ c.op # "flush" => c \in CommandsIn(r)

LEMMA ExtendsOrder ==
  ASSUME NEW q \in Seq(Seq(CommandRecords)), NEW r \in Seq(Seq(CommandRecords)), NEW c,
         Extends(q, r, c), InOrder(q),
         c.op # "flush" => \A a \in CommandsIn(q) : a.op # "flush" => Ordered(a, c)
  PROVE  InOrder(r)
<1>1. SUFFICES ASSUME NEW i \in 1 .. Len(r), NEW k \in 1 .. Len(r),
                      NEW j \in 1 .. Len(r[i]), NEW l \in 1 .. Len(r[k]),
                      Before(i, j, k, l), r[i][j].op # "flush", r[k][l].op # "flush"
               PROVE  Ordered(r[i][j], r[k][l])
  BY DEF InOrder
<1>2. /\ Len(q) \in Nat /\ Len(r) \in Nat /\ Len(r[i]) \in Nat /\ Len(r[k]) \in Nat
      /\ i \in Nat /\ j \in Nat /\ k \in Nat /\ l \in Nat
  OBVIOUS
<1>3. \A a \in 1 .. Len(q) : Len(q[a]) \in Nat
  OBVIOUS
<1>4. /\ \/ i \in 1 .. Len(q) /\ j \in 1 .. Len(q[i]) /\ r[i][j] = q[i][j]
         \/ i = Len(q) /\ j = Len(q[i]) + 1 /\ r[i][j] = c
      /\ \/ k \in 1 .. Len(q) /\ l \in 1 .. Len(q[k]) /\ r[k][l] = q[k][l]
         \/ k = Len(q) /\ l = Len(q[k]) + 1 /\ r[k][l] = c
  BY <1>1 DEF Extends
<1>5. CASE /\ i \in 1 .. Len(q) /\ j \in 1 .. Len(q[i]) /\ r[i][j] = q[i][j]
           /\ k \in 1 .. Len(q) /\ l \in 1 .. Len(q[k]) /\ r[k][l] = q[k][l]
  BY <1>1, <1>5 DEF InOrder
<1>6. CASE /\ i \in 1 .. Len(q) /\ j \in 1 .. Len(q[i]) /\ r[i][j] = q[i][j]
           /\ r[k][l] = c
  <2>1. q[i][j] \in CommandsIn(q)
    BY <1>6, CommandMember
  <2>. QED
    BY <2>1, <1>1, <1>6
<1>7. CASE /\ i = Len(q) /\ j = Len(q[i]) + 1
           /\ k \in 1 .. Len(q) /\ l \in 1 .. Len(q[k])
  BY <1>1, <1>2, <1>3, <1>7 DEF Before
<1>8. CASE /\ i = Len(q) /\ j = Len(q[i]) + 1
           /\ k = Len(q) /\ l = Len(q[k]) + 1
  <2>1. i < k \/ (i = k /\ j < l)
    BY <1>1 DEF Before
  <2>2. i = k /\ j = l
    BY <1>8
  <2>. QED
    BY <2>1, <2>2, <1>2
<1>. QED
  BY <1>4, <1>5, <1>6, <1>7, <1>8

LEMMA ExtendsCommands ==
  ASSUME NEW q, NEW r, NEW c, Extends(q, r, c)
  PROVE  Adds(CommandsIn(q), CommandsIn(r), c)
<1>1. ASSUME NEW x \in CommandsIn(q) PROVE x \in CommandsIn(r)
  <2>1. PICK i \in 1 .. Len(q) : \E j \in 1 .. Len(q[i]) : x = q[i][j]
    BY CommandPlace
  <2>2. PICK j \in 1 .. Len(q[i]) : x = q[i][j]
    BY <2>1
  <2>3. i \in 1 .. Len(r) /\ j \in 1 .. Len(r[i]) /\ x = r[i][j]
    BY <2>2 DEF Extends
  <2>. QED
    BY <2>3, CommandMember
<1>2. ASSUME NEW x \in CommandsIn(r) PROVE x \in CommandsIn(q) \/ x.op = "flush" \/ x = c
  <2>1. PICK i \in 1 .. Len(r) : \E j \in 1 .. Len(r[i]) : x = r[i][j]
    BY CommandPlace
  <2>2. PICK j \in 1 .. Len(r[i]) : x = r[i][j]
    BY <2>1
  <2>3. CASE i \in 1 .. Len(q) /\ j \in 1 .. Len(q[i])
    <3>1. x = q[i][j]
      BY <2>2, <2>3 DEF Extends
    <3>. QED
      BY <2>3, <3>1, CommandMember
  <2>. QED
    BY <2>2, <2>3 DEF Extends
<1>. QED
  BY <1>1, <1>2 DEF Adds, Extends

\* The chunks r are the chunks q without the first command.
Pops(q, r) ==
  /\ Len(q) = Len(r) /\ Len(q) > 0 /\ Len(q[1]) > 0
  /\ \A i \in 1 .. Len(r) : \A j \in 1 .. Len(r[i]) :
       IF i = 1 THEN j + 1 \in 1 .. Len(q[1]) /\ r[1][j] = q[1][j + 1]
       ELSE j \in 1 .. Len(q[i]) /\ r[i][j] = q[i][j]
  /\ \A i \in 1 .. Len(q) : \A j \in 1 .. Len(q[i]) :
       IF i = 1 THEN j = 1 \/ (j - 1 \in 1 .. Len(r[1]) /\ q[1][j] = r[1][j - 1])
       ELSE j \in 1 .. Len(r[i]) /\ q[i][j] = r[i][j]

\* The chunks r are the chunks q without the first one, which is empty.
Finishes(q, r) ==
  /\ Len(q) > 0 /\ Len(q[1]) = 0
  /\ Len(q) = Len(r) + 1
  /\ \A i \in 1 .. Len(r) : r[i] = q[i + 1]

LEMMA PopsOrder ==
  ASSUME NEW q \in Seq(Seq(CommandRecords)), NEW r \in Seq(Seq(CommandRecords)), Pops(q, r),
         InOrder(q)
  PROVE  /\ InOrder(r)
         /\ Drops(CommandsIn(q), CommandsIn(r), q[1][1])
         /\ \A x \in CommandsIn(r) : x.op # "flush" /\ q[1][1].op # "flush" => Ordered(q[1][1], x)
<1>0. Len(q) \in Nat /\ Len(r) \in Nat /\ \A i \in 1 .. Len(r) : Len(r[i]) \in Nat /\ Len(q[i]) \in Nat
  BY DEF Pops
<1>1. InOrder(r)
  <2>1. SUFFICES ASSUME NEW i \in 1 .. Len(r), NEW k \in 1 .. Len(r),
                        NEW j \in 1 .. Len(r[i]), NEW l \in 1 .. Len(r[k]),
                        Before(i, j, k, l), r[i][j].op # "flush", r[k][l].op # "flush"
                 PROVE  Ordered(r[i][j], r[k][l])
    BY DEF InOrder
  <2>2. PICK j2 \in 1 .. Len(q[i]) : r[i][j] = q[i][j2] /\ j2 = IF i = 1 THEN j + 1 ELSE j
    BY DEF Pops
  <2>3. PICK l2 \in 1 .. Len(q[k]) : r[k][l] = q[k][l2] /\ l2 = IF k = 1 THEN l + 1 ELSE l
    BY DEF Pops
  <2>4. Before(i, j2, k, l2)
    BY <2>1, <2>2, <2>3, <1>0 DEF Before
  <2>5. i \in 1 .. Len(q) /\ k \in 1 .. Len(q)
    BY DEF Pops
  <2>. QED
    BY <2>1, <2>2, <2>3, <2>4, <2>5 DEF InOrder
<1>2. ASSUME NEW x \in CommandsIn(q) PROVE x \in CommandsIn(r) \/ x = q[1][1]
  <2>1. PICK i \in 1 .. Len(q) : \E j \in 1 .. Len(q[i]) : x = q[i][j]
    BY CommandPlace
  <2>2. PICK j \in 1 .. Len(q[i]) : x = q[i][j]
    BY <2>1
  <2>3. CASE i = 1 /\ j = 1
    BY <2>2, <2>3
  <2>4. CASE ~(i = 1 /\ j = 1)
    <3>1. i \in 1 .. Len(r)
      BY DEF Pops
    <3>2. \E j2 \in 1 .. Len(r[i]) : x = r[i][j2]
      <4>1. CASE i = 1
        <5>1. j - 1 \in 1 .. Len(r[1]) /\ q[1][j] = r[1][j - 1]
          BY <2>4, <4>1 DEF Pops
        <5>. QED
          BY <5>1, <4>1, <2>2
      <4>2. CASE i # 1
        BY <2>2, <4>2 DEF Pops
      <4>. QED
        BY <4>1, <4>2
    <3>. QED
      BY <3>1, <3>2, CommandMember
  <2>. QED
    BY <2>3, <2>4
<1>3. q[1][1] \in CommandsIn(q)
  <2>1. 1 \in 1 .. Len(q) /\ 1 \in 1 .. Len(q[1])
    BY <1>0 DEF Pops
  <2>. QED
    BY <2>1, CommandMember
<1>4. ASSUME NEW x \in CommandsIn(r)
      PROVE  /\ x \in CommandsIn(q)
             /\ x.op # "flush" /\ q[1][1].op # "flush" => Ordered(q[1][1], x)
  <2>1. PICK i \in 1 .. Len(r) : \E j \in 1 .. Len(r[i]) : x = r[i][j]
    BY CommandPlace
  <2>2. PICK j \in 1 .. Len(r[i]) : x = r[i][j]
    BY <2>1
  <2>3. PICK j2 \in 1 .. Len(q[i]) : r[i][j] = q[i][j2] /\ j2 = IF i = 1 THEN j + 1 ELSE j
    BY DEF Pops
  <2>4. i \in 1 .. Len(q) /\ 1 \in 1 .. Len(q) /\ 1 \in 1 .. Len(q[1])
    BY <1>0 DEF Pops
  <2>5. x \in CommandsIn(q)
    BY <2>2, <2>3, <2>4, CommandMember
  <2>6. Before(1, 1, i, j2)
    BY <2>3, <2>4, <1>0 DEF Before
  <2>. QED
    BY <2>2, <2>3, <2>4, <2>5, <2>6 DEF InOrder
<1>. QED
  BY <1>1, <1>2, <1>3, <1>4 DEF Drops

LEMMA FinishesOrder ==
  ASSUME NEW q \in Seq(Seq(CommandRecords)), NEW r \in Seq(Seq(CommandRecords)), Finishes(q, r),
         InOrder(q)
  PROVE  InOrder(r) /\ CommandsIn(r) = CommandsIn(q)
<1>0. Len(q) \in Nat /\ Len(r) \in Nat
  OBVIOUS
<1>1. InOrder(r)
  <2>1. SUFFICES ASSUME NEW i \in 1 .. Len(r), NEW k \in 1 .. Len(r),
                        NEW j \in 1 .. Len(r[i]), NEW l \in 1 .. Len(r[k]),
                        Before(i, j, k, l), r[i][j].op # "flush", r[k][l].op # "flush"
                 PROVE  Ordered(r[i][j], r[k][l])
    BY DEF InOrder
  <2>2. PICK i2 \in 1 .. Len(q) : i2 = i + 1 /\ r[i] = q[i2]
    BY <1>0 DEF Finishes
  <2>3. PICK k2 \in 1 .. Len(q) : k2 = k + 1 /\ r[k] = q[k2]
    BY <1>0 DEF Finishes
  <2>4. Before(i2, j, k2, l)
    BY <2>1, <2>2, <2>3 DEF Before
  <2>. QED
    BY <2>1, <2>2, <2>3, <2>4 DEF InOrder
<1>2. ASSUME NEW x \in CommandsIn(r) PROVE x \in CommandsIn(q)
  <2>1. PICK i \in 1 .. Len(r) : \E j \in 1 .. Len(r[i]) : x = r[i][j]
    BY CommandPlace
  <2>2. PICK i2 \in 1 .. Len(q) : r[i] = q[i2]
    <3>1. i + 1 \in 1 .. Len(q) /\ r[i] = q[i + 1]
      BY <1>0 DEF Finishes
    <3>. QED
      BY <3>1
  <2>. QED
    BY <2>1, <2>2, CommandMember
<1>3. ASSUME NEW x \in CommandsIn(q) PROVE x \in CommandsIn(r)
  <2>1. PICK i \in 1 .. Len(q) : \E j \in 1 .. Len(q[i]) : x = q[i][j]
    BY CommandPlace
  <2>2. i # 1
    BY <2>1 DEF Finishes
  <2>3. PICK i2 \in 1 .. Len(r) : i2 + 1 = i
    <3>1. i - 1 \in 1 .. Len(r) /\ (i - 1) + 1 = i
      BY <2>2, <1>0 DEF Finishes
    <3>. QED
      BY <3>1
  <2>4. r[i2] = q[i]
    BY <2>3 DEF Finishes
  <2>. QED
    BY <2>1, <2>4, CommandMember
<1>. QED
  BY <1>1, <1>2, <1>3
-----------------------------------------------------------------------------
(* Sequences of command lists                                              *)

\* Command lists that differ in what they free only.
SameUses(ls, rs) ==
  /\ Len(rs) = Len(ls)
  /\ \A i \in 1 .. Len(ls) : rs[i].uses = ls[i].uses /\ rs[i].done = ls[i].done

LEMMA SameUsesSame ==
  ASSUME NEW ls, NEW rs, SameUses(ls, rs)
  PROVE  /\ UsesIn(rs) = UsesIn(ls) /\ PendingIn(rs) = PendingIn(ls)
         /\ ListsInOrder(ls) => ListsInOrder(rs)
<1>1. UsesIn(rs) = UsesIn(ls)
  <2>1. ASSUME NEW u \in UsesIn(ls) PROVE u \in UsesIn(rs)
    BY UsePlace, UseMember DEF SameUses
  <2>2. ASSUME NEW u \in UsesIn(rs) PROVE u \in UsesIn(ls)
    BY UsePlace, UseMember DEF SameUses
  <2>. QED
    BY <2>1, <2>2
<1>2. PendingIn(rs) = PendingIn(ls)
  <2>1. ASSUME NEW u \in PendingIn(ls) PROVE u \in PendingIn(rs)
    BY PendingPlace, PendingMember DEF SameUses
  <2>2. ASSUME NEW u \in PendingIn(rs) PROVE u \in PendingIn(ls)
    BY PendingPlace, PendingMember DEF SameUses
  <2>. QED
    BY <2>1, <2>2
<1>3. ListsInOrder(ls) => ListsInOrder(rs)
  BY DEF SameUses, ListsInOrder
<1>. QED
  BY <1>1, <1>2, <1>3

\* The last command list, of which nothing is done, got one more use.
Records(ls, rs, u) ==
  /\ Len(rs) = Len(ls) /\ Len(ls) > 0
  /\ \A i \in 1 .. Len(ls) :
       /\ rs[i].done = ls[i].done /\ rs[i].freed = ls[i].freed
       /\ rs[i].uses = IF i = Len(ls) THEN Append(ls[i].uses, u) ELSE ls[i].uses
  /\ ls[Len(ls)].done = 0

LEMMA RecordsOrder ==
  ASSUME NEW ls \in Seq(ListRecords), NEW rs \in Seq(ListRecords), NEW u \in UseRecords,
         Records(ls, rs, u), ListsInOrder(ls), \A v \in UsesIn(ls) : Ordered(v, u)
  PROVE  /\ ListsInOrder(rs)
         /\ \A v \in UsesIn(rs) : v \in UsesIn(ls) \/ v = u
         /\ \A v \in PendingIn(rs) : v \in PendingIn(ls) \/ v = u
         /\ PendingIn(ls) \subseteq PendingIn(rs) /\ u \in PendingIn(rs)
<1>. DEFINE n == Len(ls)
<1>0. /\ n \in Nat /\ n > 0 /\ Len(rs) = n
      /\ \A i \in 1 .. n : ls[i].uses \in Seq(UseRecords) /\ ls[i].done \in Nat
  <2>1. \A i \in 1 .. n : ls[i] \in ListRecords
    OBVIOUS
  <2>2. n \in Nat /\ n > 0 /\ Len(rs) = n
    BY DEF Records
  <2>. QED
    BY <2>1, <2>2 DEF ListRecords
<1>. HIDE DEF n
<1>1. \A i \in 1 .. n : i # n => rs[i].uses = ls[i].uses /\ rs[i].done = ls[i].done
  BY DEF Records, n
<1>2. /\ Len(rs[n].uses) = Len(ls[n].uses) + 1 /\ rs[n].uses[Len(ls[n].uses) + 1] = u
      /\ \A j \in 1 .. Len(ls[n].uses) : rs[n].uses[j] = ls[n].uses[j]
      /\ rs[n].done = 0 /\ ls[n].done = 0 /\ Len(ls[n].uses) \in Nat
  <2>1. n \in 1 .. n
    BY <1>0
  <2>2. rs[n].uses = Append(ls[n].uses, u) /\ rs[n].done = 0 /\ ls[n].done = 0
    BY <2>1 DEF Records, n
  <2>3. ls[n].uses \in Seq(UseRecords)
    BY <2>1, <1>0
  <2>. QED
    BY <2>2, <2>3
\* A place in rs is one in ls or the last.
<1>3. \A i \in 1 .. n : \A j \in 1 .. Len(rs[i].uses) :
        \/ j \in 1 .. Len(ls[i].uses) /\ rs[i].uses[j] = ls[i].uses[j]
        \/ i = n /\ j = Len(ls[n].uses) + 1 /\ rs[i].uses[j] = u
  <2>1. TAKE i \in 1 .. n
  <2>2. TAKE j \in 1 .. Len(rs[i].uses)
  <2>3. CASE i = n
    BY <2>3, <1>2
  <2>4. CASE i # n
    BY <2>4, <1>1
  <2>. QED
    BY <2>3, <2>4
<1>4. \A i \in 1 .. n : \A j \in 1 .. Len(ls[i].uses) :
        j \in 1 .. Len(rs[i].uses) /\ rs[i].uses[j] = ls[i].uses[j] /\ rs[i].done = ls[i].done
  <2>1. TAKE i \in 1 .. n
  <2>2. TAKE j \in 1 .. Len(ls[i].uses)
  <2>3. CASE i = n
    BY <2>3, <1>2
  <2>4. CASE i # n
    BY <2>4, <1>1
  <2>. QED
    BY <2>3, <2>4
<1>5. ListsInOrder(rs)
  <2>1. SUFFICES ASSUME NEW i \in 1 .. n, NEW k \in 1 .. n,
                        NEW j \in 1 .. Len(rs[i].uses), NEW l \in 1 .. Len(rs[k].uses),
                        Before(i, j, k, l)
                 PROVE  Ordered(rs[i].uses[j], rs[k].uses[l])
    BY <1>0 DEF ListsInOrder
  <2>2. CASE /\ j \in 1 .. Len(ls[i].uses) /\ rs[i].uses[j] = ls[i].uses[j]
             /\ l \in 1 .. Len(ls[k].uses) /\ rs[k].uses[l] = ls[k].uses[l]
    BY <2>1, <2>2 DEF ListsInOrder, n
  <2>3. CASE /\ j \in 1 .. Len(ls[i].uses) /\ rs[i].uses[j] = ls[i].uses[j]
             /\ rs[k].uses[l] = u
    <3>1. ls[i].uses[j] \in UsesIn(ls)
      BY <2>3, UseMember DEF n
    <3>. QED
      BY <3>1, <2>3
  <2>4. CASE i = n /\ j = Len(ls[n].uses) + 1
    <3>1. \A m \in 1 .. n : ~(n < m)
      BY <1>0
    <3>2. k = n /\ j < l
      BY <2>1, <2>4, <3>1 DEF Before
    <3>3. l <= Len(ls[n].uses) + 1
      BY <3>2, <1>2
    <3>. QED
      BY <2>4, <3>2, <3>3, <1>2
  <2>. QED
    BY <2>2, <2>3, <2>4, <1>3
<1>6. ASSUME NEW v \in UsesIn(rs) PROVE v \in UsesIn(ls) \/ v = u
  <2>1. PICK i \in 1 .. Len(rs) : \E j \in 1 .. Len(rs[i].uses) : v = rs[i].uses[j]
    BY UsePlace
  <2>2. PICK j \in 1 .. Len(rs[i].uses) : v = rs[i].uses[j]
    BY <2>1
  <2>3. i \in 1 .. n /\ i \in 1 .. Len(ls)
    BY <1>0 DEF n
  <2>. QED
    BY <2>2, <2>3, <1>3, UseMember
<1>7. ASSUME NEW v \in PendingIn(rs) PROVE v \in PendingIn(ls) \/ v = u
  <2>1. PICK i \in 1 .. Len(rs) : \E j \in rs[i].done + 1 .. Len(rs[i].uses) : v = rs[i].uses[j]
    BY PendingPlace
  <2>2. PICK j \in rs[i].done + 1 .. Len(rs[i].uses) : v = rs[i].uses[j]
    BY <2>1
  <2>3. i \in 1 .. n /\ i \in 1 .. Len(ls)
    BY <1>0 DEF n
  <2>4. rs[i].done = ls[i].done /\ ls[i].done \in Nat
    BY <2>3, <1>0 DEF Records, n
  <2>5. j \in 1 .. Len(rs[i].uses)
    BY <2>4
  <2>6. CASE j \in 1 .. Len(ls[i].uses) /\ rs[i].uses[j] = ls[i].uses[j]
    <3>1. j \in ls[i].done + 1 .. Len(ls[i].uses)
      BY <2>4, <2>6
    <3>. QED
      BY <3>1, <2>2, <2>3, <2>6, PendingMember
  <2>. QED
    BY <2>2, <2>3, <2>5, <2>6, <1>3
<1>8. ASSUME NEW v \in PendingIn(ls) PROVE v \in PendingIn(rs)
  <2>1. PICK i \in 1 .. Len(ls) : \E j \in ls[i].done + 1 .. Len(ls[i].uses) : v = ls[i].uses[j]
    BY PendingPlace
  <2>2. PICK j \in ls[i].done + 1 .. Len(ls[i].uses) : v = ls[i].uses[j]
    BY <2>1
  <2>3. i \in 1 .. n /\ i \in 1 .. Len(rs) /\ ls[i].done \in Nat
    BY <1>0 DEF n
  <2>4. j \in 1 .. Len(ls[i].uses)
    BY <2>3
  <2>5. j \in 1 .. Len(rs[i].uses) /\ rs[i].uses[j] = ls[i].uses[j] /\ rs[i].done = ls[i].done
    BY <2>3, <2>4, <1>4
  <2>6. j \in rs[i].done + 1 .. Len(rs[i].uses)
    BY <2>3, <2>5
  <2>. QED
    BY <2>2, <2>3, <2>5, <2>6, PendingMember
<1>9. u \in PendingIn(rs)
  <2>1. n \in 1 .. Len(rs)
    BY <1>0
  <2>2. PICK m : m = Len(ls[n].uses) + 1
    OBVIOUS
  <2>3. m \in rs[n].done + 1 .. Len(rs[n].uses) /\ u = rs[n].uses[m]
    BY <2>2, <1>2
  <2>. QED
    BY <2>1, <2>3, PendingMember
<1>. QED
  BY <1>5, <1>6, <1>7, <1>8, <1>9

\* A command list without uses is appended.
LEMMA SubmitsSame ==
  ASSUME NEW ls \in Seq(ListRecords), NEW e \in ListRecords, e.uses = <<>>, ListsInOrder(ls)
  PROVE  LET rs == Append(ls, e)
         IN  ListsInOrder(rs) /\ UsesIn(rs) = UsesIn(ls) /\ PendingIn(rs) = PendingIn(ls)
<1>. DEFINE rs == Append(ls, e)
            n == Len(ls)
<1>1. /\ n \in Nat /\ Len(rs) = n + 1 /\ rs[n + 1] = e /\ Len(rs[n + 1].uses) = 0
      /\ \A i \in 1 .. n : rs[i] = ls[i]
      /\ e.done \in Nat
  BY DEF ListRecords
<1>. HIDE DEF rs, n
<1>2. \A i \in 1 .. Len(rs) : i = n + 1 \/ (i \in 1 .. Len(ls) /\ rs[i] = ls[i])
  BY <1>1 DEF n
<1>3. \A i \in 1 .. Len(ls) : i \in 1 .. Len(rs) /\ rs[i] = ls[i]
  BY <1>1 DEF n
<1>4. \A i \in 1 .. Len(rs) : Len(rs[i].uses) = 0 \/ (i \in 1 .. Len(ls) /\ rs[i] = ls[i])
  BY <1>1, <1>2
<1>5. ListsInOrder(rs)
  <2>1. SUFFICES ASSUME NEW i \in 1 .. Len(rs), NEW k \in 1 .. Len(rs),
                        NEW j \in 1 .. Len(rs[i].uses), NEW l \in 1 .. Len(rs[k].uses),
                        Before(i, j, k, l)
                 PROVE  Ordered(rs[i].uses[j], rs[k].uses[l])
    BY DEF ListsInOrder
  <2>2. Len(rs[i].uses) # 0 /\ Len(rs[k].uses) # 0
    OBVIOUS
  <2>. QED
    BY <2>1, <2>2, <1>4 DEF ListsInOrder
<1>6. ASSUME NEW v \in UsesIn(rs) PROVE v \in UsesIn(ls)
  <2>1. PICK i \in 1 .. Len(rs) : \E j \in 1 .. Len(rs[i].uses) : v = rs[i].uses[j]
    BY UsePlace
  <2>2. Len(rs[i].uses) # 0
    BY <2>1
  <2>. QED
    BY <2>1, <2>2, <1>4, UseMember
<1>7. ASSUME NEW v \in UsesIn(ls) PROVE v \in UsesIn(rs)
  BY <1>3, UsePlace, UseMember
<1>8. ASSUME NEW v \in PendingIn(rs) PROVE v \in PendingIn(ls)
  <2>1. PICK i \in 1 .. Len(rs) : \E j \in rs[i].done + 1 .. Len(rs[i].uses) : v = rs[i].uses[j]
    BY PendingPlace
  <2>2. CASE i = n + 1
    BY <2>1, <2>2, <1>1
  <2>3. CASE i \in 1 .. Len(ls) /\ rs[i] = ls[i]
    BY <2>1, <2>3, PendingMember
  <2>. QED
    BY <2>2, <2>3, <1>2
<1>9. ASSUME NEW v \in PendingIn(ls) PROVE v \in PendingIn(rs)
  BY <1>3, PendingPlace, PendingMember
<1>10. UsesIn(rs) = UsesIn(ls)
  BY <1>6, <1>7
<1>11. PendingIn(rs) = PendingIn(ls)
  BY <1>8, <1>9
<1>. QED
  BY <1>5, <1>10, <1>11 DEF rs
\* The first command list, which is done, is dropped.
Retires(ls, rs) ==
  /\ Len(ls) = Len(rs) + 1
  /\ \A i \in 1 .. Len(rs) : rs[i] = ls[i + 1]
  /\ ls[1].done = Len(ls[1].uses)

LEMMA RetiresSame ==
  ASSUME NEW ls \in Seq(ListRecords), NEW rs \in Seq(ListRecords), Retires(ls, rs),
         ListsInOrder(ls)
  PROVE  /\ ListsInOrder(rs) /\ UsesIn(rs) \subseteq UsesIn(ls) /\ PendingIn(rs) = PendingIn(ls)
<1>0. Len(ls) \in Nat /\ Len(rs) \in Nat
  OBVIOUS
<1>1. \A i \in 1 .. Len(rs) : \E k \in 1 .. Len(ls) : k = i + 1 /\ rs[i] = ls[k]
  <2>1. TAKE i \in 1 .. Len(rs)
  <2>2. i + 1 \in 1 .. Len(ls) /\ rs[i] = ls[i + 1]
    BY <1>0 DEF Retires
  <2>. QED
    BY <2>2
<1>2. \A k \in 1 .. Len(ls) : k = 1 \/ \E i \in 1 .. Len(rs) : k = i + 1 /\ rs[i] = ls[k]
  <2>1. TAKE k \in 1 .. Len(ls)
  <2>2. ASSUME k # 1 PROVE \E i \in 1 .. Len(rs) : k = i + 1 /\ rs[i] = ls[k]
    <3>1. PICK i \in 1 .. Len(rs) : k = i + 1
      <4>1. k - 1 \in 1 .. Len(rs) /\ k = (k - 1) + 1
        BY <2>2, <1>0 DEF Retires
      <4>. QED
        BY <4>1
    <3>. QED
      BY <3>1 DEF Retires
  <2>. QED
    BY <2>2
<1>3. ListsInOrder(rs)
  <2>1. SUFFICES ASSUME NEW i \in 1 .. Len(rs), NEW k \in 1 .. Len(rs),
                        NEW j \in 1 .. Len(rs[i].uses), NEW l \in 1 .. Len(rs[k].uses),
                        Before(i, j, k, l)
                 PROVE  Ordered(rs[i].uses[j], rs[k].uses[l])
    BY DEF ListsInOrder
  <2>2. PICK i2 \in 1 .. Len(ls) : i2 = i + 1 /\ rs[i] = ls[i2]
    BY <1>1
  <2>3. PICK k2 \in 1 .. Len(ls) : k2 = k + 1 /\ rs[k] = ls[k2]
    BY <1>1
  <2>4. Before(i2, j, k2, l)
    BY <2>1, <2>2, <2>3 DEF Before
  <2>. QED
    BY <2>2, <2>3, <2>4 DEF ListsInOrder
<1>4. ASSUME NEW v \in UsesIn(rs) PROVE v \in UsesIn(ls)
  <2>1. PICK i \in 1 .. Len(rs) : \E j \in 1 .. Len(rs[i].uses) : v = rs[i].uses[j]
    BY UsePlace
  <2>2. PICK k \in 1 .. Len(ls) : rs[i] = ls[k]
    BY <1>1
  <2>. QED
    BY <2>1, <2>2, UseMember
<1>5. ASSUME NEW v \in PendingIn(rs) PROVE v \in PendingIn(ls)
  <2>1. PICK i \in 1 .. Len(rs) : \E j \in rs[i].done + 1 .. Len(rs[i].uses) : v = rs[i].uses[j]
    BY PendingPlace
  <2>2. PICK k \in 1 .. Len(ls) : rs[i] = ls[k]
    BY <1>1
  <2>. QED
    BY <2>1, <2>2, PendingMember
<1>6. ASSUME NEW v \in PendingIn(ls) PROVE v \in PendingIn(rs)
  <2>1. PICK k \in 1 .. Len(ls) : \E j \in ls[k].done + 1 .. Len(ls[k].uses) : v = ls[k].uses[j]
    BY PendingPlace
  <2>2. k # 1
    <3>1. ASSUME k = 1 PROVE FALSE
      <4>1. PICK d : d = ls[1].done
        OBVIOUS
      <4>2. PICK j \in d + 1 .. d : v = ls[k].uses[j]
        BY <2>1, <3>1, <4>1 DEF Retires
      <4>3. d \in Nat
        <5>1. ls[1] \in ListRecords
          BY <3>1
        <5>. QED
          BY <4>1, <5>1 DEF ListRecords
      <4>. QED
        BY <4>2, <4>3
    <3>. QED
      BY <3>1
  <2>3. PICK i \in 1 .. Len(rs) : rs[i] = ls[k]
    BY <2>2, <1>2
  <2>. QED
    BY <2>1, <2>3, PendingMember
<1>7. PendingIn(rs) = PendingIn(ls)
  BY <1>5, <1>6
<1>. QED
  BY <1>3, <1>4, <1>7

\* The next use of the first command list, u, is done.
Advances(ls, rs, u) ==
  /\ Len(rs) = Len(ls) /\ Len(ls) > 0
  /\ \A i \in 1 .. Len(ls) : /\ rs[i].uses = ls[i].uses /\ rs[i].freed = ls[i].freed
                             /\ rs[i].done = IF i = 1 THEN ls[i].done + 1 ELSE ls[i].done
  /\ ls[1].done + 1 \in 1 .. Len(ls[1].uses)
  /\ u = ls[1].uses[ls[1].done + 1]

LEMMA AdvancesOrder ==
  ASSUME NEW ls \in Seq(ListRecords), NEW rs \in Seq(ListRecords), NEW u, Advances(ls, rs, u),
         ListsInOrder(ls)
  PROVE  /\ ListsInOrder(rs) /\ UsesIn(rs) = UsesIn(ls)
         /\ \A v \in PendingIn(ls) : v \in PendingIn(rs) \/ v = u
         /\ PendingIn(rs) \subseteq PendingIn(ls) /\ u \in PendingIn(ls)
         /\ \A v \in PendingIn(rs) : Ordered(u, v)
<1>0. /\ Len(ls) \in Nat /\ \A i \in 1 .. Len(ls) : ls[i].done \in Nat
      /\ 1 \in 1 .. Len(ls)
  <2>1. \A i \in 1 .. Len(ls) : ls[i] \in ListRecords
    OBVIOUS
  <2>2. Len(ls) \in Nat /\ 1 \in 1 .. Len(ls)
    BY DEF Advances
  <2>. QED
    BY <2>1, <2>2 DEF ListRecords
<1>1. ListsInOrder(rs)
  BY DEF ListsInOrder, Advances
<1>2. UsesIn(rs) = UsesIn(ls)
  <2>1. ASSUME NEW v \in UsesIn(ls) PROVE v \in UsesIn(rs)
    BY UsePlace, UseMember DEF Advances
  <2>2. ASSUME NEW v \in UsesIn(rs) PROVE v \in UsesIn(ls)
    BY UsePlace, UseMember DEF Advances
  <2>. QED
    BY <2>1, <2>2
<1>3. PICK d \in Nat : d = ls[1].done
  BY <1>0
<1>4. /\ d + 1 \in 1 .. Len(ls[1].uses) /\ u = ls[1].uses[d + 1] /\ rs[1].done = d + 1
      /\ rs[1].uses = ls[1].uses
  BY <1>0, <1>3 DEF Advances
<1>5. u \in PendingIn(ls)
  <2>1. d + 1 \in ls[1].done + 1 .. Len(ls[1].uses)
    BY <1>3, <1>4
  <2>. QED
    BY <2>1, <1>0, <1>4, PendingMember
<1>6. ASSUME NEW v \in PendingIn(ls) PROVE v \in PendingIn(rs) \/ v = u
  <2>1. PICK i \in 1 .. Len(ls) : \E j \in ls[i].done + 1 .. Len(ls[i].uses) : v = ls[i].uses[j]
    BY PendingPlace
  <2>2. PICK j \in ls[i].done + 1 .. Len(ls[i].uses) : v = ls[i].uses[j]
    BY <2>1
  <2>3. i \in 1 .. Len(rs) /\ rs[i].uses = ls[i].uses
    BY DEF Advances
  <2>4. CASE i = 1
    <3>1. j = d + 1 \/ j \in (d + 1) + 1 .. Len(ls[1].uses)
      BY <2>4, <1>3
    <3>. QED
      BY <3>1, <2>2, <2>3, <2>4, <1>4, PendingMember
  <2>5. CASE i # 1
    <3>1. rs[i].done = ls[i].done
      BY <2>5 DEF Advances
    <3>. QED
      BY <3>1, <2>2, <2>3, PendingMember
  <2>. QED
    BY <2>4, <2>5
<1>7. ASSUME NEW v \in PendingIn(rs) PROVE v \in PendingIn(ls) /\ Ordered(u, v)
  <2>1. PICK i \in 1 .. Len(rs) : \E j \in rs[i].done + 1 .. Len(rs[i].uses) : v = rs[i].uses[j]
    BY PendingPlace
  <2>2. PICK j \in rs[i].done + 1 .. Len(rs[i].uses) : v = rs[i].uses[j]
    BY <2>1
  <2>3. i \in 1 .. Len(ls) /\ rs[i].uses = ls[i].uses /\ ls[i].done \in Nat
    BY <1>0 DEF Advances
  <2>4. CASE i = 1
    <3>1. j \in d + 1 .. Len(ls[1].uses) /\ d + 1 < j
      BY <2>3, <2>4, <1>4
    <3>2. j \in ls[i].done + 1 .. Len(ls[i].uses) /\ j \in 1 .. Len(ls[1].uses)
      BY <3>1, <2>4, <1>3
    <3>3. Before(1, d + 1, 1, j)
      BY <3>1 DEF Before
    <3>4. Ordered(ls[1].uses[d + 1], ls[1].uses[j])
      BY <3>2, <3>3, <1>0, <1>4 DEF ListsInOrder
    <3>5. v \in PendingIn(ls)
      BY <3>2, <2>2, <2>3, PendingMember
    <3>. QED
      BY <3>4, <3>5, <2>2, <2>3, <2>4, <1>4
  <2>5. CASE i # 1
    <3>1. rs[i].done = ls[i].done
      BY <2>3, <2>5 DEF Advances
    <3>2. j \in ls[i].done + 1 .. Len(ls[i].uses) /\ j \in 1 .. Len(ls[i].uses)
      BY <3>1, <2>3
    <3>3. Before(1, d + 1, i, j)
      BY <2>3, <2>5, <1>0 DEF Before
    <3>4. Ordered(ls[1].uses[d + 1], ls[i].uses[j])
      BY <3>2, <3>3, <2>3, <1>0, <1>4 DEF ListsInOrder
    <3>5. v \in PendingIn(ls)
      BY <3>2, <2>2, <2>3, PendingMember
    <3>. QED
      BY <3>4, <3>5, <2>2, <2>3, <1>4
  <2>. QED
    BY <2>4, <2>5
<1>. QED
  BY <1>1, <1>2, <1>5, <1>6, <1>7

-----------------------------------------------------------------------------
(* Slices of command lists                                                 *)

LEMMA SameFreed ==
  ASSUME NEW ls, NEW rs, Len(rs) = Len(ls), \A i \in 1 .. Len(ls) : rs[i].freed = ls[i].freed
  PROVE  FreedIn(rs) = FreedIn(ls) /\ (FreedOnce(ls) => FreedOnce(rs))
BY DEF FreedIn, FreedOnce

LEMMA RecordsHeld ==
  ASSUME NEW ls \in Seq(ListRecords), NEW rs \in Seq(ListRecords), NEW u \in UseRecords,
         NEW p, Records(ls, rs, u), u.slice = p, Held(ls, p)
  PROVE  Held(rs, p)
<1>1. SUFFICES ASSUME NEW i \in 1 .. Len(rs), NEW j \in 1 .. Len(rs[i].uses)
               PROVE  rs[i].uses[j].slice = p \/ \E k \in i .. Len(rs) : rs[i].uses[j].slice \in rs[k].freed
  BY DEF Held
<1>2. i \in 1 .. Len(ls) /\ Len(rs) = Len(ls) /\ Len(ls) \in Nat
  BY DEF Records
<1>3. \A k \in i .. Len(ls) : rs[k].freed = ls[k].freed
  BY <1>2 DEF Records
<1>4. ls[i].uses \in Seq(UseRecords)
  <2>1. ls[i] \in ListRecords
    BY <1>2
  <2>. QED
    BY <2>1 DEF ListRecords
<1>5. rs[i].uses = ls[i].uses \/ rs[i].uses = Append(ls[i].uses, u)
  BY <1>2 DEF Records
<1>6. (j \in 1 .. Len(ls[i].uses) /\ rs[i].uses[j] = ls[i].uses[j]) \/ rs[i].uses[j] = u
  BY <1>4, <1>5
<1>. QED
  BY <1>2, <1>3, <1>6 DEF Held

\* The last command list frees slice p as well.
Frees(ls, rs, p) ==
  /\ SameUses(ls, rs) /\ Len(ls) > 0
  /\ \A i \in 1 .. Len(ls) :
       rs[i].freed = IF i = Len(ls) THEN ls[i].freed \cup {p} ELSE ls[i].freed

LEMMA FreesHeld ==
  ASSUME NEW ls \in Seq(ListRecords), NEW rs, NEW p, NEW p2, Frees(ls, rs, p), Held(ls, p),
         FreedOnce(ls), p \notin FreedIn(ls)
  PROVE  Held(rs, p2) /\ FreedOnce(rs) /\ FreedIn(rs) = FreedIn(ls) \cup {p}
<1>0. Len(ls) \in Nat /\ Len(rs) = Len(ls) /\ Len(ls) > 0 /\ Len(ls) \in 1 .. Len(ls)
  BY DEF Frees, SameUses
<1>1. Held(rs, p2)
  <2>1. SUFFICES ASSUME NEW i \in 1 .. Len(rs), NEW j \in 1 .. Len(rs[i].uses)
                 PROVE  \E k \in i .. Len(rs) : rs[i].uses[j].slice \in rs[k].freed
    BY DEF Held
  <2>2. i \in 1 .. Len(ls) /\ rs[i].uses = ls[i].uses
    BY <1>0 DEF Frees, SameUses
  <2>3. CASE ls[i].uses[j].slice = p
    <3>1. PICK n \in 1 .. Len(ls) : n = Len(ls)
      BY <1>0
    <3>2. n \in i .. Len(rs)
      BY <3>1, <2>2, <1>0
    <3>3. rs[n].freed = ls[n].freed \cup {p}
      BY <3>1 DEF Frees
    <3>. QED
      BY <3>2, <3>3, <2>2, <2>3
  <2>4. CASE \E k \in i .. Len(ls) : ls[i].uses[j].slice \in ls[k].freed
    <3>1. PICK k \in i .. Len(ls) : ls[i].uses[j].slice \in ls[k].freed
      BY <2>4
    <3>2. k \in 1 .. Len(ls)
      BY <2>2
    <3>3. ls[k].freed \subseteq rs[k].freed
      BY <3>2 DEF Frees
    <3>. QED
      BY <3>1, <3>3, <2>2, <1>0
  <2>. QED
    BY <2>2, <2>3, <2>4 DEF Held
<1>2. FreedOnce(rs)
  <2>1. SUFFICES ASSUME NEW i \in 1 .. Len(ls), NEW k \in 1 .. Len(ls), i # k
                 PROVE  rs[i].freed \cap rs[k].freed = {}
    BY <1>0 DEF FreedOnce
  <2>2. ls[i].freed \cap ls[k].freed = {} /\ p \notin ls[i].freed /\ p \notin ls[k].freed
    BY <2>1 DEF FreedOnce, FreedIn
  <2>3. /\ rs[i].freed = IF i = Len(ls) THEN ls[i].freed \cup {p} ELSE ls[i].freed
        /\ rs[k].freed = IF k = Len(ls) THEN ls[k].freed \cup {p} ELSE ls[k].freed
    BY DEF Frees
  <2>4. i # Len(ls) \/ k # Len(ls)
    BY <2>1
  <2>. QED
    BY <2>2, <2>3, <2>4
<1>3. FreedIn(rs) = FreedIn(ls) \cup {p}
  BY <1>0 DEF FreedIn, Frees
<1>. QED
  BY <1>1, <1>2, <1>3

LEMMA SubmitsHeld ==
  ASSUME NEW ls \in Seq(ListRecords), NEW e \in ListRecords, e.uses = <<>>, e.freed = {},
         NEW p, Held(ls, p), FreedOnce(ls)
  PROVE  LET rs == Append(ls, e)
         IN  Held(rs, p) /\ FreedOnce(rs) /\ FreedIn(rs) = FreedIn(ls)
<1>. DEFINE rs == Append(ls, e)
<1>1. PICK n \in Nat : n = Len(ls)
  OBVIOUS
<1>2. /\ Len(rs) = n + 1 /\ rs[n + 1] = e /\ Len(rs[n + 1].uses) = 0 /\ rs[n + 1].freed = {}
      /\ \A i \in 1 .. n : rs[i] = ls[i]
  BY <1>1
<1>. HIDE DEF rs
<1>3. \A i \in 1 .. Len(rs) : i = n + 1 \/ (i \in 1 .. n /\ rs[i] = ls[i])
  BY <1>2
<1>4. \A i \in 1 .. n : i \in 1 .. Len(rs)
  BY <1>2
<1>5. Held(rs, p)
  <2>1. SUFFICES ASSUME NEW i \in 1 .. Len(rs), NEW j \in 1 .. Len(rs[i].uses),
                        rs[i].uses[j].slice # p
                 PROVE  \E k \in i .. Len(rs) : rs[i].uses[j].slice \in rs[k].freed
    BY DEF Held
  <2>2. i \in 1 .. n /\ rs[i] = ls[i]
    BY <1>2, <1>3
  <2>3. PICK k \in i .. n : ls[i].uses[j].slice \in ls[k].freed
    BY <2>1, <2>2, <1>1 DEF Held
  <2>4. k \in i .. Len(rs) /\ k \in 1 .. n
    BY <2>2, <1>1, <1>2
  <2>. QED
    BY <2>2, <2>3, <2>4, <1>2
<1>6. FreedOnce(rs)
  BY <1>1, <1>2, <1>3 DEF FreedOnce
<1>7. FreedIn(rs) = FreedIn(ls)
  BY <1>1, <1>2, <1>3, <1>4 DEF FreedIn
<1>. QED
  BY <1>5, <1>6, <1>7 DEF rs

LEMMA RetiresHeld ==
  ASSUME NEW ls \in Seq(ListRecords), NEW rs \in Seq(ListRecords), Retires(ls, rs),
         NEW p, Held(ls, p), FreedOnce(ls)
  PROVE  /\ Held(rs, p) /\ FreedOnce(rs)
         /\ FreedIn(ls) = FreedIn(rs) \cup ls[1].freed /\ FreedIn(rs) \cap ls[1].freed = {}
<1>0. PICK n \in Nat : Len(rs) = n /\ Len(ls) = n + 1
  BY DEF Retires
<1>1. \A i \in 1 .. n : i + 1 \in 1 .. n + 1 /\ rs[i] = ls[i + 1]
  BY <1>0 DEF Retires
<1>2. Held(rs, p)
  <2>1. SUFFICES ASSUME NEW i \in 1 .. n, NEW j \in 1 .. Len(rs[i].uses),
                        rs[i].uses[j].slice # p
                 PROVE  \E k \in i .. n : rs[i].uses[j].slice \in rs[k].freed
    BY <1>0 DEF Held
  <2>2. PICK i2 \in 1 .. n + 1 : i2 = i + 1 /\ rs[i] = ls[i2]
    BY <1>1
  <2>3. PICK k2 \in i2 .. n + 1 : ls[i2].uses[j].slice \in ls[k2].freed
    BY <2>1, <2>2, <1>0 DEF Held
  <2>4. PICK k \in i .. n : k2 = k + 1
    <3>1. k2 - 1 \in i .. n /\ k2 = (k2 - 1) + 1
      BY <2>2
    <3>. QED
      BY <3>1
  <2>5. rs[k] = ls[k2]
    BY <2>4, <1>1
  <2>. QED
    BY <2>2, <2>3, <2>5
<1>3. FreedOnce(rs)
  <2>1. SUFFICES ASSUME NEW i \in 1 .. n, NEW k \in 1 .. n, i # k
                 PROVE  rs[i].freed \cap rs[k].freed = {}
    BY <1>0 DEF FreedOnce
  <2>2. PICK i2 \in 1 .. n + 1 : i2 = i + 1 /\ rs[i] = ls[i2]
    BY <1>1
  <2>3. PICK k2 \in 1 .. n + 1 : k2 = k + 1 /\ rs[k] = ls[k2]
    BY <1>1
  <2>4. i2 # k2
    BY <2>1, <2>2, <2>3
  <2>. QED
    BY <2>2, <2>3, <2>4, <1>0 DEF FreedOnce
<1>4. \A k \in 1 .. n + 1 : k = 1 \/ \E i \in 1 .. n : k = i + 1 /\ rs[i] = ls[k]
  <2>1. TAKE k \in 1 .. n + 1
  <2>2. ASSUME k # 1 PROVE \E i \in 1 .. n : k = i + 1 /\ rs[i] = ls[k]
    <3>1. PICK i \in 1 .. n : k = i + 1
      <4>1. k - 1 \in 1 .. n /\ k = (k - 1) + 1
        BY <2>2
      <4>. QED
        BY <4>1
    <3>. QED
      BY <3>1, <1>1
  <2>. QED
    BY <2>2
<1>5. FreedIn(ls) = FreedIn(rs) \cup ls[1].freed
  <2>1. ASSUME NEW s \in FreedIn(ls) PROVE s \in FreedIn(rs) \cup ls[1].freed
    <3>1. PICK k \in 1 .. n + 1 : s \in ls[k].freed
      BY <1>0 DEF FreedIn
    <3>. QED
      BY <3>1, <1>0, <1>4 DEF FreedIn
  <2>2. ASSUME NEW s \in FreedIn(rs) PROVE s \in FreedIn(ls)
    <3>1. PICK i \in 1 .. n : s \in rs[i].freed
      BY <1>0 DEF FreedIn
    <3>. QED
      BY <3>1, <1>0, <1>1 DEF FreedIn
  <2>3. ls[1].freed \subseteq FreedIn(ls)
    BY <1>0 DEF FreedIn
  <2>. QED
    BY <2>1, <2>2, <2>3
<1>6. FreedIn(rs) \cap ls[1].freed = {}
  <2>1. ASSUME NEW s \in FreedIn(rs), s \in ls[1].freed PROVE FALSE
    <3>1. PICK i \in 1 .. n : s \in rs[i].freed
      BY <1>0 DEF FreedIn
    <3>2. PICK k \in 1 .. n + 1 : k = i + 1 /\ rs[i] = ls[k]
      BY <1>1
    <3>3. k # 1 /\ 1 \in 1 .. n + 1
      BY <3>2
    <3>. QED
      BY <2>1, <3>1, <3>2, <3>3, <1>0 DEF FreedOnce
  <2>. QED
    BY <2>1
<1>. QED
  BY <1>2, <1>3, <1>5, <1>6
-----------------------------------------------------------------------------
(* Sets of commands                                                        *)

LEMMA CommandsTyped ==
  ASSUME NEW q \in Seq(Seq(CommandRecords))
  PROVE  CommandsIn(q) \subseteq CommandRecords
BY DEF CommandsIn

LEMMA UsesTyped ==
  ASSUME NEW ls \in Seq(ListRecords)
  PROVE  UsesIn(ls) \subseteq UseRecords /\ PendingIn(ls) \subseteq UsesIn(ls)
<1>1. \A i \in 1 .. Len(ls) : ls[i].uses \in Seq(UseRecords) /\ ls[i].done \in Nat
  <2>1. \A i \in 1 .. Len(ls) : ls[i] \in ListRecords
    OBVIOUS
  <2>. QED
    BY <2>1 DEF ListRecords
<1>2. UsesIn(ls) \subseteq UseRecords
  BY <1>1 DEF UsesIn
<1>3. ASSUME NEW u \in PendingIn(ls) PROVE u \in UsesIn(ls)
  <2>1. PICK i \in 1 .. Len(ls) : \E j \in ls[i].done + 1 .. Len(ls[i].uses) : u = ls[i].uses[j]
    BY PendingPlace
  <2>2. PICK j \in ls[i].done + 1 .. Len(ls[i].uses) : u = ls[i].uses[j]
    BY <2>1
  <2>3. j \in 1 .. Len(ls[i].uses)
    BY <1>1
  <2>. QED
    BY <2>2, <2>3, UseMember
<1>. QED
  BY <1>2, <1>3

LEMMA NumberedAdds ==
  ASSUME NEW C \in SUBSET CommandRecords, NEW D, NEW c \in CommandRecords, Adds(C, D, c),
         NEW U \in SUBSET UseRecords, NEW n \in Nat, NEW m \in Nat, n <= m,
         NEW a, NEW b, a = "write" => b = "write",
         Numbered(C, U, n, a),
         c.op # "flush" => a # "write" /\ n <= c.contents /\ c.contents <= m,
         c.op = "write" => n < c.contents,
         c.op = "invalidate" => b = "write"
  PROVE  /\ Numbered(D, U, m, b)
         /\ c.op # "flush" => \A x \in C : x.op # "flush" => Ordered(x, c)
<1>1. \A x \in C : x.contents \in Nat
  BY DEF CommandRecords
<1>2. \A u \in U : u.contents \in Nat /\ u.op # "invalidate"
  BY DEF UseRecords
<1>3. c.contents \in Nat
  BY DEF CommandRecords
<1>4. ASSUME c.op # "flush", NEW x \in C, x.op # "flush" PROVE Ordered(x, c)
  BY <1>1, <1>3, <1>4 DEF Numbered, Ordered
<1>5. ASSUME c.op # "flush", NEW u \in U PROVE Ordered(u, c)
  BY <1>2, <1>3, <1>5 DEF Numbered, Ordered
<1>6. \A u \in U, x \in D : x.op # "flush" => Ordered(u, x)
  BY <1>5 DEF Adds, Numbered
<1>7. \A x \in D : x.op # "flush" => x.contents <= m
  BY <1>1 DEF Adds, Numbered
<1>8. \A x \in D : x.op = "invalidate" /\ b # "write" => x.contents < m
  BY <1>1 DEF Adds, Numbered
<1>9. \A u \in U : u.contents <= m
  BY <1>2 DEF Numbered
<1>. QED
  BY <1>4, <1>6, <1>7, <1>8, <1>9 DEF Numbered

\* Renamed depends on the renamings in C only.
LEMMA RenamedSame ==
  ASSUME NEW C, NEW D, NEW s, NEW n, NEW p, Renamed(s, n, C, p),
         \A x \in C : x.op = "invalidate" => x \in D,
         \A x \in D : x.op = "invalidate" => x \in C
  PROVE  Renamed(s, n, D, p)
BY DEF Renamed

LEMMA RenamedLater ==
  ASSUME NEW C \in SUBSET CommandRecords, NEW s, NEW n \in Nat, NEW m \in Nat, NEW p,
         Renamed(s, n, C, p),
         \A x \in C : x.op = "invalidate" => x.contents < n /\ x.contents < m
  PROVE  Renamed(s, m, C, p)
<1>1. \A x \in C : x.contents \in Nat
  BY DEF CommandRecords
<1>2. CASE s = p /\ \A b \in C : b.op = "invalidate" => b.contents >= n
  <2>1. \A b \in C : b.op # "invalidate"
    BY <1>1, <1>2
  <2>. QED
    BY <1>2, <2>1 DEF Renamed
<1>3. CASE \E x \in C : /\ x.op = "invalidate" /\ x.slice = s /\ x.contents < n
                        /\ \A b \in C : b.op = "invalidate" /\ b.contents < n
                                          => b.contents <= x.contents
  BY <1>3 DEF Renamed
<1>. QED
  BY <1>2, <1>3 DEF Renamed

LEMMA SlicesLater ==
  ASSUME NEW C \in SUBSET CommandRecords, NEW s, NEW p, NEW n \in Nat, NEW m \in Nat, n <= m,
         SlicesAgree(C, s, n, p), \A x \in C : x.op = "invalidate" => x.contents <= n
  PROVE  SlicesAgree(C, s, m, p)
<1>1. PICK n1 \in Nat : n1 = n + 1
  OBVIOUS
<1>2. PICK m1 \in Nat : m1 = m + 1
  OBVIOUS
<1>3. \A x \in C : x.op = "invalidate" => x.contents < n1 /\ x.contents < m1
  BY <1>1, <1>2 DEF CommandRecords
<1>4. Renamed(s, n1, C, p)
  BY <1>1 DEF SlicesAgree
<1>5. Renamed(s, m1, C, p)
  BY <1>3, <1>4, RenamedLater
<1>. QED
  BY <1>2, <1>5 DEF SlicesAgree

\* A use is recorded with the slice of its time; so are flushes.
LEMMA SlicesAdds ==
  ASSUME NEW C \in SUBSET CommandRecords, NEW D, NEW c \in CommandRecords, Adds(C, D, c),
         NEW s, NEW p, NEW n \in Nat, NEW m \in Nat, SlicesAgree(C, s, n, p),
         c.op # "invalidate", m = n \/ m = n + 1,
         \A x \in C : x.op = "invalidate" => x.contents <= n,
         IsUse(c) => /\ c.slice = s /\ c.contents = m
                     /\ \A x \in C : x.op = "invalidate" => x.contents < n
  PROVE  SlicesAgree(D, s, m, p)
<1>1. /\ \A x \in C : x.op = "invalidate" => x \in D
      /\ \A x \in D : x.op = "invalidate" => x \in C
  BY DEF Adds
<1>2. \A x \in C : x.contents \in Nat
  BY DEF CommandRecords
<1>3. PICK n1 \in Nat : n1 = n + 1
  OBVIOUS
<1>4. PICK m1 \in Nat : m1 = m + 1
  OBVIOUS
<1>5. Renamed(s, n1, C, p)
  BY <1>3 DEF SlicesAgree
<1>6. Renamed(s, m1, C, p)
  <2>1. \A x \in C : x.op = "invalidate" => x.contents < n1 /\ x.contents < m1
    BY <1>2, <1>3, <1>4
  <2>. QED
    BY <2>1, <1>5, RenamedLater
<1>7. Renamed(s, m1, D, p)
  BY <1>1, <1>6, RenamedSame
<1>8. ASSUME NEW x \in D, IsUse(x) PROVE Renamed(x.slice, x.contents, D, p)
  <2>1. CASE x \in C
    BY <2>1, <1>1, <1>8, RenamedSame DEF SlicesAgree
  <2>2. CASE x = c
    <3>1. \A y \in C : y.op = "invalidate" => y.contents < n1 /\ y.contents < m
      BY <1>2, <1>3, <1>8, <2>2
    <3>2. Renamed(s, m, C, p)
      BY <3>1, <1>5, RenamedLater
    <3>3. Renamed(s, m, D, p)
      BY <1>1, <3>2, RenamedSame
    <3>. QED
      BY <3>3, <1>8, <2>2
  <2>. QED
    BY <2>1, <2>2, <1>8 DEF Adds, IsUse
<1>. QED
  BY <1>4, <1>7, <1>8 DEF SlicesAgree

\* The buffer is renamed by the last command.
LEMMA SlicesRename ==
  ASSUME NEW C \in SUBSET CommandRecords, NEW D, NEW c \in CommandRecords, Adds(C, D, c),
         NEW s, NEW p, NEW n \in Nat, SlicesAgree(C, s, n, p),
         c.op = "invalidate", c.contents = n,
         \A x \in C : x.op # "flush" => x.contents <= n
  PROVE  SlicesAgree(D, c.slice, n, p)
<1>1. \A x \in C : x.contents \in Nat
  BY DEF CommandRecords
<1>2. PICK n1 \in Nat : n1 = n + 1
  OBVIOUS
<1>3. Renamed(c.slice, n1, D, p)
  <2>1. c \in D
    BY DEF Adds
  <2>2. \A x \in D : x.op = "invalidate" => x.contents <= c.contents
    BY <1>1 DEF Adds
  <2>3. c.contents < n1
    BY <1>2
  <2>. QED
    BY <2>1, <2>2, <2>3 DEF Renamed
<1>4. ASSUME NEW x \in D, IsUse(x) PROVE Renamed(x.slice, x.contents, D, p)
  <2>1. x \in C /\ x.contents \in Nat /\ x.contents <= n
    BY <1>1, <1>4 DEF Adds, IsUse
  <2>2. Renamed(x.slice, x.contents, C, p)
    BY <2>1, <1>4 DEF SlicesAgree
  <2>3. \A y \in D : y.op = "invalidate" => y \in C \/ y = c
    BY DEF Adds
  <2>4. ~(c.contents < x.contents) /\ c.contents >= x.contents
    BY <2>1
  <2>5. C \subseteq D
    BY DEF Adds
  <2>6. CASE x.slice = p /\ \A b \in C : b.op = "invalidate" => b.contents >= x.contents
    BY <2>6, <2>3, <2>4 DEF Renamed
  <2>7. CASE \E a \in C : /\ a.op = "invalidate" /\ a.slice = x.slice /\ a.contents < x.contents
                          /\ \A b \in C : b.op = "invalidate" /\ b.contents < x.contents
                                            => b.contents <= a.contents
    <3>1. PICK a \in C : /\ a.op = "invalidate" /\ a.slice = x.slice /\ a.contents < x.contents
                         /\ \A b \in C : b.op = "invalidate" /\ b.contents < x.contents
                                            => b.contents <= a.contents
      BY <2>7
    <3>2. \A b \in D : b.op = "invalidate" /\ b.contents < x.contents
                                            => b.contents <= a.contents
      BY <3>1, <2>3, <2>4
    <3>. QED
      BY <3>1, <3>2, <2>5 DEF Renamed
  <2>. QED
    BY <2>2, <2>6, <2>7 DEF Renamed
<1>. QED
  BY <1>2, <1>3, <1>4 DEF SlicesAgree
LEMMA SlicesDrops ==
  ASSUME NEW C, NEW D, NEW c, Drops(C, D, c), NEW s, NEW p, NEW n, SlicesAgree(C, s, n, p),
         c.op # "invalidate"
  PROVE  SlicesAgree(D, s, n, p)
<1>1. /\ \A x \in C : x.op = "invalidate" => x \in D
      /\ \A x \in D : x.op = "invalidate" => x \in C
      /\ D \subseteq C
  BY DEF Drops
<1>2. PICK m : m = n + 1
  OBVIOUS
<1>3. Renamed(s, m, C, p)
  BY <1>2 DEF SlicesAgree
<1>4. Renamed(s, m, D, p)
  BY <1>1, <1>3, RenamedSame
<1>5. ASSUME NEW x \in D, IsUse(x) PROVE Renamed(x.slice, x.contents, D, p)
  <2>1. Renamed(x.slice, x.contents, C, p)
    BY <1>1, <1>5 DEF SlicesAgree
  <2>. QED
    BY <2>1, <1>1, RenamedSame
<1>. QED
  BY <1>2, <1>4, <1>5 DEF SlicesAgree

\* The first command renames the buffer: what came after it is left.
LEMMA RenamedExecuted ==
  ASSUME NEW C \in SUBSET CommandRecords, NEW D, NEW c, Drops(C, D, c),
         NEW s, NEW p, NEW n \in Nat, Renamed(s, n, C, p),
         c.op = "invalidate", c.contents < n,
         \A x \in D : x.op = "invalidate" => c.contents < x.contents
  PROVE  Renamed(s, n, D, c.slice)
<1>1. \A x \in C : x.contents \in Nat
  BY DEF CommandRecords
<1>2. D \subseteq C /\ c \in C /\ \A x \in C : x \in D \/ x = c
  BY DEF Drops
<1>3. ~(\A b \in C : b.op = "invalidate" => b.contents >= n)
  BY <1>1, <1>2
<1>4. PICK a \in C : /\ a.op = "invalidate" /\ a.slice = s /\ a.contents < n
                     /\ \A b \in C : b.op = "invalidate" /\ b.contents < n => b.contents <= a.contents
  BY <1>3 DEF Renamed
<1>5. CASE a = c
  <2>1. \A b \in D : b.op = "invalidate" => b.contents >= n
    BY <1>1, <1>2, <1>4, <1>5
  <2>. QED
    BY <2>1, <1>4, <1>5 DEF Renamed
<1>6. CASE a \in D
  <2>1. \A b \in D : b.op = "invalidate" /\ b.contents < n => b.contents <= a.contents
    BY <1>2, <1>4
  <2>. QED
    BY <2>1, <1>4, <1>6 DEF Renamed
<1>. QED
  BY <1>2, <1>5, <1>6

LEMMA SlicesExecuted ==
  ASSUME NEW C \in SUBSET CommandRecords, NEW D, NEW c, Drops(C, D, c),
         NEW s, NEW p, NEW n \in Nat, SlicesAgree(C, s, n, p),
         c.op = "invalidate", c.contents <= n,
         \A x \in D : x.op # "flush" => Ordered(c, x)
  PROVE  SlicesAgree(D, s, n, c.slice)
<1>1. \A x \in C : x.contents \in Nat
  BY DEF CommandRecords
<1>2. D \subseteq C /\ c \in C
  BY DEF Drops
<1>3. \A x \in D : x.op = "invalidate" => c.contents < x.contents
  BY DEF Ordered
<1>4. PICK m \in Nat : m = n + 1
  OBVIOUS
<1>5. Renamed(s, m, D, c.slice)
  <2>1. Renamed(s, m, C, p)
    BY <1>4 DEF SlicesAgree
  <2>2. c.contents < m
    BY <1>1, <1>2, <1>4
  <2>. QED
    BY <2>1, <2>2, <1>3, RenamedExecuted
<1>6. ASSUME NEW x \in D, IsUse(x) PROVE Renamed(x.slice, x.contents, D, c.slice)
  <2>1. Renamed(x.slice, x.contents, C, p)
    BY <1>2, <1>6 DEF SlicesAgree
  <2>2. c.contents < x.contents
    BY <1>6 DEF Ordered, IsUse
  <2>3. x.contents \in Nat
    BY <1>1, <1>2
  <2>. QED
    BY <2>1, <2>2, <2>3, <1>3, RenamedExecuted
<1>. QED
  BY <1>4, <1>5, <1>6 DEF SlicesAgree

\* The first command uses the buffer: with the slice that the CS thread has.
LEMMA FirstHasSlice ==
  ASSUME NEW C \in SUBSET CommandRecords, NEW D, NEW c, Drops(C, D, c),
         NEW s, NEW p, NEW n, SlicesAgree(C, s, n, p),
         IsUse(c), \A x \in D : x.op # "flush" => Ordered(c, x)
  PROVE  c.slice = p
<1>1. c \in C /\ \A x \in C : x.contents \in Nat /\ (x.op = "invalidate" => x \in D)
  BY DEF CommandRecords, Drops, IsUse
<1>2. \A x \in C : x.op = "invalidate" => c.contents <= x.contents
  BY <1>1 DEF Ordered
<1>3. Renamed(c.slice, c.contents, C, p)
  BY <1>1 DEF SlicesAgree
<1>4. \A x \in C : x.op = "invalidate" => ~(x.contents < c.contents)
  BY <1>1, <1>2
<1>. QED
  BY <1>3, <1>4 DEF Renamed

LEMMA ApartAdds ==
  ASSUME NEW C, NEW D, NEW c, Adds(C, D, c), c.op # "invalidate",
         NEW F, NEW R, NEW p, NEW f, NEW n, NEW all, Apart(C, F, R, p, f, n, all)
  PROVE  Apart(D, F, R, p, f, n, all)
<1>1. RenamedTo(D) = RenamedTo(C)
  BY DEF RenamedTo, Adds
<1>2. \A a \in D : a.op = "invalidate" => a \in C
  BY DEF Adds
<1>. QED
  BY <1>1, <1>2 DEF Apart

LEMMA ApartRename ==
  ASSUME NEW C, NEW D, NEW c, Adds(C, D, c), c.op = "invalidate",
         NEW F, NEW R, NEW p, NEW f, NEW n, NEW all, Apart(C, F, R, p, f, n, all),
         c.slice # p, c.slice \notin RenamedTo(C), c.slice \notin F \cup R, c.slice \notin f \cup n
  PROVE  Apart(D, F, R, p, f, n, all \cup {c.slice})
<1>1. RenamedTo(D) = RenamedTo(C) \cup {c.slice}
  BY DEF RenamedTo, Adds
<1>2. \A a \in D : a.op = "invalidate" => a \in C \/ a = c
  BY DEF Adds
<1>3. \A a \in C : a.op = "invalidate" => a.slice # c.slice
  BY DEF RenamedTo
<1>4. \A a, b \in D : a.op = "invalidate" /\ b.op = "invalidate" /\ a.slice = b.slice => a = b
  BY <1>2, <1>3 DEF Apart
<1>. QED
  BY <1>1, <1>4 DEF Apart

LEMMA ApartDrops ==
  ASSUME NEW C, NEW D, NEW c, Drops(C, D, c), c.op # "invalidate",
         NEW F, NEW R, NEW p, NEW f, NEW n, NEW all, Apart(C, F, R, p, f, n, all)
  PROVE  Apart(D, F, R, p, f, n, all)
<1>1. RenamedTo(D) = RenamedTo(C)
  BY DEF RenamedTo, Drops
<1>. QED
  BY <1>1 DEF Apart, Drops

LEMMA ApartExecuted ==
  ASSUME NEW C, NEW D, NEW c, Drops(C, D, c), c.op = "invalidate", c \notin D,
         NEW F, NEW R, NEW p, NEW f, NEW n, NEW all, Apart(C, F, R, p, f, n, all)
  PROVE  Apart(D, F \cup {p}, R, c.slice, f, n, all) /\ p \notin F
<1>1. RenamedTo(C) = RenamedTo(D) \cup {c.slice}
  BY DEF RenamedTo, Drops
<1>2. c.slice \notin RenamedTo(D)
  <2>1. \A a \in D : a.op = "invalidate" => a.slice # c.slice
    BY DEF Drops, Apart
  <2>. QED
    BY <2>1 DEF RenamedTo
<1>3. \A a, b \in D : a.op = "invalidate" /\ b.op = "invalidate" /\ a.slice = b.slice => a = b
  BY DEF Drops, Apart
<1>. QED
  BY <1>1, <1>2, <1>3 DEF Apart

-----------------------------------------------------------------------------
(* Contents                                                                *)

LEMMA BroughtGrows ==
  ASSUME NEW P, NEW O, P \subseteq O, NEW k, NEW s, NEW n, Brought(P, k, s, n)
  PROVE  Brought(O, k, s, n)
BY DEF Brought

\* A command uses the buffer, and writes the next contents if it writes.
LEMMA UsedUpToDate ==
  ASSUME NEW P, NEW k, NEW s \in Slices, NEW n \in Nat, NEW m \in Nat, NEW c, NEW a, a # "write", NEW t,
         UpToDate(P, k, s, n, a, t), k \in [Slices -> Nat],
         c.slice = s, c.contents = m, IF c.op = "write" THEN m = n + 1 ELSE m = n,
         NEW O, P \subseteq O, c \in O, \A x \in O : x \in P \/ x = c
  PROVE  UpToDate(O, k, s, m, a, t)
<1>1. /\ \A x \in Slices : k[x] <= n /\ k[x] \in Nat
      /\ \A w \in P : w.op = "write" => k[w.slice] < w.contents
      /\ Brought(P, k, s, n)
      /\ \A r \in P : r.op = "read" => Brought(P, k, r.slice, r.contents)
  BY DEF UpToDate
<1>2. \A x \in Slices : k[x] <= m
  BY <1>1
<1>3. \A w \in O : w.op = "write" => k[w.slice] < w.contents
  BY <1>1
<1>4. Brought(O, k, s, n)
  BY <1>1, BroughtGrows
<1>5. Brought(O, k, s, m)
  <2>1. CASE c.op = "write"
    BY <2>1 DEF Brought
  <2>2. CASE c.op # "write"
    BY <2>2, <1>4
  <2>. QED
    BY <2>1, <2>2
<1>6. ASSUME NEW r \in O, r.op = "read" PROVE Brought(O, k, r.slice, r.contents)
  <2>1. CASE r \in P
    BY <2>1, <1>1, <1>6, BroughtGrows
  <2>2. CASE r = c
    BY <2>2, <1>5
  <2>. QED
    BY <2>1, <2>2
<1>. QED
  BY <1>2, <1>3, <1>5, <1>6 DEF UpToDate

\* The slice s, which nothing pending uses, gets contents x, and becomes or stays the
\* buffer's.
LEMMA WrittenUpToDate ==
  ASSUME NEW P, NEW k \in [Slices -> Nat], NEW s \in Slices, NEW z, NEW n \in Nat, NEW m \in Nat, n <= m,
         NEW x \in Nat, x <= m, NEW a, NEW t, NEW b, NEW u, UpToDate(P, k, z, n, a, t),
         ~(b = "write" /\ u = "discard") => x = m,
         \A c \in P : c.slice # s /\ c.slice \in Slices
  PROVE  UpToDate(P, [k EXCEPT ![s] = x], s, m, b, u)
<1>. DEFINE l == [k EXCEPT ![s] = x]
<1>1. l[s] = x /\ \A y \in Slices : y # s => l[y] = k[y]
  OBVIOUS
<1>. HIDE DEF l
<1>2. \A y \in Slices : l[y] <= m
  BY <1>1 DEF UpToDate
<1>3. \A w \in P : w.op = "write" => l[w.slice] < w.contents
  BY <1>1 DEF UpToDate
<1>4. ~(b = "write" /\ u = "discard") => Brought(P, l, s, m)
  BY <1>1 DEF Brought
<1>5. \A r \in P : r.op = "read" => Brought(P, l, r.slice, r.contents)
  BY <1>1 DEF UpToDate, Brought
<1>6. UpToDate(P, l, s, m, b, u)
  BY <1>2, <1>3, <1>4, <1>5 DEF UpToDate
<1>. QED
  BY <1>6 DEF l

\* The first of the pending commands is done.
LEMMA DoneUpToDate ==
  ASSUME NEW P, NEW O, NEW c \in P, O \subseteq P, \A x \in P : x \in O \/ x = c,
         \A x \in O : Ordered(c, x), c.slice \in Slices, c.contents \in Nat,
         NEW k \in [Slices -> Nat], NEW s \in Slices, NEW n \in Nat, c.contents <= n,
         \A x \in P : x.contents \in Nat /\ x.slice \in Slices,
         NEW a, NEW t, UpToDate(P, k, s, n, a, t),
         NEW l, c.op = "write" => l[c.slice] = c.contents,
         \A x \in Slices : l[x] = k[x] \/ (x = c.slice /\ c.op = "write")
  PROVE  UpToDate(O, l, s, n, a, t)
<1>1. /\ \A x \in Slices : k[x] <= n /\ k[x] \in Nat
      /\ \A w \in P : w.op = "write" => k[w.slice] < w.contents
      /\ ~(a = "write" /\ t = "discard") => Brought(P, k, s, n)
      /\ \A r \in P : r.op = "read" => Brought(P, k, r.slice, r.contents)
  BY DEF UpToDate
<1>2. /\ c.op = "write" => l[c.slice] = c.contents
      /\ \A x \in Slices : l[x] = k[x] \/ (x = c.slice /\ c.op = "write")
  OBVIOUS
<1>3. \A x \in Slices : l[x] <= n
  BY <1>1, <1>2
<1>4. \A w \in O : w.op = "write" => l[w.slice] < w.contents
  <2>1. \A w \in O : w.op = "write" => c.contents < w.contents
    BY DEF Ordered
  <2>. QED
    BY <1>1, <1>2, <2>1
<1>5. ASSUME NEW x \in Slices, NEW y \in Nat, Brought(P, k, x, y), c.contents <= y
      PROVE  Brought(O, l, x, y)
  <2>1. CASE k[x] = y
    <3>1. ~(x = c.slice /\ c.op = "write")
      BY <1>1, <1>5, <2>1
    <3>2. l[x] = y
      BY <1>2, <2>1, <3>1
    <3>. QED
      BY <3>2 DEF Brought
  <2>2. CASE \E w \in P : w.op = "write" /\ w.slice = x /\ w.contents = y
    <3>1. PICK w \in P : w.op = "write" /\ w.slice = x /\ w.contents = y
      BY <2>2
    <3>. QED
      BY <3>1, <1>2 DEF Brought
  <2>. QED
    BY <1>5, <2>1, <2>2 DEF Brought
<1>6. ~(a = "write" /\ t = "discard") => Brought(O, l, s, n)
  BY <1>1, <1>5
<1>7. \A r \in O : r.op = "read" => Brought(O, l, r.slice, r.contents)
  BY <1>1, <1>5 DEF Ordered
<1>. QED
  BY <1>3, <1>4, <1>6, <1>7 DEF UpToDate
-----------------------------------------------------------------------------
(* Steps of the application: chunks                                        *)

\* Chunk g is chunk h after command c, or none, and flushes were added.
Grows(h, g, c) ==
  /\ Len(h) <= Len(g) /\ \A j \in 1 .. Len(h) : g[j] = h[j]
  /\ \A j \in Len(h) + 1 .. Len(g) : g[j].op = "flush" \/ (j = Len(h) + 1 /\ g[j] = c)
  /\ c.op # "flush" => Len(h) < Len(g) /\ g[Len(h) + 1] = c

LEMMA GrowsBy ==
  ASSUME NEW h \in Seq(CommandRecords), NEW c \in CommandRecords,
         NEW f \in CommandRecords, f.op = "flush"
  PROVE  /\ Grows(h, h, f)
         /\ Append(h, c) \in Seq(CommandRecords) /\ Grows(h, Append(h, c), c)
         /\ h \o <<c, f>> \in Seq(CommandRecords) /\ Grows(h, h \o <<c, f>>, c)
<1>. DEFINE g == h \o <<c, f>>
<1>1. Grows(h, h, f)
  BY DEF Grows
<1>2. Append(h, c) \in Seq(CommandRecords) /\ Grows(h, Append(h, c), c)
  BY DEF Grows
<1>3. PICK n \in Nat : n = Len(h)
  OBVIOUS
<1>4. <<c, f>> \in Seq(CommandRecords) /\ Len(<<c, f>>) = 2
  OBVIOUS
<1>5. /\ g \in Seq(CommandRecords) /\ Len(g) = n + 2
      /\ \A j \in 1 .. n : g[j] = h[j]
  BY <1>3, <1>4
<1>6. g[n + 1] = c /\ g[n + 2] = f
  BY <1>3, <1>4
<1>. HIDE DEF g
<1>7. Grows(h, g, c)
  BY <1>3, <1>5, <1>6 DEF Grows
<1>. QED
  BY <1>1, <1>2, <1>5, <1>7 DEF g

LEMMA GrowsExtends ==
  ASSUME NEW q \in Seq(Seq(CommandRecords)), NEW h \in Seq(CommandRecords),
         NEW g \in Seq(CommandRecords), NEW c \in CommandRecords, Grows(h, g, c)
  PROVE  Extends(Append(q, h), Append(q, g), c) /\ Extends(Append(q, h), Append(Append(q, g), <<>>), c)
<1>1. PICK n \in Nat : n = Len(q)
  OBVIOUS
<1>. DEFINE a == Append(q, h)
            b == Append(q, g)
            e == Append(b, <<>>)
<1>2. /\ Len(a) = n + 1 /\ a[n + 1] = h /\ \A i \in 1 .. n : a[i] = q[i]
      /\ Len(b) = n + 1 /\ b[n + 1] = g /\ \A i \in 1 .. n : b[i] = q[i]
  BY <1>1
<1>3. /\ Len(e) = n + 2 /\ e[n + 1] = g /\ Len(e[n + 2]) = 0 /\ \A i \in 1 .. n : e[i] = q[i]
  <2>1. b \in Seq(Seq(CommandRecords))
    OBVIOUS
  <2>2. Len(e) = n + 2 /\ e[n + 2] = <<>> /\ \A i \in 1 .. n + 1 : e[i] = b[i]
    BY <2>1, <1>2
  <2>. HIDE DEF a, b, e
  <2>. QED
    BY <2>2, <1>2
<1>4. PICK k \in Nat : k = Len(h)
  OBVIOUS
<1>5. Len(g) \in Nat
  OBVIOUS
<1>. HIDE DEF a, b, e
<1>6. /\ \A i \in 1 .. n : a[i] = b[i] /\ a[i] = e[i]
      /\ \A i \in 1 .. Len(a) : i \in 1 .. n \/ i = n + 1
      /\ \A i \in 1 .. Len(b) : i \in 1 .. n \/ i = n + 1
      /\ \A i \in 1 .. Len(e) : i \in 1 .. n \/ i = n + 1 \/ i = n + 2
      /\ n + 1 \in 1 .. Len(a) /\ n + 1 \in 1 .. Len(b) /\ n + 1 \in 1 .. Len(e)
      /\ \A i \in 1 .. n : i \in 1 .. Len(a) /\ i \in 1 .. Len(b) /\ i \in 1 .. Len(e)
  BY <1>2, <1>3
<1>7. /\ \A j \in 1 .. Len(h) : j \in 1 .. Len(g) /\ g[j] = h[j]
      /\ \A j \in 1 .. Len(g) : \/ j \in 1 .. Len(h)
                                \/ j > Len(h) /\ g[j].op = "flush"
                                \/ j = Len(h) + 1 /\ g[j] = c
  BY <1>4, <1>5 DEF Grows
<1>8. c.op # "flush" => c \in CommandsIn(b) /\ c \in CommandsIn(e)
  <2>1. ASSUME c.op # "flush" PROVE \E j \in 1 .. Len(g) : g[j] = c
    <3>1. k + 1 \in 1 .. Len(g) /\ g[k + 1] = c
      BY <2>1, <1>4, <1>5 DEF Grows
    <3>. QED
      BY <3>1
  <2>2. ASSUME NEW j \in 1 .. Len(g), g[j] = c PROVE c \in CommandsIn(b) /\ c \in CommandsIn(e)
    <3>1. j \in 1 .. Len(b[n + 1]) /\ j \in 1 .. Len(e[n + 1])
      BY <1>2, <1>3
    <3>2. b[n + 1][j] = c /\ e[n + 1][j] = c
      BY <2>2, <1>2, <1>3
    <3>3. PICK m : m = n + 1
      OBVIOUS
    <3>. QED
      BY <3>1, <3>2, <3>3, <1>6, CommandMember
  <2>. QED
    BY <2>1, <2>2
<1>9. Extends(a, b, c)
  <2>1. \A i \in 1 .. Len(a) :
          i \in 1 .. Len(b) /\ \A j \in 1 .. Len(a[i]) : j \in 1 .. Len(b[i]) /\ b[i][j] = a[i][j]
    BY <1>2, <1>6, <1>7
  <2>2. \A i \in 1 .. Len(b) : \A j \in 1 .. Len(b[i]) :
          \/ i \in 1 .. Len(a) /\ j \in 1 .. Len(a[i])
          \/ i = Len(a) /\ j > Len(a[i]) /\ b[i][j].op = "flush"
          \/ i = Len(a) /\ j = Len(a[i]) + 1 /\ b[i][j] = c
    BY <1>2, <1>6, <1>7
  <2>. QED
    BY <2>1, <2>2, <1>8 DEF Extends
<1>10. Extends(a, e, c)
  <2>1. \A i \in 1 .. Len(a) :
          i \in 1 .. Len(e) /\ \A j \in 1 .. Len(a[i]) : j \in 1 .. Len(e[i]) /\ e[i][j] = a[i][j]
    BY <1>2, <1>3, <1>6, <1>7
  <2>2. \A i \in 1 .. Len(e) : \A j \in 1 .. Len(e[i]) :
          \/ i \in 1 .. Len(a) /\ j \in 1 .. Len(a[i])
          \/ i = Len(a) /\ j > Len(a[i]) /\ e[i][j].op = "flush"
          \/ i = Len(a) /\ j = Len(a[i]) + 1 /\ e[i][j] = c
    BY <1>2, <1>3, <1>6, <1>7
  <2>. QED
    BY <2>1, <2>2, <1>8 DEF Extends
<1>. QED
  BY <1>9, <1>10 DEF a, b, e

LEMMA UsedUpToExtends ==
  ASSUME NEW q \in Seq(Seq(CommandRecords)), NEW r \in Seq(Seq(CommandRecords)),
         NEW c \in CommandRecords, Extends(q, r, c), NEW e \in Nat, NEW n \in Nat,
         \/ ~IsUse(c) /\ UsedUpTo(q, e, n)
         \/ e + Len(q) <= n
  PROVE  UsedUpTo(r, e, n)
<1>1. SUFFICES ASSUME NEW i \in 1 .. Len(r), NEW j \in 1 .. Len(r[i]), IsUse(r[i][j])
               PROVE  e + i <= n
  BY DEF UsedUpTo
<1>2. Len(q) \in Nat /\ Len(r) \in Nat
  OBVIOUS
<1>3. \/ i \in 1 .. Len(q) /\ j \in 1 .. Len(q[i]) /\ r[i][j] = q[i][j]
      \/ i = Len(q) /\ r[i][j] = c
  BY <1>1 DEF Extends, IsUse
<1>4. i <= Len(q)
  BY <1>2, <1>3
<1>5. CASE e + Len(q) <= n
  BY <1>2, <1>4, <1>5
<1>6. CASE ~IsUse(c) /\ UsedUpTo(q, e, n)
  BY <1>1, <1>3, <1>6 DEF UsedUpTo
<1>. QED
  BY <1>5, <1>6

LEMMA UsedUpToPops ==
  ASSUME NEW q, NEW r, Pops(q, r), NEW e, NEW n, UsedUpTo(q, e, n)
  PROVE  UsedUpTo(r, e, n)
<1>1. SUFFICES ASSUME NEW i \in 1 .. Len(r), NEW j \in 1 .. Len(r[i]), IsUse(r[i][j])
               PROVE  e + i <= n
  BY DEF UsedUpTo
<1>2. PICK k \in 1 .. Len(q[i]) : r[i][j] = q[i][k] /\ k = IF i = 1 THEN j + 1 ELSE j
  BY DEF Pops
<1>3. i \in 1 .. Len(q)
  BY DEF Pops
<1>. QED
  BY <1>1, <1>2, <1>3 DEF UsedUpTo

LEMMA UsedUpToFinishes ==
  ASSUME NEW q \in Seq(Seq(CommandRecords)), NEW r \in Seq(Seq(CommandRecords)), Finishes(q, r),
         NEW e \in Nat, NEW n \in Nat, UsedUpTo(q, e, n)
  PROVE  UsedUpTo(r, e + 1, n)
<1>1. SUFFICES ASSUME NEW i \in 1 .. Len(r), NEW j \in 1 .. Len(r[i]), IsUse(r[i][j])
               PROVE  (e + 1) + i <= n
  BY DEF UsedUpTo
<1>2. PICK k \in 1 .. Len(q) : k = i + 1 /\ r[i] = q[k]
  BY DEF Finishes
<1>3. e + k <= n
  BY <1>1, <1>2 DEF UsedUpTo
<1>. QED
  BY <1>2, <1>3
LEMMA ChunksTyped == TypeInv => Q \in Seq(Seq(CommandRecords)) /\ CommandsIn(Q) \subseteq CommandRecords
<1>1. TypeInv => Q \in Seq(Seq(CommandRecords))
  BY DEF TypeInv, Q
<1>. QED
  BY <1>1, CommandsTyped

LEMMA ListsTyped ==
  TypeInv => /\ L \in Seq(ListRecords) /\ UsesIn(L) \subseteq UseRecords
             /\ PendingIn(L) \subseteq UsesIn(L)
<1>1. TypeInv => L \in Seq(ListRecords)
  BY DEF TypeInv, L
<1>. QED
  BY <1>1, UsesTyped

\* The chunk grows by a command, and may be dispatched.
LEMMA EmitStep ==
  ASSUME TypeInv, NEW c \in CommandRecords, NEW g \in Seq(CommandRecords), Grows(chunk, g, c),
         EmitCsChunk(g) \/ (chunk' = g /\ csSeqNum' = csSeqNum /\ chunks' = chunks)
  PROVE  /\ Extends(Q, Q', c) /\ Q' \in Seq(Seq(CommandRecords))
         /\ chunk' \in Seq(CommandRecords) /\ chunks' \in Seq(Seq(CommandRecords))
         /\ csSeqNum' \in Nat /\ csSeqNum <= csSeqNum' /\ csSeqNum' = executed + Len(chunks')
<1>1. /\ chunk \in Seq(CommandRecords) /\ chunks \in Seq(Seq(CommandRecords))
      /\ csSeqNum \in Nat /\ executed \in Nat /\ csSeqNum = executed + Len(chunks)
  BY DEF TypeInv
<1>2. <<>> \in Seq(CommandRecords)
  OBVIOUS
<1>3. CASE EmitCsChunk(g)
  <2>1. chunks' = Append(chunks, g) /\ chunk' = <<>> /\ csSeqNum' = csSeqNum + 1
    BY <1>3 DEF EmitCsChunk
  <2>2. chunks' \in Seq(Seq(CommandRecords)) /\ Len(chunks') = Len(chunks) + 1
    BY <2>1, <1>1
  <2>3. Q' \in Seq(Seq(CommandRecords))
    BY <2>1, <2>2, <1>2 DEF Q
  <2>4. Extends(Q, Q', c)
    BY <2>1, <1>1, GrowsExtends DEF Q
  <2>. QED
    BY <2>1, <2>2, <2>3, <2>4, <1>1, <1>2
<1>4. CASE chunk' = g /\ csSeqNum' = csSeqNum /\ chunks' = chunks
  <2>1. Extends(Q, Q', c) /\ Q' \in Seq(Seq(CommandRecords))
    BY <1>4, <1>1, GrowsExtends DEF Q
  <2>. QED
    BY <2>1, <1>4, <1>1
<1>. QED
  BY <1>3, <1>4

\* What chunks do without a command that concerns the buffer.
Sends ==
  \/ ExecuteFlush
  \/ FlushCsChunk /\ UNCHANGED flushSeqNum
  \/ EmitCsChunk(chunk) /\ UNCHANGED flushSeqNum
  \/ UNCHANGED csVars

LEMMA FlushTyped ==
  TypeInv => FlushCommand \in CommandRecords /\ FlushCommand.op = "flush"
BY DEF TypeInv, FlushCommand, CommandRecords, Ops

LEMMA SendsStep ==
  ASSUME TypeInv, Sends
  PROVE  /\ Extends(Q, Q', FlushCommand) /\ Q' \in Seq(Seq(CommandRecords))
         /\ chunk' \in Seq(CommandRecords) /\ chunks' \in Seq(Seq(CommandRecords))
         /\ csSeqNum' \in Nat /\ csSeqNum <= csSeqNum' /\ csSeqNum' = executed + Len(chunks')
         /\ flushSeqNum' \in 0 .. csSeqNum'
<1>1. /\ chunk \in Seq(CommandRecords) /\ csSeqNum \in Nat /\ flushSeqNum \in 0 .. csSeqNum
      /\ FlushCommand \in CommandRecords /\ FlushCommand.op = "flush"
  BY FlushTyped DEF TypeInv
<1>2. /\ Grows(chunk, chunk, FlushCommand)
      /\ Append(chunk, FlushCommand) \in Seq(CommandRecords)
      /\ Grows(chunk, Append(chunk, FlushCommand), FlushCommand)
  BY <1>1, GrowsBy
<1>3. CASE EmitCsChunk(Append(chunk, FlushCommand)) /\ flushSeqNum' = csSeqNum'
  <2>1. /\ Extends(Q, Q', FlushCommand) /\ Q' \in Seq(Seq(CommandRecords))
        /\ chunk' \in Seq(CommandRecords) /\ chunks' \in Seq(Seq(CommandRecords))
        /\ csSeqNum' \in Nat /\ csSeqNum <= csSeqNum' /\ csSeqNum' = executed + Len(chunks')
    BY <1>1, <1>2, <1>3, EmitStep
  <2>. QED
    BY <2>1, <1>3
<1>4. CASE \/ EmitCsChunk(chunk) /\ flushSeqNum' = flushSeqNum
           \/ chunk' = chunk /\ csSeqNum' = csSeqNum /\ chunks' = chunks /\ flushSeqNum' = flushSeqNum
  <2>1. /\ Extends(Q, Q', FlushCommand) /\ Q' \in Seq(Seq(CommandRecords))
        /\ chunk' \in Seq(CommandRecords) /\ chunks' \in Seq(Seq(CommandRecords))
        /\ csSeqNum' \in Nat /\ csSeqNum <= csSeqNum' /\ csSeqNum' = executed + Len(chunks')
    BY <1>1, <1>2, <1>4, EmitStep
  <2>. QED
    BY <2>1, <1>1, <1>4
<1>. QED
  BY <1>3, <1>4 DEF Sends, ExecuteFlush, FlushCsChunk, csVars

\* Then nothing changes for the commands, the slices and the contents.
LEMMA SendsKeeps ==
  ASSUME IInv, Sends,
         UNCHANGED <<kind, mapped, latest, access, seqNum, executed, physSlice, list, submitted,
                     retired, freeSlices, nextSlices, allocated, contents>>,
         map'.type = map.type \/ access # "write"
  PROVE  /\ OrderInv' /\ SliceInv' /\ PlaceInv' /\ ExclusiveInv' /\ ContentsInv'
         /\ (kind.tracked => UsedUpTo(Q, executed, seqNum))'
         /\ \A x \in CommandsIn(Q') : x \in CommandsIn(Q) \/ x.op = "flush"
         /\ UsesIn(L)' = UsesIn(L)
<1>. DEFINE f == FlushCommand
<1>1. /\ Extends(Q, Q', f) /\ Q' \in Seq(Seq(CommandRecords)) /\ Q \in Seq(Seq(CommandRecords))
      /\ f \in CommandRecords /\ f.op = "flush"
  BY SendsStep, FlushTyped, ChunksTyped DEF IInv
<1>2. L' = L
  BY DEF L
<1>3. Adds(CommandsIn(Q), CommandsIn(Q'), f)
  BY <1>1, ExtendsCommands
<1>4. CommandsIn(Q) \in SUBSET CommandRecords /\ UsesIn(L) \in SUBSET UseRecords
  BY ChunksTyped, ListsTyped DEF IInv
<1>5. latest \in Nat /\ executed \in Nat /\ seqNum \in Nat
  BY DEF IInv, TypeInv
<1>. HIDE DEF f
<1>6. OrderInv'
  <2>1. InOrder(Q) /\ ListsInOrder(L) /\ Numbered(CommandsIn(Q), UsesIn(L), latest, access)
    BY DEF IInv, OrderInv
  <2>2. InOrder(Q')
    BY <2>1, <1>1, ExtendsOrder
  <2>3. Numbered(CommandsIn(Q'), UsesIn(L), latest, access)
    <3>1. f.op # "write" /\ f.op # "invalidate" /\ latest <= latest
      BY <1>1, <1>5
    <3>. QED
      BY <2>1, <3>1, <1>1, <1>3, <1>4, <1>5, NumberedAdds
  <2>. QED
    BY <2>1, <2>2, <2>3, <1>2 DEF OrderInv
<1>7. SliceInv'
  <2>1. SlicesAgree(CommandsIn(Q), mapped, latest, physSlice) /\ Held(L, physSlice)
    BY DEF IInv, SliceInv
  <2>2. \A x \in CommandsIn(Q) : x.op = "invalidate" => x.contents <= latest
    BY DEF IInv, OrderInv, Numbered
  <2>3. SlicesAgree(CommandsIn(Q'), mapped, latest, physSlice)
    BY <2>1, <2>2, <1>1, <1>3, <1>4, <1>5, SlicesAdds DEF IsUse
  <2>. QED
    BY <2>1, <2>3, <1>2 DEF SliceInv
<1>8. PlaceInv'
  <2>1. /\ Apart(CommandsIn(Q), FreedIn(L), RetiredSlices, physSlice, freeSlices, nextSlices, allocated)
        /\ FreedOnce(L)
    BY DEF IInv, PlaceInv
  <2>2. RetiredSlices' = RetiredSlices
    BY DEF RetiredSlices
  <2>3. Apart(CommandsIn(Q'), FreedIn(L), RetiredSlices, physSlice, freeSlices, nextSlices, allocated)
    BY <2>1, <1>1, <1>3, ApartAdds
  <2>. QED
    BY <2>1, <2>2, <2>3, <1>2 DEF PlaceInv
<1>9. Pending' = Pending
  BY <1>1, <1>2, <1>3 DEF Pending, Adds, IsUse
<1>10. ExclusiveInv'
  BY <1>9 DEF IInv, ExclusiveInv
<1>11. ContentsInv'
  BY <1>9 DEF IInv, ContentsInv, UpToDate
<1>12. (kind.tracked => UsedUpTo(Q, executed, seqNum))'
  <2>1. SUFFICES ASSUME kind.tracked PROVE UsedUpTo(Q', executed, seqNum)
    OBVIOUS
  <2>2. UsedUpTo(Q, executed, seqNum)
    BY <2>1 DEF IInv, MapInv
  <2>. QED
    BY <2>2, <1>1, <1>5, UsedUpToExtends DEF IsUse
<1>13. \A x \in CommandsIn(Q') : x \in CommandsIn(Q) \/ x.op = "flush"
  BY <1>1, <1>3 DEF Adds
<1>14. UsesIn(L)' = UsesIn(L)
  BY <1>2
<1>. QED
  BY <1>6, <1>7, <1>8, <1>10, <1>11, <1>12, <1>13, <1>14
LEMMA InUseIs ==
  ASSUME TypeInv, NEW type
  PROVE  InUse(type) <=> \E u \in UsesIn(L) : type = "read" \/ u.op = "write"
<1>0. submitted \in Seq(ListRecords)
  BY DEF TypeInv
<1>1. PICK n \in Nat : n = Len(submitted)
  BY <1>0
<1>2. Len(L) = n + 1 /\ L[n + 1] = list /\ \A i \in 1 .. n : L[i] = submitted[i]
  BY <1>1 DEF L, TypeInv
<1>3. ASSUME NEW i \in 1 .. Len(L)
      PROVE  L[i] \in {list} \cup {submitted[k] : k \in 1 .. Len(submitted)}
  <2>1. i \in 1 .. n \/ i = n + 1
    BY <1>2
  <2>. QED
    BY <2>1, <1>1, <1>2
<1>4. ASSUME NEW l \in {list} \cup {submitted[k] : k \in 1 .. Len(submitted)}
      PROVE  \E i \in 1 .. Len(L) : L[i] = l
  <2>1. CASE l = list
    <3>1. n + 1 \in 1 .. Len(L)
      BY <1>2
    <3>. QED
      BY <2>1, <3>1, <1>2
  <2>2. ASSUME NEW k \in 1 .. Len(submitted), l = submitted[k] PROVE \E i \in 1 .. Len(L) : L[i] = l
    BY <2>2, <1>1, <1>2
  <2>. QED
    BY <2>1, <2>2
<1>. HIDE DEF L
<1>5. ASSUME InUse(type) PROVE \E u \in UsesIn(L) : type = "read" \/ u.op = "write"
  <2>1. PICK l \in {list} \cup {submitted[k] : k \in 1 .. Len(submitted)} :
               \E i \in 1 .. Len(l.uses) : type = "read" \/ l.uses[i].op = "write"
    BY <1>5 DEF InUse
  <2>2. PICK i \in 1 .. Len(L) : L[i] = l
    BY <1>4
  <2>. QED
    BY <2>1, <2>2, UseMember
<1>6. ASSUME NEW u \in UsesIn(L), type = "read" \/ u.op = "write" PROVE InUse(type)
  <2>1. PICK i \in 1 .. Len(L) : \E j \in 1 .. Len(L[i].uses) : u = L[i].uses[j]
    BY UsePlace
  <2>. QED
    BY <2>1, <1>3, <1>6 DEF InUse
<1>. QED
  BY <1>5, <1>6

\* Once the CS thread has been waited for, no use of the buffer is in a chunk.
LEMMA SynchronizedEmpty ==
  ASSUME TypeInv, MapInv, pc \in {"probe", "recheck", "wait"}, Synchronized
  PROVE  \A c \in CommandsIn(Q) : ~IsUse(c)
<1>1. SUFFICES ASSUME NEW i \in 1 .. Len(Q), NEW j \in 1 .. Len(Q[i]), IsUse(Q[i][j])
               PROVE  FALSE
  BY CommandPlace
<1>2. executed \in Nat /\ seqNum \in Nat /\ csSeqNum \in Nat /\ csSeqNum = executed + Len(chunks)
      /\ Len(chunks) \in Nat
  BY DEF TypeInv
<1>3. CASE kind.tracked
  <2>1. map.target = seqNum /\ UsedUpTo(Q, executed, seqNum)
    BY <1>3 DEF MapInv
  <2>2. executed + i <= seqNum
    BY <1>1, <2>1 DEF UsedUpTo
  <2>. QED
    BY <2>1, <2>2, <1>2 DEF Synchronized
<1>4. CASE ~kind.tracked
  <2>1. map.target = csSeqNum /\ chunk = <<>>
    BY <1>4 DEF MapInv
  <2>2. Len(chunks) = 0
    BY <2>1, <1>2 DEF Synchronized
  <2>3. chunks = <<>>
    BY <2>2 DEF TypeInv
  <2>4. Q = <<<<>>>>
    BY <2>1, <2>3 DEF Q
  <2>. QED
    BY <2>4
<1>. QED
  BY <1>3, <1>4

MapRecords == [type : {"none", "discard", "read", "write"}, wait : BOOLEAN, target : Nat,
               written : BOOLEAN]

\* A step that sends chunks at most, and goes on in MapBuffer.
LEMMA SendsType ==
  ASSUME IInv, Sends,
         UNCHANGED <<kind, mapped, latest, access, seqNum, executed, physSlice, list, submitted,
                     retired, freeSlices, nextSlices, allocated, contents>>,
         calls' \in Nat, map' \in MapRecords,
         pc' \in {"idle", "implicit", "probe", "probed", "check", "busy", "recheck", "wait"}
  PROVE  TypeInv'
<1>1. /\ chunk' \in Seq(CommandRecords) /\ chunks' \in Seq(Seq(CommandRecords))
      /\ csSeqNum' \in Nat /\ csSeqNum' = executed + Len(chunks') /\ flushSeqNum' \in 0 .. csSeqNum'
  BY SendsStep DEF IInv
<1>. QED
  BY <1>1 DEF IInv, TypeInv, MapRecords

\* Where it goes on, if it waits for the CS thread.
LEMMA SendsInv ==
  ASSUME IInv, Sends,
         UNCHANGED <<kind, mapped, latest, access, seqNum, executed, physSlice, list, submitted,
                     retired, freeSlices, nextSlices, allocated, contents>>,
         calls' \in Nat, map' \in MapRecords,
         pc' \in {"idle", "implicit", "probe", "probed", "check", "busy", "recheck", "wait"},
         map'.type = map.type \/ access # "write",
         access = "none" \/ (pc' = pc /\ map' = map),
         pc' # "idle" => map'.type \in {"read", "write"},
         pc' \in {"probe", "recheck", "wait"} =>
           IF kind.tracked THEN map'.target = seqNum ELSE map'.target = csSeqNum' /\ chunk' = <<>>,
         pc' = "probed" /\ ~map'.written => \A c \in CommandsIn(Q) \cup UsesIn(L) : c.op # "write"
  PROVE  IInv'
<1>1. TypeInv'
  BY SendsType
<1>2. /\ OrderInv' /\ SliceInv' /\ PlaceInv' /\ ExclusiveInv' /\ ContentsInv'
      /\ (kind.tracked => UsedUpTo(Q, executed, seqNum))'
      /\ \A x \in CommandsIn(Q') : x \in CommandsIn(Q) \/ x.op = "flush"
      /\ UsesIn(L)' = UsesIn(L)
  BY SendsKeeps
<1>3. (pc # "idle" => access = "none" /\ map.type \in {"read", "write"})'
  BY DEF IInv, MapInv
<1>4. (access # "none" => map.type # "none")'
  BY DEF IInv, MapInv
<1>5. (pc = "probed" /\ ~map.written => \A c \in CommandsIn(Q) \cup UsesIn(L) : c.op # "write")'
  BY <1>2
<1>6. (pc \in {"probe", "recheck", "wait"} =>
         IF kind.tracked THEN map.target = seqNum ELSE map.target = csSeqNum /\ chunk = <<>>)'
  OBVIOUS
<1>7. MapInv'
  BY <1>2, <1>3, <1>4, <1>5, <1>6 DEF MapInv
<1>. QED
  BY <1>1, <1>2, <1>7 DEF IInv
-----------------------------------------------------------------------------
(* Steps of MapBuffer that wait                                            *)

LEMMA ChunkFullInv == IInv /\ ChunkFull => IInv'
<1>. SUFFICES ASSUME IInv, ChunkFull PROVE IInv'
  OBVIOUS
<1>1. Sends /\ map' = map /\ pc' = pc /\ calls' = calls
      /\ UNCHANGED <<kind, mapped, latest, access, seqNum, executed, physSlice, list, submitted,
                     retired, freeSlices, nextSlices, allocated, contents>>
  BY DEF ChunkFull, Sends, appVars, freeVars, execVars, gpuVars
<1>2. pc \in {"idle", "probed"}
  BY DEF ChunkFull, Idle
<1>3. calls' \in Nat /\ map' \in MapRecords /\ pc' \in {"idle", "probed"}
  BY <1>1, <1>2 DEF IInv, TypeInv, MapRecords
<1>4. /\ pc # "idle" => map.type \in {"read", "write"}
      /\ pc = "probed" /\ ~map.written => \A c \in CommandsIn(Q) \cup UsesIn(L) : c.op # "write"
  BY DEF IInv, MapInv
<1>. QED
  BY <1>1, <1>2, <1>3, <1>4, SendsInv

LEMMA FlushInv == IInv /\ Flush => IInv'
<1>. SUFFICES ASSUME IInv, Flush PROVE IInv'
  OBVIOUS
<1>1. Sends /\ map' = map /\ pc' = pc /\ calls' = calls
      /\ UNCHANGED <<kind, mapped, latest, access, seqNum, executed, physSlice, list, submitted,
                     retired, freeSlices, nextSlices, allocated, contents>>
  BY DEF Flush, Sends, appVars, freeVars, execVars, gpuVars
<1>2. pc \in {"idle", "probed"}
  BY DEF Flush, Idle
<1>3. calls' \in Nat /\ map' \in MapRecords /\ pc' \in {"idle", "probed"}
  BY <1>1, <1>2 DEF IInv, TypeInv, MapRecords
<1>4. /\ pc # "idle" => map.type \in {"read", "write"}
      /\ pc = "probed" /\ ~map.written => \A c \in CommandsIn(Q) \cup UsesIn(L) : c.op # "write"
  BY DEF IInv, MapInv
<1>. QED
  BY <1>1, <1>2, <1>3, <1>4, SendsInv

LEMMA BeginInv == ASSUME NEW type \in {"read", "write"}, NEW wait \in BOOLEAN
                  PROVE  IInv /\ Map(type, wait) => IInv'
<1>. SUFFICES ASSUME IInv, Map(type, wait) PROVE IInv'
  OBVIOUS
<1>1. /\ Sends /\ access = "none"
      /\ UNCHANGED <<kind, mapped, latest, access, seqNum, executed, physSlice, list, submitted,
                     retired, freeSlices, nextSlices, allocated, contents>>
  BY DEF Map, Call, Idle, Sends, csVars, freeVars, execVars, gpuVars
<1>2. map' = [NoMap EXCEPT !.type = type, !.wait = wait] /\ pc' \in {"implicit", "check"}
      /\ calls' = calls + 1 /\ calls \in Nat
  BY DEF Map, Call, IInv, TypeInv
<1>3. map' \in MapRecords /\ map'.type = type
  BY <1>2 DEF MapRecords, NoMap
<1>4. calls' \in Nat
  BY <1>2
<1>. QED
  BY <1>1, <1>2, <1>3, <1>4, SendsInv

\* A target is set: the last chunk that may use the buffer.
LEMMA TargetStep ==
  ASSUME IInv, csSeqNum' \in Nat, map' = [map EXCEPT !.target = SequenceNumber]
  PROVE  /\ map' \in MapRecords /\ map'.type = map.type
         /\ map'.target = IF kind.tracked THEN seqNum ELSE csSeqNum'
<1>1. map \in MapRecords /\ seqNum \in Nat
  BY DEF IInv, TypeInv, MapRecords
<1>2. SequenceNumber \in Nat
  BY <1>1 DEF SequenceNumber
<1>. QED
  BY <1>1, <1>2 DEF SequenceNumber, MapRecords

LEMMA BeginSyncStep ==
  ASSUME IInv, NEW next, SynchronizeBegin(next)
  PROVE  /\ Sends /\ pc' = next /\ map' \in MapRecords /\ map'.type = map.type
         /\ IF kind.tracked THEN map'.target = seqNum ELSE map'.target = csSeqNum' /\ chunk' = <<>>
<1>1. Sends
  BY DEF SynchronizeBegin, Sends, csVars
<1>2. csSeqNum' \in Nat
  BY <1>1, SendsStep DEF IInv
<1>3. map' = [map EXCEPT !.target = SequenceNumber] /\ pc' = next
  BY DEF SynchronizeBegin
<1>4. /\ map' \in MapRecords /\ map'.type = map.type
      /\ map'.target = IF kind.tracked THEN seqNum ELSE csSeqNum'
  BY <1>2, <1>3, TargetStep
<1>5. ~kind.tracked => chunk' = <<>>
  BY DEF SynchronizeBegin, FlushCsChunk, EmitCsChunk
<1>. QED
  BY <1>1, <1>3, <1>4, <1>5

LEMMA ImplicitSyncInv == IInv /\ ImplicitSync => IInv'
<1>. SUFFICES ASSUME IInv, ImplicitSync PROVE IInv'
  OBVIOUS
<1>1. SynchronizeBegin("probe") /\ pc # "idle" /\ calls' = calls
      /\ UNCHANGED <<kind, mapped, latest, access, seqNum, executed, physSlice, list, submitted,
                     retired, freeSlices, nextSlices, allocated, contents>>
  BY DEF ImplicitSync, freeVars, execVars, gpuVars
<1>2. /\ Sends /\ pc' = "probe" /\ map' \in MapRecords /\ map'.type = map.type
      /\ IF kind.tracked THEN map'.target = seqNum ELSE map'.target = csSeqNum' /\ chunk' = <<>>
  BY <1>1, BeginSyncStep
<1>3. access = "none" /\ map.type \in {"read", "write"}
  BY <1>1 DEF IInv, MapInv
<1>4. calls' \in Nat
  BY <1>1 DEF IInv, TypeInv
<1>. QED
  BY <1>1, <1>2, <1>3, <1>4, SendsInv

LEMMA CheckInv == IInv /\ Check => IInv'
<1>. SUFFICES ASSUME IInv, Check PROVE IInv'
  OBVIOUS
<1>1. pc # "idle" /\ calls' = calls
      /\ UNCHANGED <<kind, mapped, latest, access, seqNum, executed, physSlice, list, submitted,
                     retired, freeSlices, nextSlices, allocated, contents>>
  BY DEF Check, freeVars, execVars, gpuVars
<1>2. access = "none" /\ map.type \in {"read", "write"}
  BY <1>1 DEF IInv, MapInv
<1>3. calls' \in Nat /\ map \in MapRecords
  BY <1>1 DEF IInv, TypeInv, MapRecords
<1>4. CASE InUse(Conflict)
  <2>1. pc' = "busy" /\ map' = map /\ Sends
    BY <1>4 DEF Check, Sends
  <2>. QED
    BY <2>1, <1>1, <1>2, <1>3, SendsInv
<1>5. CASE ~InUse(Conflict)
  <2>1. SynchronizeBegin("recheck")
    BY <1>5 DEF Check
  <2>2. /\ Sends /\ pc' = "recheck" /\ map' \in MapRecords /\ map'.type = map.type
        /\ IF kind.tracked THEN map'.target = seqNum ELSE map'.target = csSeqNum' /\ chunk' = <<>>
    BY <2>1, BeginSyncStep
  <2>. QED
    BY <2>2, <1>1, <1>2, <1>3, SendsInv
<1>. QED
  BY <1>4, <1>5

LEMMA RefuseInv == IInv /\ Refuse => IInv'
<1>. SUFFICES ASSUME IInv, Refuse PROVE IInv'
  OBVIOUS
<1>1. Sends /\ pc # "idle" /\ calls' = calls /\ map' = map /\ pc' = "idle"
      /\ UNCHANGED <<kind, mapped, latest, access, seqNum, executed, physSlice, list, submitted,
                     retired, freeSlices, nextSlices, allocated, contents>>
  BY DEF Refuse, Sends, freeVars, execVars, gpuVars
<1>2. access = "none"
  BY <1>1 DEF IInv, MapInv
<1>3. calls' \in Nat /\ map \in MapRecords
  BY <1>1 DEF IInv, TypeInv, MapRecords
<1>. QED
  BY <1>1, <1>2, <1>3, SendsInv

LEMMA BusyInv == IInv /\ Busy => IInv'
<1>. SUFFICES ASSUME IInv, Busy PROVE IInv'
  OBVIOUS
<1>1. /\ ExecuteFlush /\ pc # "idle" /\ calls' = calls /\ pc' = "wait"
      /\ map' = [map EXCEPT !.target = SequenceNumber]
      /\ UNCHANGED <<kind, mapped, latest, access, seqNum, executed, physSlice, list, submitted,
                     retired, freeSlices, nextSlices, allocated, contents>>
  BY DEF Busy, freeVars, execVars, gpuVars
<1>2. access = "none" /\ map.type \in {"read", "write"}
  BY <1>1 DEF IInv, MapInv
<1>3. calls' \in Nat
  BY <1>1 DEF IInv, TypeInv
<1>4. Sends
  BY <1>1 DEF Sends
<1>5. csSeqNum' \in Nat
  BY <1>4, SendsStep DEF IInv
<1>6. /\ map' \in MapRecords /\ map'.type = map.type
      /\ map'.target = IF kind.tracked THEN seqNum ELSE csSeqNum'
  BY <1>1, <1>5, TargetStep
<1>7. chunk' = <<>>
  <2>1. flushSeqNum \in 0 .. csSeqNum /\ csSeqNum \in Nat
    BY DEF IInv, TypeInv
  <2>2. CASE CurrentSequenceNumber = flushSeqNum
    <3>1. chunk = <<>>
      BY <2>1, <2>2 DEF CurrentSequenceNumber
    <3>. QED
      BY <3>1, <2>2, <1>1 DEF ExecuteFlush, csVars
  <2>. QED
    BY <2>2, <1>1 DEF ExecuteFlush, EmitCsChunk
<1>. QED
  BY <1>1, <1>2, <1>3, <1>4, <1>6, <1>7, SendsInv

LEMMA ProbeWritesInv == IInv /\ ProbeWrites => IInv'
<1>. SUFFICES ASSUME IInv, ProbeWrites PROVE IInv'
  OBVIOUS
<1>1. Sends /\ pc = "probe" /\ calls' = calls /\ pc' = "probed"
      /\ map' = [map EXCEPT !.written = InUse("write")] /\ Synchronized
      /\ UNCHANGED <<kind, mapped, latest, access, seqNum, executed, physSlice, list, submitted,
                     retired, freeSlices, nextSlices, allocated, contents>>
  BY DEF ProbeWrites, Sends, csVars, freeVars, execVars, gpuVars
<1>2. access = "none" /\ map.type \in {"read", "write"}
  BY <1>1 DEF IInv, MapInv
<1>3. calls' \in Nat /\ map \in MapRecords
  BY <1>1 DEF IInv, TypeInv, MapRecords
<1>4. InUse("write") \in BOOLEAN
  BY DEF InUse
<1>5. map' \in MapRecords /\ map'.type = map.type /\ map'.written = InUse("write")
  BY <1>1, <1>3, <1>4 DEF MapRecords
<1>6. ~InUse("write") => \A c \in CommandsIn(Q) \cup UsesIn(L) : c.op # "write"
  <2>1. \A c \in CommandsIn(Q) : ~IsUse(c)
    BY <1>1, SynchronizedEmpty DEF IInv
  <2>2. InUse("write") <=> \E u \in UsesIn(L) : "write" = "read" \/ u.op = "write"
    BY InUseIs DEF IInv
  <2>. QED
    BY <2>1, <2>2 DEF IsUse
<1>7. ~map'.written => ~InUse("write")
  BY <1>5
<1>. QED
  BY <1>1, <1>2, <1>3, <1>5, <1>6, <1>7, SendsInv

LEMMA NoPreserveInv == IInv /\ NoPreserve => IInv'
<1>. SUFFICES ASSUME IInv, NoPreserve PROVE IInv'
  OBVIOUS
<1>1. Sends /\ pc # "idle" /\ calls' = calls /\ map' = map /\ pc' = "check"
      /\ UNCHANGED <<kind, mapped, latest, access, seqNum, executed, physSlice, list, submitted,
                     retired, freeSlices, nextSlices, allocated, contents>>
  BY DEF NoPreserve, Sends, csVars, freeVars, execVars, gpuVars
<1>2. access = "none" /\ map.type \in {"read", "write"}
  BY <1>1 DEF IInv, MapInv
<1>3. calls' \in Nat /\ map \in MapRecords
  BY <1>1 DEF IInv, TypeInv, MapRecords
<1>. QED
  BY <1>1, <1>2, <1>3, SendsInv

\* MapBuffer returns when nothing that is in the way is pending any more.
LEMMA SucceedInv ==
  ASSUME IInv, pc \in {"recheck", "wait"}, Synchronized, ~InUse(Conflict), Succeed,
         UNCHANGED <<kind, calls, map, latest, mapped, seqNum, csVars, freeVars, execVars, gpuVars,
                     contents>>
  PROVE  IInv'
<1>1. access = "none" /\ map.type \in {"read", "write"} /\ access' = map.type /\ pc' = "idle"
  BY DEF IInv, MapInv, Succeed
<1>2. Q' = Q /\ L' = L /\ Pending' = Pending
  BY DEF Q, L, Pending, csVars, execVars, gpuVars
<1>3. TypeInv'
  BY <1>1 DEF IInv, TypeInv, csVars, freeVars, execVars, gpuVars
<1>4. OrderInv'
  BY <1>1, <1>2 DEF IInv, OrderInv, Numbered
<1>5. SliceInv'
  BY <1>2 DEF IInv, SliceInv, execVars
<1>6. PlaceInv'
  BY <1>2 DEF IInv, PlaceInv, RetiredSlices, freeVars, execVars, gpuVars
<1>7. MapInv'
  BY <1>1, <1>2 DEF IInv, MapInv, execVars, csVars
<1>8. ExclusiveInv'
  <2>1. \A c \in CommandsIn(Q) : ~IsUse(c)
    BY SynchronizedEmpty DEF IInv
  <2>2. InUse(Conflict) <=> \E u \in UsesIn(L) : Conflict = "read" \/ u.op = "write"
    BY InUseIs DEF IInv
  <2>3. PendingIn(L) \subseteq UsesIn(L) /\ UsesIn(L) \subseteq UseRecords
    BY ListsTyped DEF IInv
  <2>4. \A c \in Pending : c \in UsesIn(L) /\ c.op \in {"read", "write"}
    BY <2>1, <2>3 DEF Pending, IsUse
  <2>5. \A c \in Pending : map.type = "read" /\ c.op = "read"
    BY <2>2, <2>4, <1>1 DEF Conflict
  <2>. QED
    BY <2>5, <1>1, <1>2 DEF ExclusiveInv, Exclusive
<1>9. ContentsInv'
  BY <1>1, <1>2 DEF IInv, ContentsInv, UpToDate
<1>. QED
  BY <1>3, <1>4, <1>5, <1>6, <1>7, <1>8, <1>9 DEF IInv

LEMMA RecheckInv == IInv /\ Recheck => IInv'
<1>. SUFFICES ASSUME IInv, Recheck PROVE IInv'
  OBVIOUS
<1>1. CASE ~InUse(Conflict)
  BY <1>1, SucceedInv DEF Recheck
<1>2. CASE InUse(Conflict)
  <2>1. Sends /\ pc # "idle" /\ calls' = calls /\ map' = map /\ pc' = "busy"
        /\ UNCHANGED <<kind, mapped, latest, access, seqNum, executed, physSlice, list, submitted,
                       retired, freeSlices, nextSlices, allocated, contents>>
    BY <1>2 DEF Recheck, Sends, csVars, freeVars, execVars, gpuVars
  <2>2. access = "none" /\ map.type \in {"read", "write"}
    BY <2>1 DEF IInv, MapInv
  <2>3. calls' \in Nat /\ map \in MapRecords
    BY <2>1 DEF IInv, TypeInv, MapRecords
  <2>. QED
    BY <2>1, <2>2, <2>3, SendsInv
<1>. QED
  BY <1>1, <1>2

LEMMA WaitForResourceInv == IInv /\ WaitForResource => IInv'
BY SucceedInv DEF WaitForResource
-----------------------------------------------------------------------------
(* Steps that record a command                                             *)

LEMMA UseInv == ASSUME NEW op \in {"read", "write"} PROVE IInv /\ Use(op) => IInv'
<1>. SUFFICES ASSUME IInv, Use(op) PROVE IInv'
  OBVIOUS
<1>. DEFINE c == [Command(op) EXCEPT !.contents = latest']
<1>1. /\ pc = "idle" /\ access = "none" /\ calls' = calls + 1
      /\ latest' = IF op = "write" THEN latest + 1 ELSE latest
      /\ seqNum' = IF kind.tracked THEN CurrentSequenceNumber' ELSE seqNum
      /\ UNCHANGED <<kind, pc, map, access, mapped, freeSlices, nextSlices, allocated, executed, physSlice, list,
                     submitted, retired, contents>>
      /\ \/ EmitCs(c) /\ UNCHANGED flushSeqNum
         \/ EmitCsChunk(chunk \o <<c, FlushCommand>>) /\ flushSeqNum' = csSeqNum'
  BY DEF Use, Call, Idle, freeVars, execVars, gpuVars
<1>2. /\ latest \in Nat /\ latest' \in Nat /\ mapped \in Slices /\ chunk \in Seq(CommandRecords)
      /\ latest <= latest'
  BY <1>1 DEF IInv, TypeInv
<1>3. c.op = op /\ c.slice = mapped /\ c.contents = latest' /\ c \in CommandRecords /\ IsUse(c)
  BY <1>2 DEF Command, CommandRecords, Ops, IsUse
<1>. HIDE DEF c
<1>4. FlushCommand \in CommandRecords /\ FlushCommand.op = "flush"
  BY FlushTyped DEF IInv
<1>5. /\ Append(chunk, c) \in Seq(CommandRecords) /\ Grows(chunk, Append(chunk, c), c)
      /\ chunk \o <<c, FlushCommand>> \in Seq(CommandRecords)
      /\ Grows(chunk, chunk \o <<c, FlushCommand>>, c)
  BY <1>2, <1>3, <1>4, GrowsBy
<1>6. /\ Extends(Q, Q', c) /\ Q' \in Seq(Seq(CommandRecords))
      /\ chunk' \in Seq(CommandRecords) /\ chunks' \in Seq(Seq(CommandRecords))
      /\ csSeqNum' \in Nat /\ csSeqNum <= csSeqNum' /\ csSeqNum' = executed + Len(chunks')
  <2>1. CASE EmitCs(c)
    BY <2>1, <1>3, <1>5, EmitStep DEF EmitCs, IInv
  <2>2. CASE EmitCsChunk(chunk \o <<c, FlushCommand>>)
    BY <2>2, <1>3, <1>5, EmitStep DEF IInv
  <2>. QED
    BY <2>1, <2>2, <1>1
<1>7. Q \in Seq(Seq(CommandRecords)) /\ CommandsIn(Q) \in SUBSET CommandRecords
      /\ UsesIn(L) \in SUBSET UseRecords
  BY ChunksTyped, ListsTyped DEF IInv
<1>8. L' = L
  BY <1>1 DEF L
<1>9. Adds(CommandsIn(Q), CommandsIn(Q'), c)
  BY <1>6, ExtendsCommands
<1>10. CurrentSequenceNumber' \in Nat /\ csSeqNum \in Nat /\ CurrentSequenceNumber' = csSeqNum + 1
  <2>1. csSeqNum \in Nat
    BY DEF IInv, TypeInv
  <2>2. CASE EmitCs(c)
    <3>1. chunk' # <<>> /\ csSeqNum' = csSeqNum
      BY <2>2, <1>2 DEF EmitCs
    <3>. QED
      BY <3>1, <2>1 DEF CurrentSequenceNumber
  <2>3. CASE EmitCsChunk(chunk \o <<c, FlushCommand>>)
    BY <2>1, <2>3 DEF EmitCsChunk, CurrentSequenceNumber
  <2>. QED
    BY <2>2, <2>3, <1>1
<1>11. TypeInv'
  <2>1. flushSeqNum' \in 0 .. csSeqNum'
    BY <1>1, <1>6 DEF IInv, TypeInv
  <2>2. seqNum' \in Nat /\ calls' \in Nat
    BY <1>1, <1>10 DEF IInv, TypeInv
  <2>. QED
    BY <2>1, <2>2, <1>1, <1>2, <1>6 DEF IInv, TypeInv
<1>12. OrderInv'
  <2>1. InOrder(Q) /\ ListsInOrder(L) /\ Numbered(CommandsIn(Q), UsesIn(L), latest, access)
    BY DEF IInv, OrderInv
  <2>2. /\ c.op # "flush" => access # "write" /\ latest <= c.contents /\ c.contents <= latest'
        /\ c.op = "write" => latest < c.contents
        /\ c.op # "invalidate"
    BY <1>1, <1>2, <1>3
  <2>3. /\ Numbered(CommandsIn(Q'), UsesIn(L), latest', access)
        /\ c.op # "flush" => \A x \in CommandsIn(Q) : x.op # "flush" => Ordered(x, c)
    BY <2>1, <2>2, <1>2, <1>3, <1>7, <1>9, NumberedAdds
  <2>4. InOrder(Q')
    BY <2>1, <2>3, <1>6, <1>7, ExtendsOrder
  <2>. QED
    BY <2>1, <2>3, <2>4, <1>1, <1>8 DEF OrderInv
<1>13. SliceInv'
  <2>1. SlicesAgree(CommandsIn(Q), mapped, latest, physSlice) /\ Held(L, physSlice)
    BY DEF IInv, SliceInv
  <2>2. /\ \A x \in CommandsIn(Q) : x.op = "invalidate" => x.contents <= latest
        /\ \A x \in CommandsIn(Q) : x.op = "invalidate" => x.contents < latest
    BY <1>1 DEF IInv, OrderInv, Numbered
  <2>3. (latest' = latest \/ latest' = latest + 1) /\ c.op # "invalidate"
    BY <1>1, <1>3
  <2>4. SlicesAgree(CommandsIn(Q'), mapped, latest', physSlice)
    BY <2>1, <2>2, <2>3, <1>2, <1>3, <1>7, <1>9, SlicesAdds
  <2>. QED
    BY <2>1, <2>4, <1>1, <1>8 DEF SliceInv
<1>14. PlaceInv'
  <2>1. /\ Apart(CommandsIn(Q), FreedIn(L), RetiredSlices, physSlice, freeSlices, nextSlices, allocated)
        /\ FreedOnce(L)
    BY DEF IInv, PlaceInv
  <2>2. RetiredSlices' = RetiredSlices
    BY <1>1 DEF RetiredSlices
  <2>3. c.op # "invalidate"
    BY <1>3
  <2>4. Apart(CommandsIn(Q'), FreedIn(L), RetiredSlices, physSlice, freeSlices, nextSlices, allocated)
    BY <2>1, <2>3, <1>9, ApartAdds
  <2>. QED
    BY <2>1, <2>2, <2>4, <1>1, <1>8 DEF PlaceInv
<1>15. MapInv'
  <2>1. executed + Len(Q) = csSeqNum + 1 /\ executed \in Nat
    BY DEF IInv, TypeInv, Q
  <2>2. (kind.tracked => UsedUpTo(Q, executed, seqNum))'
    <3>1. SUFFICES ASSUME kind.tracked PROVE UsedUpTo(Q', executed, CurrentSequenceNumber')
      BY <1>1
    <3>2. executed + Len(Q) <= CurrentSequenceNumber'
      BY <2>1, <1>10
    <3>. QED
      BY <3>2, <2>1, <1>3, <1>6, <1>7, <1>10, UsedUpToExtends
  <2>. QED
    BY <2>2, <1>1 DEF MapInv
<1>16. /\ Pending \subseteq Pending' /\ c \in Pending' /\ \A x \in Pending' : x \in Pending \/ x = c
  BY <1>3, <1>8, <1>9 DEF Pending, Adds, IsUse
<1>17. ExclusiveInv'
  BY <1>1, <1>16 DEF ExclusiveInv, Exclusive
<1>18. ContentsInv'
  <2>1. UpToDate(Pending, contents, mapped, latest, access, map.type) /\ contents \in [Slices -> Nat]
    BY DEF IInv, ContentsInv, TypeInv
  <2>2. IF c.op = "write" THEN latest' = latest + 1 ELSE latest' = latest
    BY <1>1, <1>3
  <2>3. access # "write"
    BY <1>1
  <2>4. UpToDate(Pending', contents, mapped, latest', access, map.type)
    BY <2>1, <2>2, <2>3, <1>2, <1>3, <1>16, UsedUpToDate
  <2>. QED
    BY <2>4, <1>1 DEF ContentsInv
<1>. QED
  BY <1>11, <1>12, <1>13, <1>14, <1>15, <1>17, <1>18 DEF IInv

\* The application is done with the mapped memory.
LEMMA UnmapInv == IInv /\ Unmap => IInv'
<1>. SUFFICES ASSUME IInv, Unmap PROVE IInv'
  OBVIOUS
<1>1. /\ pc = "idle" /\ access # "none" /\ access' = "none"
      /\ UNCHANGED <<kind, calls, pc, map, mapped, seqNum, csVars, freeVars, execVars, gpuVars>>
      /\ IF access = "write"
         THEN latest' = latest + 1 /\ contents' = [contents EXCEPT ![mapped] = latest + 1]
         ELSE UNCHANGED <<latest, contents>>
  BY DEF Unmap
<1>2. Q' = Q /\ L' = L /\ Pending' = Pending
  BY <1>1 DEF Q, L, Pending, csVars, execVars, gpuVars
<1>3. latest \in Nat /\ latest' \in Nat /\ latest <= latest' /\ (access = "write" => latest' = latest + 1)
  BY <1>1 DEF IInv, TypeInv
<1>4. TypeInv'
  BY <1>1, <1>3 DEF IInv, TypeInv, csVars, freeVars, execVars, gpuVars
<1>5. CommandsIn(Q) \in SUBSET CommandRecords /\ UsesIn(L) \in SUBSET UseRecords
      /\ PendingIn(L) \subseteq UsesIn(L)
  BY ChunksTyped, ListsTyped DEF IInv
<1>6. /\ \A x \in CommandsIn(Q) : x.contents \in Nat
      /\ \A x \in UsesIn(L) : x.contents \in Nat
  BY <1>5 DEF CommandRecords, UseRecords
<1>7. Numbered(CommandsIn(Q), UsesIn(L), latest, access)
  BY DEF IInv, OrderInv
<1>8. OrderInv'
  <2>1. \A x \in CommandsIn(Q) : x.op # "flush" => x.contents <= latest'
    BY <1>3, <1>6, <1>7 DEF Numbered
  <2>2. \A x \in CommandsIn(Q) : x.op = "invalidate" => x.contents < latest'
    BY <1>3, <1>6, <1>7 DEF Numbered
  <2>3. \A x \in UsesIn(L) : x.contents <= latest'
    BY <1>3, <1>6, <1>7 DEF Numbered
  <2>4. Numbered(CommandsIn(Q), UsesIn(L), latest', access')
    BY <2>1, <2>2, <2>3, <1>7 DEF Numbered
  <2>. QED
    BY <2>4, <1>2 DEF IInv, OrderInv
<1>9. SliceInv'
  <2>1. SlicesAgree(CommandsIn(Q), mapped, latest, physSlice) /\ Held(L, physSlice)
    BY DEF IInv, SliceInv
  <2>2. \A x \in CommandsIn(Q) : x.op = "invalidate" => x.contents <= latest
    BY <1>7 DEF Numbered
  <2>3. SlicesAgree(CommandsIn(Q), mapped, latest', physSlice)
    BY <2>1, <2>2, <1>3, <1>5, SlicesLater
  <2>. QED
    BY <2>1, <2>3, <1>1, <1>2 DEF SliceInv, execVars
<1>10. PlaceInv'
  BY <1>1, <1>2 DEF IInv, PlaceInv, RetiredSlices, freeVars, execVars, gpuVars
<1>11. MapInv'
  BY <1>1, <1>2 DEF IInv, MapInv, execVars
<1>12. ExclusiveInv'
  BY <1>1 DEF ExclusiveInv, Exclusive
<1>13. ContentsInv'
  <2>1. UpToDate(Pending, contents, mapped, latest, access, map.type) /\ contents \in [Slices -> Nat]
        /\ mapped \in Slices
    BY DEF IInv, ContentsInv, TypeInv
  <2>2. CASE access = "write"
    <3>1. PICK x \in Nat : x = latest + 1
      BY <1>3
    <3>2. \A c \in Pending : c.slice # mapped /\ c.slice \in Slices
      <4>1. \A c \in Pending : c.slice # mapped
        BY <2>2 DEF IInv, ExclusiveInv, Exclusive
      <4>2. \A c \in Pending : c.slice \in Slices
        BY <1>5 DEF Pending, CommandRecords, UseRecords
      <4>. QED
        BY <4>1, <4>2
    <3>3. latest' = x /\ contents' = [contents EXCEPT ![mapped] = x] /\ latest <= x
      BY <3>1, <2>2, <1>1, <1>3
    <3>4. x <= x
      OBVIOUS
    <3>5. UpToDate(Pending, [contents EXCEPT ![mapped] = x], mapped, x, access', map.type)
      BY <2>1, <3>2, <3>3, <3>4, <1>3, WrittenUpToDate
    <3>. QED
      BY <3>3, <3>5, <1>1, <1>2 DEF ContentsInv
  <2>3. CASE access # "write"
    <3>1. UpToDate(Pending, contents, mapped, latest, access', map.type)
      BY <2>1, <2>3, <1>1 DEF UpToDate
    <3>. QED
      BY <3>1, <2>3, <1>1, <1>2 DEF ContentsInv
  <2>. QED
    BY <2>2, <2>3
<1>. QED
  BY <1>4, <1>8, <1>9, <1>10, <1>11, <1>12, <1>13 DEF IInv
-----------------------------------------------------------------------------
(* A new slice                                                             *)

LEMMA SubsetOfSize ==
  ASSUME NEW S, IsFiniteSet(S), NEW n \in Nat, n <= Cardinality(S)
  PROVE  \E T \in SUBSET S : Cardinality(T) = n
<1>1. PICK m \in Nat : m = Cardinality(S)
  BY FS_CardinalityType
<1>2. PICK f \in [1 .. m -> S] :
        /\ \A i, k \in 1 .. m : f[i] = f[k] => i = k
        /\ \A s \in S : \E i \in 1 .. m : f[i] = s
  BY <1>1, FS_CardinalityType DEF ExistsBijection, Bijection, Injection, Surjection, IsInjective
<1>. DEFINE T == {f[i] : i \in 1 .. n}
            g == [i \in 1 .. n |-> f[i]]
<1>3. 1 .. n \subseteq 1 .. m
  BY <1>1
<1>4. T \subseteq S
  BY <1>2, <1>3
<1>5. g \in Bijection(1 .. n, T)
  <2>1. g \in [1 .. n -> T]
    OBVIOUS
  <2>2. \A i, k \in 1 .. n : g[i] = g[k] => i = k
    BY <1>2, <1>3
  <2>3. \A t \in T : \E i \in 1 .. n : g[i] = t
    OBVIOUS
  <2>. HIDE DEF g, T
  <2>. QED
    BY <2>1, <2>2, <2>3 DEF Bijection, Injection, Surjection, IsInjective
<1>6. ExistsBijection(1 .. n, T)
  BY <1>5 DEF ExistsBijection
<1>7. Cardinality(T) = n
  BY <1>6, FS_CountingElements
<1>. QED
  BY <1>4, <1>7

LEMMA NewSlicesUnallocated == TypeInv => NewSlices \in SUBSET Unallocated
<1>. SUFFICES ASSUME TypeInv PROVE NewSlices \in SUBSET Unallocated
  OBVIOUS
<1>1. kind.slices \in Nat
  <2>1. kind.slices \in 1 .. MaxSliceCount
    BY DEF TypeInv, Kinds
  <2>. QED
    BY <2>1
<1>2. IsFiniteSet(Unallocated)
  BY MappingAssumption, FS_Subset DEF Unallocated
<1>3. Cardinality(Unallocated) \in Nat
  BY <1>2, FS_CardinalityType
<1>4. \E new \in SUBSET Unallocated :
        \/ Cardinality(new) = kind.slices
        \/ new = Unallocated /\ Cardinality(new) < kind.slices
  <2>1. CASE kind.slices <= Cardinality(Unallocated)
    BY <2>1, <1>1, <1>2, SubsetOfSize
  <2>2. CASE Cardinality(Unallocated) < kind.slices
    BY <2>2
  <2>. QED
    BY <2>1, <2>2, <1>1, <1>3
<1>. QED
  BY <1>4 DEF NewSlices

\* A slice that is allocated was nowhere but free, or new, and is in no list then.
LEMMA AllocStep ==
  ASSUME TypeInv, PlaceInv, NEW s \in Slices, AllocSlice(s)
  PROVE  /\ freeSlices' \subseteq Slices /\ nextSlices' \subseteq Slices /\ allocated' \subseteq Slices
         /\ Apart(CommandsIn(Q), FreedIn(L), RetiredSlices, physSlice, freeSlices', nextSlices',
                  allocated' \ {s})
         /\ s \in allocated' /\ s # physSlice /\ s \notin RenamedTo(CommandsIn(Q))
         /\ s \notin FreedIn(L) \cup RetiredSlices /\ s \notin freeSlices' \cup nextSlices'
<1>1. Apart(CommandsIn(Q), FreedIn(L), RetiredSlices, physSlice, freeSlices, nextSlices, allocated)
  BY DEF PlaceInv
<1>2. freeSlices \subseteq Slices /\ nextSlices \subseteq Slices /\ allocated \subseteq Slices
  BY DEF TypeInv
<1>3. NewSlices \subseteq Slices \ allocated
  BY NewSlicesUnallocated DEF Unallocated
<1>4. CASE s \in freeSlices /\ freeSlices' = freeSlices \ {s} /\ UNCHANGED <<nextSlices, allocated>>
  BY <1>1, <1>2, <1>4 DEF Apart
<1>5. CASE /\ freeSlices = {} /\ s \in nextSlices /\ freeSlices' = nextSlices \ {s}
           /\ nextSlices' = {} /\ UNCHANGED allocated
  BY <1>1, <1>2, <1>5 DEF Apart
<1>6. CASE /\ freeSlices = {} /\ nextSlices = {} /\ s \in NewSlices
           /\ freeSlices' = NewSlices \ {s}
           /\ allocated' = allocated \cup NewSlices /\ UNCHANGED nextSlices
  <2>1. \A x \in NewSlices : /\ x # physSlice /\ x \notin RenamedTo(CommandsIn(Q))
                             /\ x \notin FreedIn(L) \cup RetiredSlices
    BY <1>1, <1>3 DEF Apart
  <2>2. allocated' \ {s} = RenamedTo(CommandsIn(Q)) \cup FreedIn(L) \cup RetiredSlices
                            \cup {physSlice} \cup freeSlices' \cup nextSlices'
    BY <1>1, <1>6, <2>1 DEF Apart
  <2>. QED
    BY <1>1, <1>2, <1>3, <1>6, <2>1, <2>2 DEF Apart
<1>. QED
  BY <1>4, <1>5, <1>6 DEF AllocSlice
\* The buffer is renamed to a slice that was free, and the application may write it: with
\* the contents it had, unless they are discarded.
LEMMA RenameInv ==
  ASSUME IInv, access = "none", NEW s \in Slices, AllocSlice(s), mapped' = s, EmitCs(Invalidate(s)),
         access' = "write", map' \in MapRecords, map'.type # "none", pc' = "idle", calls' \in Nat,
         UNCHANGED <<kind, latest, seqNum, flushSeqNum, executed, physSlice, list, submitted, retired>>,
         \/ contents' = contents /\ map'.type = "discard"
         \/ /\ contents' = [contents EXCEPT ![s] = contents[mapped]]
            /\ \A c \in CommandsIn(Q) \cup UsesIn(L) : c.op # "write"
  PROVE  IInv'
<1>. DEFINE c == Invalidate(s)
<1>1. /\ latest \in Nat /\ mapped \in Slices /\ chunk \in Seq(CommandRecords)
      /\ contents \in [Slices -> Nat]
  BY DEF IInv, TypeInv
<1>2. c.op = "invalidate" /\ c.slice = s /\ c.contents = latest /\ c \in CommandRecords /\ ~IsUse(c)
  BY <1>1 DEF Invalidate, Command, CommandRecords, Ops, IsUse
<1>3. EmitCs(c)
  OBVIOUS
<1>. HIDE DEF c
<1>4. FlushCommand \in CommandRecords /\ FlushCommand.op = "flush"
  BY FlushTyped DEF IInv
<1>5. Append(chunk, c) \in Seq(CommandRecords) /\ Grows(chunk, Append(chunk, c), c)
  BY <1>1, <1>2, <1>4, GrowsBy
<1>6. /\ Extends(Q, Q', c) /\ Q' \in Seq(Seq(CommandRecords))
      /\ chunk' \in Seq(CommandRecords) /\ chunks' \in Seq(Seq(CommandRecords))
      /\ csSeqNum' \in Nat /\ csSeqNum <= csSeqNum' /\ csSeqNum' = executed + Len(chunks')
  BY <1>2, <1>3, <1>5, EmitStep DEF EmitCs, IInv
<1>7. Q \in Seq(Seq(CommandRecords)) /\ CommandsIn(Q) \in SUBSET CommandRecords
      /\ UsesIn(L) \in SUBSET UseRecords /\ PendingIn(L) \subseteq UsesIn(L) /\ L \in Seq(ListRecords)
  BY ChunksTyped, ListsTyped DEF IInv
<1>8. L' = L /\ RetiredSlices' = RetiredSlices
  BY DEF L, RetiredSlices
<1>9. Adds(CommandsIn(Q), CommandsIn(Q'), c)
  BY <1>6, ExtendsCommands
<1>10. /\ freeSlices' \subseteq Slices /\ nextSlices' \subseteq Slices /\ allocated' \subseteq Slices
       /\ Apart(CommandsIn(Q), FreedIn(L), RetiredSlices, physSlice, freeSlices', nextSlices',
                allocated' \ {s})
       /\ s \in allocated' /\ s # physSlice /\ s \notin RenamedTo(CommandsIn(Q))
       /\ s \notin FreedIn(L) \cup RetiredSlices /\ s \notin freeSlices' \cup nextSlices'
  BY AllocStep DEF IInv
<1>11. Pending' = Pending
  BY <1>2, <1>8, <1>9 DEF Pending, Adds, IsUse
<1>12. \A x \in Pending : x.slice # s /\ x.slice \in Slices
  <2>1. ASSUME NEW x \in CommandsIn(Q), IsUse(x) PROVE x.slice # s
    <3>1. Renamed(x.slice, x.contents, CommandsIn(Q), physSlice)
      BY <2>1 DEF IInv, SliceInv, SlicesAgree
    <3>2. x.slice = physSlice \/ x.slice \in RenamedTo(CommandsIn(Q))
      BY <3>1 DEF Renamed, RenamedTo
    <3>. QED
      BY <3>2, <1>10
  <2>2. ASSUME NEW x \in UsesIn(L) PROVE x.slice # s
    <3>1. PICK i \in 1 .. Len(L) : \E j \in 1 .. Len(L[i].uses) : x = L[i].uses[j]
      BY UsePlace
    <3>2. x.slice = physSlice \/ \E k \in i .. Len(L) : x.slice \in L[k].freed
      BY <3>1 DEF IInv, SliceInv, Held
    <3>3. x.slice = physSlice \/ x.slice \in FreedIn(L)
      <4>1. \A k \in i .. Len(L) : k \in 1 .. Len(L)
        OBVIOUS
      <4>. QED
        BY <3>2, <4>1 DEF FreedIn
    <3>. QED
      BY <3>3, <1>10
  <2>3. \A x \in Pending : x.slice \in Slices
    BY <1>7 DEF Pending, CommandRecords, UseRecords
  <2>. QED
    BY <2>1, <2>2, <2>3, <1>7 DEF Pending
<1>13. TypeInv'
  <2>1. contents' \in [Slices -> Nat]
    BY <1>1
  <2>2. csSeqNum' = csSeqNum /\ flushSeqNum' = flushSeqNum
    BY DEF EmitCs
  <2>. QED
    BY <2>1, <2>2, <1>6, <1>10 DEF IInv, TypeInv, MapRecords
<1>14. OrderInv'
  <2>1. InOrder(Q) /\ ListsInOrder(L) /\ Numbered(CommandsIn(Q), UsesIn(L), latest, access)
    BY DEF IInv, OrderInv
  <2>2. /\ c.op # "flush" => access # "write" /\ latest <= c.contents /\ c.contents <= latest
        /\ c.op = "write" => latest < c.contents
        /\ access = "write" => access' = "write"
        /\ c.op = "invalidate" => access' = "write"
    BY <1>1, <1>2
  <2>5. latest \in Nat /\ latest <= latest /\ c \in CommandRecords
    BY <1>1, <1>2
  <2>3. /\ Numbered(CommandsIn(Q'), UsesIn(L), latest, access')
        /\ c.op # "flush" => \A x \in CommandsIn(Q) : x.op # "flush" => Ordered(x, c)
    <3>1. CommandsIn(Q) \in SUBSET CommandRecords /\ UsesIn(L) \in SUBSET UseRecords
      BY <1>7
    <3>. QED
      BY <2>1, <2>2, <2>5, <3>1, <1>9, NumberedAdds
  <2>4. InOrder(Q')
    BY <2>1, <2>3, <1>6, <1>7, ExtendsOrder
  <2>. QED
    BY <2>1, <2>3, <2>4, <1>8 DEF OrderInv
<1>15. SliceInv'
  <2>1. SlicesAgree(CommandsIn(Q), mapped, latest, physSlice) /\ Held(L, physSlice)
    BY DEF IInv, SliceInv
  <2>2. \A x \in CommandsIn(Q) : x.op # "flush" => x.contents <= latest
    BY DEF IInv, OrderInv, Numbered
  <2>3. SlicesAgree(CommandsIn(Q'), c.slice, latest, physSlice)
    BY <2>1, <2>2, <1>1, <1>2, <1>7, <1>9, SlicesRename
  <2>. QED
    BY <2>1, <2>3, <1>2, <1>8 DEF SliceInv
<1>16. PlaceInv'
  <2>1. FreedOnce(L)
    BY DEF IInv, PlaceInv
  <2>2. Apart(CommandsIn(Q'), FreedIn(L), RetiredSlices, physSlice, freeSlices', nextSlices',
              (allocated' \ {s}) \cup {c.slice})
    BY <1>2, <1>9, <1>10, ApartRename
  <2>3. (allocated' \ {s}) \cup {c.slice} = allocated'
    BY <1>2, <1>10
  <2>. QED
    BY <2>1, <2>2, <2>3, <1>8 DEF PlaceInv
<1>17. MapInv'
  <2>1. executed \in Nat /\ seqNum \in Nat
    BY DEF IInv, TypeInv
  <2>2. (kind.tracked => UsedUpTo(Q, executed, seqNum))'
    <3>1. SUFFICES ASSUME kind.tracked PROVE UsedUpTo(Q', executed, seqNum)
      OBVIOUS
    <3>2. UsedUpTo(Q, executed, seqNum)
      BY <3>1 DEF IInv, MapInv
    <3>. QED
      BY <3>2, <2>1, <1>2, <1>6, <1>7, UsedUpToExtends
  <2>. QED
    BY <2>2 DEF MapInv
<1>18. ExclusiveInv'
  BY <1>11, <1>12 DEF ExclusiveInv, Exclusive
<1>19. ContentsInv'
  <2>1. UpToDate(Pending, contents, mapped, latest, access, map.type)
    BY DEF IInv, ContentsInv
  <2>2. CASE contents' = contents /\ map'.type = "discard"
    <3>1. UpToDate(Pending, contents, s, latest, access', map'.type)
      BY <2>1, <2>2 DEF UpToDate
    <3>. QED
      BY <2>2, <3>1, <1>11 DEF ContentsInv
  <2>3. CASE /\ contents' = [contents EXCEPT ![s] = contents[mapped]]
             /\ \A x \in CommandsIn(Q) \cup UsesIn(L) : x.op # "write"
    <3>1. Brought(Pending, contents, mapped, latest)
      BY <2>1 DEF UpToDate
    <3>2. \A x \in Pending : x.op # "write"
      BY <2>3, <1>7 DEF Pending
    <3>3. contents[mapped] = latest
      BY <3>1, <3>2 DEF Brought
    <3>4. latest <= latest
      BY <1>1
    <3>5. UpToDate(Pending, [contents EXCEPT ![s] = latest], s, latest, access', map'.type)
      BY <2>1, <3>4, <1>1, <1>12, WrittenUpToDate
    <3>. QED
      BY <2>3, <3>3, <3>5, <1>11 DEF ContentsInv
  <2>. QED
    BY <2>2, <2>3
<1>. QED
  BY <1>13, <1>14, <1>15, <1>16, <1>17, <1>18, <1>19 DEF IInv

LEMMA MapDiscardInv == IInv /\ MapDiscard => IInv'
<1>. SUFFICES ASSUME IInv, MapDiscard PROVE IInv'
  OBVIOUS
<1>1. PICK s \in Slices : AllocSlice(s) /\ mapped' = s /\ EmitCs(Invalidate(s))
  BY DEF MapDiscard
<1>2. /\ access = "none" /\ pc = "idle" /\ pc' = pc /\ calls' = calls + 1 /\ access' = "write"
      /\ map' = [NoMap EXCEPT !.type = "discard"] /\ contents' = contents
      /\ UNCHANGED <<kind, latest, seqNum, flushSeqNum, executed, physSlice, list, submitted, retired>>
  BY DEF MapDiscard, Call, Idle, execVars, gpuVars
<1>3. calls' \in Nat
  BY <1>2 DEF IInv, TypeInv
<1>4. map' \in MapRecords /\ map'.type = "discard"
  BY <1>2 DEF MapRecords, NoMap
<1>. QED
  BY <1>1, <1>2, <1>3, <1>4, RenameInv

LEMMA PreserveInv == IInv /\ Preserve => IInv'
<1>. SUFFICES ASSUME IInv, Preserve PROVE IInv'
  OBVIOUS
<1>1. PICK s \in Slices : /\ AllocSlice(s) /\ mapped' = s /\ EmitCs(Invalidate(s))
                          /\ contents' = [contents EXCEPT ![s] = contents[mapped]]
  BY DEF Preserve
<1>2. /\ pc = "probed" /\ pc' = "idle" /\ calls' = calls /\ access' = "write" /\ map' = map
      /\ ~map.written
      /\ UNCHANGED <<kind, latest, seqNum, flushSeqNum, executed, physSlice, list, submitted, retired>>
  BY DEF Preserve, CanPreserve, execVars, gpuVars
<1>3. /\ access = "none" /\ map.type \in {"read", "write"}
      /\ \A c \in CommandsIn(Q) \cup UsesIn(L) : c.op # "write"
  BY <1>2 DEF IInv, MapInv
<1>4. calls' \in Nat /\ map' \in MapRecords /\ map'.type # "none"
  BY <1>2, <1>3 DEF IInv, TypeInv, MapRecords
<1>. QED
  BY <1>1, <1>2, <1>3, <1>4, RenameInv
-----------------------------------------------------------------------------
(* Steps of the CS thread                                                  *)

LEMMA ExecutePops ==
  ASSUME NEW q \in Seq(Seq(CommandRecords)), q # <<>>, Head(q) # <<>>,
         NEW h \in Seq(CommandRecords), NEW r, r = [q EXCEPT ![1] = Tail(@)]
  PROVE  /\ r \in Seq(Seq(CommandRecords)) /\ Len(r) = Len(q)
         /\ Pops(Append(q, h), Append(r, h)) /\ Append(q, h)[1][1] = Head(Head(q))
<1>1. PICK n \in Nat : n = Len(q)
  OBVIOUS
<1>2. n > 0 /\ q[1] \in Seq(CommandRecords) /\ q[1] # <<>> /\ Head(q) = q[1]
  BY <1>1
<1>3. PICK k \in Nat : k = Len(q[1])
  BY <1>2
<1>4. k > 0 /\ Tail(q[1]) \in Seq(CommandRecords) /\ Len(Tail(q[1])) = k - 1
      /\ \A j \in 1 .. k - 1 : Tail(q[1])[j] = q[1][j + 1]
  BY <1>2, <1>3
<1>5. /\ r \in Seq(Seq(CommandRecords)) /\ Len(r) = n /\ r[1] = Tail(q[1])
      /\ \A i \in 2 .. n : r[i] = q[i]
  BY <1>1, <1>2, <1>4
<1>. DEFINE a == Append(q, h)
            b == Append(r, h)
<1>6. /\ Len(a) = n + 1 /\ a[n + 1] = h /\ \A i \in 1 .. n : a[i] = q[i]
      /\ Len(b) = n + 1 /\ b[n + 1] = h /\ \A i \in 1 .. n : b[i] = r[i]
  BY <1>1, <1>5
<1>. HIDE DEF a, b
<1>7. a[1] = q[1] /\ b[1] = Tail(q[1]) /\ \A i \in 1 .. n + 1 : i # 1 => a[i] = b[i]
  <2>1. 1 \in 1 .. n
    BY <1>2
  <2>2. \A i \in 1 .. n + 1 : i = 1 \/ i \in 2 .. n \/ i = n + 1
    OBVIOUS
  <2>3. \A i \in 2 .. n : i \in 1 .. n
    OBVIOUS
  <2>. QED
    BY <2>1, <2>2, <2>3, <1>5, <1>6
<1>8. Len(a) = Len(b) /\ Len(a) > 0 /\ Len(a[1]) > 0
  BY <1>2, <1>3, <1>4, <1>6, <1>7
<1>9. /\ \A j \in 1 .. Len(b[1]) : j + 1 \in 1 .. Len(a[1]) /\ b[1][j] = a[1][j + 1]
      /\ \A j \in 1 .. Len(a[1]) : j = 1 \/ (j - 1 \in 1 .. Len(b[1]) /\ a[1][j] = b[1][j - 1])
  <2>1. Len(a[1]) = k /\ Len(b[1]) = k - 1 /\ \A j \in 1 .. k - 1 : b[1][j] = a[1][j + 1]
    BY <1>3, <1>4, <1>7
  <2>2. \A j \in 1 .. k : j = 1 \/ (j - 1 \in 1 .. k - 1 /\ a[1][j] = b[1][j - 1])
    <3>1. TAKE j \in 1 .. k
    <3>2. ASSUME j # 1 PROVE j - 1 \in 1 .. k - 1 /\ a[1][j] = b[1][j - 1]
      <4>1. PICK i \in 1 .. k - 1 : j = i + 1 /\ i = j - 1
        BY <3>2
      <4>2. b[1][i] = a[1][i + 1]
        BY <2>1
      <4>. QED
        BY <4>1, <4>2
    <3>. QED
      BY <3>2
  <2>. QED
    BY <2>1, <2>2
<1>10. \A i \in 1 .. Len(a) : i # 1 => a[i] = b[i]
  BY <1>6, <1>7
<1>11. Pops(a, b)
  BY <1>8, <1>9, <1>10 DEF Pops
<1>12. a[1][1] = Head(Head(q))
  BY <1>2, <1>7
<1>. QED
  BY <1>1, <1>5, <1>11, <1>12 DEF a, b

LEMMA TailFinishes ==
  ASSUME NEW q \in Seq(Seq(CommandRecords)), q # <<>>, Head(q) = <<>>,
         NEW h \in Seq(CommandRecords)
  PROVE  /\ Tail(q) \in Seq(Seq(CommandRecords)) /\ Len(q) = Len(Tail(q)) + 1
         /\ Finishes(Append(q, h), Append(Tail(q), h))
<1>1. PICK n \in Nat : n + 1 = Len(q)
  <2>1. Len(q) - 1 \in Nat /\ (Len(q) - 1) + 1 = Len(q)
    OBVIOUS
  <2>. QED
    BY <2>1
<1>2. /\ Tail(q) \in Seq(Seq(CommandRecords)) /\ Len(Tail(q)) = n
      /\ \A i \in 1 .. n : Tail(q)[i] = q[i + 1]
      /\ q[1] = <<>>
  BY <1>1
<1>. DEFINE a == Append(q, h)
            b == Append(Tail(q), h)
<1>3. /\ Len(a) = n + 2 /\ a[n + 2] = h /\ \A i \in 1 .. n + 1 : a[i] = q[i]
      /\ Len(b) = n + 1 /\ b[n + 1] = h /\ \A i \in 1 .. n : b[i] = Tail(q)[i]
  BY <1>1, <1>2
<1>. HIDE DEF a, b
<1>4. \A i \in 1 .. n + 1 : b[i] = a[i + 1]
  <2>1. \A i \in 1 .. n : i + 1 \in 1 .. n + 1
    OBVIOUS
  <2>2. \A i \in 1 .. n : b[i] = a[i + 1]
    BY <2>1, <1>2, <1>3
  <2>3. b[n + 1] = a[(n + 1) + 1]
    BY <1>3
  <2>4. \A i \in 1 .. n + 1 : i \in 1 .. n \/ i = n + 1
    OBVIOUS
  <2>. QED
    BY <2>2, <2>3, <2>4
<1>5. a[1] = <<>>
  BY <1>2, <1>3
<1>6. Finishes(a, b)
  BY <1>3, <1>4, <1>5 DEF Finishes
<1>. QED
  BY <1>1, <1>2, <1>6 DEF a, b

\* The list that is recorded changes.
LEMMA RecordsLast ==
  ASSUME NEW b \in Seq(ListRecords), NEW l \in ListRecords, l.done = 0, NEW u,
         NEW m, m.uses = Append(l.uses, u), m.done = l.done, m.freed = l.freed
  PROVE  Records(Append(b, l), Append(b, m), u)
<1>1. PICK n \in Nat : n = Len(b)
  OBVIOUS
<1>. DEFINE x == Append(b, l)
            y == Append(b, m)
<1>2. /\ Len(x) = n + 1 /\ x[n + 1] = l /\ \A i \in 1 .. n : x[i] = b[i]
      /\ Len(y) = n + 1 /\ y[n + 1] = m /\ \A i \in 1 .. n : y[i] = b[i]
  BY <1>1
<1>. HIDE DEF x, y
<1>3. PICK k \in Nat : k = n + 1
  OBVIOUS
<1>4. /\ Len(x) = k /\ Len(y) = k /\ k > 0 /\ x[k] = l /\ y[k] = m
      /\ \A i \in 1 .. k : i = k \/ (i # k /\ x[i] = b[i] /\ y[i] = b[i])
  BY <1>2, <1>3
<1>5. \A i \in 1 .. k :
          /\ y[i].done = x[i].done /\ y[i].freed = x[i].freed
          /\ y[i].uses = IF i = k THEN Append(x[i].uses, u) ELSE x[i].uses
  <2>1. TAKE i \in 1 .. k
  <2>2. CASE i = k
    BY <2>2, <1>4
  <2>3. CASE i # k /\ x[i] = b[i] /\ y[i] = b[i]
    BY <2>3
  <2>. QED
    BY <2>2, <2>3, <1>4
<1>6. Records(x, y, u)
  BY <1>4, <1>5 DEF Records
<1>. QED
  BY <1>6 DEF x, y

LEMMA FreesLast ==
  ASSUME NEW b \in Seq(ListRecords), NEW l, NEW p,
         NEW m, m.uses = l.uses, m.done = l.done, m.freed = l.freed \cup {p}
  PROVE  Frees(Append(b, l), Append(b, m), p)
<1>1. PICK n \in Nat : n = Len(b)
  OBVIOUS
<1>. DEFINE x == Append(b, l)
            y == Append(b, m)
<1>2. /\ Len(x) = n + 1 /\ x[n + 1] = l /\ \A i \in 1 .. n : x[i] = b[i]
      /\ Len(y) = n + 1 /\ y[n + 1] = m /\ \A i \in 1 .. n : y[i] = b[i]
  BY <1>1
<1>. HIDE DEF x, y
<1>3. PICK k \in Nat : k = n + 1
  OBVIOUS
<1>4. /\ Len(x) = k /\ Len(y) = k /\ k > 0 /\ x[k] = l /\ y[k] = m
      /\ \A i \in 1 .. k : i = k \/ (i # k /\ x[i] = b[i] /\ y[i] = b[i])
  BY <1>2, <1>3
<1>5. \A i \in 1 .. k :
          /\ y[i].done = x[i].done /\ y[i].uses = x[i].uses
          /\ y[i].freed = IF i = k THEN x[i].freed \cup {p} ELSE x[i].freed
  <2>1. TAKE i \in 1 .. k
  <2>2. CASE i = k
    BY <2>2, <1>4
  <2>3. CASE i # k /\ x[i] = b[i] /\ y[i] = b[i]
    BY <2>3
  <2>. QED
    BY <2>2, <2>3, <1>4
<1>6. Frees(x, y, p)
  BY <1>4, <1>5 DEF Frees, SameUses
<1>. QED
  BY <1>6 DEF x, y

LEMMA FinishChunkInv == IInv /\ FinishChunk => IInv'
<1>. SUFFICES ASSUME IInv, FinishChunk PROVE IInv'
  OBVIOUS
<1>1. /\ chunks # <<>> /\ Head(chunks) = <<>> /\ chunks' = Tail(chunks) /\ executed' = executed + 1
      /\ UNCHANGED <<kind, calls, pc, map, access, latest, mapped, seqNum, chunk, csSeqNum,
                     flushSeqNum, freeSlices, nextSlices, allocated, physSlice, list, submitted, retired, contents>>
  BY DEF FinishChunk, appVars, freeVars, gpuVars
<1>2. /\ chunks \in Seq(Seq(CommandRecords)) /\ chunk \in Seq(CommandRecords)
      /\ executed \in Nat /\ seqNum \in Nat /\ csSeqNum = executed + Len(chunks)
  BY DEF IInv, TypeInv
<1>3. /\ chunks' \in Seq(Seq(CommandRecords)) /\ Len(chunks) = Len(chunks') + 1
      /\ Finishes(Q, Q')
  BY <1>1, <1>2, TailFinishes DEF Q
<1>4. Q \in Seq(Seq(CommandRecords)) /\ Q' \in Seq(Seq(CommandRecords))
  BY <1>1, <1>2, <1>3 DEF Q
<1>5. InOrder(Q') /\ CommandsIn(Q') = CommandsIn(Q)
  BY <1>3, <1>4, FinishesOrder DEF IInv, OrderInv
<1>6. L' = L /\ RetiredSlices' = RetiredSlices
  BY <1>1 DEF L, RetiredSlices
<1>7. Pending' = Pending
  BY <1>5, <1>6 DEF Pending
<1>8. TypeInv'
  <2>1. executed' \in Nat /\ csSeqNum' = executed' + Len(chunks')
    <3>1. Len(chunks') \in Nat
      BY <1>3
    <3>. QED
      BY <3>1, <1>1, <1>2, <1>3
  <2>. QED
    BY <2>1, <1>1, <1>3 DEF IInv, TypeInv
<1>9. OrderInv'
  BY <1>1, <1>5, <1>6 DEF IInv, OrderInv
<1>10. SliceInv'
  BY <1>1, <1>5, <1>6 DEF IInv, SliceInv
<1>11. PlaceInv'
  BY <1>1, <1>5, <1>6 DEF IInv, PlaceInv
<1>12. MapInv'
  <2>1. (kind.tracked => UsedUpTo(Q, executed, seqNum))'
    <3>1. SUFFICES ASSUME kind.tracked PROVE UsedUpTo(Q', executed + 1, seqNum)
      BY <1>1
    <3>2. UsedUpTo(Q, executed, seqNum)
      BY <3>1 DEF IInv, MapInv
    <3>. QED
      BY <3>2, <1>2, <1>3, <1>4, UsedUpToFinishes
  <2>. QED
    BY <2>1, <1>1, <1>5, <1>6 DEF IInv, MapInv
<1>13. ExclusiveInv'
  BY <1>1, <1>7 DEF IInv, ExclusiveInv
<1>14. ContentsInv'
  BY <1>1, <1>7 DEF IInv, ContentsInv
<1>. QED
  BY <1>8, <1>9, <1>10, <1>11, <1>12, <1>13, <1>14 DEF IInv
\* What the execution of any command does to the chunks.
LEMMA ExecuteStep ==
  ASSUME IInv, ExecuteCommand
  PROVE  /\ chunks' \in Seq(Seq(CommandRecords)) /\ Len(chunks') = Len(chunks)
         /\ InOrder(Q') /\ Drops(CommandsIn(Q), CommandsIn(Q'), Current)
         /\ Current \in CommandRecords /\ CommandsIn(Q) \in SUBSET CommandRecords
         /\ CommandsIn(Q') \subseteq CommandsIn(Q) /\ Current \in CommandsIn(Q)
         /\ Current.op # "flush" => \A x \in CommandsIn(Q') : x.op # "flush" => Ordered(Current, x)
         /\ Current.op # "flush" => Current.contents <= latest
         /\ Current.op # "flush" => \A u \in UsesIn(L) : Ordered(u, Current)
         /\ Numbered(CommandsIn(Q'), UsesIn(L), latest, access)
         /\ (kind.tracked => UsedUpTo(Q, executed, seqNum))'
<1>1. /\ chunks # <<>> /\ Head(chunks) # <<>> /\ chunks' = [chunks EXCEPT ![1] = Tail(@)]
      /\ UNCHANGED <<kind, seqNum, chunk, executed>>
  BY DEF ExecuteCommand, appVars
<1>2. chunks \in Seq(Seq(CommandRecords)) /\ chunk \in Seq(CommandRecords)
  BY DEF IInv, TypeInv
<1>3. /\ chunks' \in Seq(Seq(CommandRecords)) /\ Len(chunks') = Len(chunks)
      /\ Pops(Append(chunks, chunk), Append(chunks', chunk))
      /\ Append(chunks, chunk)[1][1] = Head(Head(chunks))
  BY <1>1, <1>2, ExecutePops
<1>4. Pops(Q, Q') /\ Q[1][1] = Current
  BY <1>1, <1>3 DEF Q, Current
<1>5. Q \in Seq(Seq(CommandRecords)) /\ Q' \in Seq(Seq(CommandRecords))
  BY <1>1, <1>2, <1>3 DEF Q
<1>6. InOrder(Q) /\ Numbered(CommandsIn(Q), UsesIn(L), latest, access)
  BY DEF IInv, OrderInv
<1>7. /\ InOrder(Q') /\ Drops(CommandsIn(Q), CommandsIn(Q'), Q[1][1])
      /\ \A x \in CommandsIn(Q') : x.op # "flush" /\ Q[1][1].op # "flush" => Ordered(Q[1][1], x)
  BY <1>4, <1>5, <1>6, PopsOrder
<1>8. CommandsIn(Q) \in SUBSET CommandRecords
  BY <1>5, CommandsTyped
<1>9. /\ Drops(CommandsIn(Q), CommandsIn(Q'), Current)
      /\ CommandsIn(Q') \subseteq CommandsIn(Q) /\ Current \in CommandsIn(Q)
  BY <1>4, <1>7 DEF Drops
<1>10. Numbered(CommandsIn(Q'), UsesIn(L), latest, access)
  BY <1>6, <1>9 DEF Numbered
<1>11. /\ Current.op # "flush" => Current.contents <= latest
       /\ Current.op # "flush" => \A u \in UsesIn(L) : Ordered(u, Current)
  BY <1>6, <1>9 DEF Numbered
<1>12. (kind.tracked => UsedUpTo(Q, executed, seqNum))'
  <2>1. SUFFICES ASSUME kind.tracked PROVE UsedUpTo(Q', executed, seqNum)
    BY <1>1
  <2>2. UsedUpTo(Q, executed, seqNum)
    BY <2>1 DEF IInv, MapInv
  <2>. QED
    BY <2>2, <1>4, UsedUpToPops
<1>13. Current.op # "flush" => \A x \in CommandsIn(Q') : x.op # "flush" => Ordered(Current, x)
  BY <1>4, <1>7
<1>14. Current \in CommandRecords
  BY <1>8, <1>9
<1>. QED
  BY <1>3, <1>7, <1>8, <1>9, <1>10, <1>11, <1>12, <1>13, <1>14

\* A use is recorded, with the slice that the CS thread has.
LEMMA ExecuteUseInv == IInv /\ ExecuteCommand /\ IsUse(Current) => IInv'
<1>. SUFFICES ASSUME IInv, ExecuteCommand, IsUse(Current) PROVE IInv'
  OBVIOUS
<1>. DEFINE c == Current
<1>0. /\ chunks' \in Seq(Seq(CommandRecords)) /\ Len(chunks') = Len(chunks)
      /\ InOrder(Q') /\ Drops(CommandsIn(Q), CommandsIn(Q'), c)
      /\ c \in CommandRecords /\ CommandsIn(Q) \in SUBSET CommandRecords
      /\ CommandsIn(Q') \subseteq CommandsIn(Q) /\ c \in CommandsIn(Q)
      /\ c.op # "flush" => \A x \in CommandsIn(Q') : x.op # "flush" => Ordered(c, x)
      /\ c.op # "flush" => c.contents <= latest
      /\ c.op # "flush" => \A u \in UsesIn(L) : Ordered(u, c)
      /\ Numbered(CommandsIn(Q'), UsesIn(L), latest, access)
      /\ (kind.tracked => UsedUpTo(Q, executed, seqNum))'
  BY ExecuteStep
<1>1. /\ c.op \in {"read", "write"}
      /\ UNCHANGED <<kind, calls, pc, map, access, latest, mapped, seqNum, chunk, csSeqNum,
                     flushSeqNum, freeSlices, nextSlices, allocated, executed, physSlice, submitted, retired,
                     contents>>
      /\ list' = [list EXCEPT !.uses = Append(@, [c EXCEPT !.slice = physSlice])]
  BY DEF ExecuteCommand, IsUse, appVars, freeVars
<1>. HIDE DEF c
<1>2. c.slice = physSlice
  <2>1. SlicesAgree(CommandsIn(Q), mapped, latest, physSlice)
    BY DEF IInv, SliceInv
  <2>2. IsUse(c) /\ \A x \in CommandsIn(Q') : x.op # "flush" => Ordered(c, x)
    BY <1>0, <1>1 DEF IsUse
  <2>. QED
    BY <2>1, <2>2, <1>0, FirstHasSlice
<1>3. c \in UseRecords /\ [c EXCEPT !.slice = physSlice] = c
  BY <1>0, <1>1, <1>2 DEF CommandRecords, UseRecords
<1>4. /\ list \in ListRecords /\ list.done = 0 /\ submitted \in Seq(ListRecords)
      /\ list' = [list EXCEPT !.uses = Append(@, c)]
  BY <1>1, <1>3 DEF IInv, TypeInv
<1>5. /\ list' \in ListRecords /\ list'.uses = Append(list.uses, c) /\ list'.done = list.done
      /\ list'.freed = list.freed
  <2>1. list.uses \in Seq(UseRecords)
    BY <1>4 DEF ListRecords
  <2>2. Append(list.uses, c) \in Seq(UseRecords)
    BY <2>1, <1>3
  <2>. QED
    BY <2>2, <1>4 DEF ListRecords
<1>6. L \in Seq(ListRecords) /\ L' \in Seq(ListRecords) /\ Records(L, L', c)
  <2>1. Records(Append(submitted, list), Append(submitted, list'), c)
    BY <1>4, <1>5, RecordsLast
  <2>. QED
    BY <2>1, <1>1, <1>4, <1>5 DEF L
<1>7. ListsInOrder(L) /\ \A v \in UsesIn(L) : Ordered(v, c)
  BY <1>0, <1>1 DEF IInv, OrderInv
<1>8. /\ ListsInOrder(L')
      /\ \A v \in UsesIn(L') : v \in UsesIn(L) \/ v = c
      /\ \A v \in PendingIn(L') : v \in PendingIn(L) \/ v = c
      /\ PendingIn(L) \subseteq PendingIn(L') /\ c \in PendingIn(L')
  BY <1>3, <1>6, <1>7, RecordsOrder
<1>9. Pending' = Pending
  <2>1. \A x \in CommandsIn(Q) : x \in CommandsIn(Q') \/ x = c
    BY <1>0 DEF Drops
  <2>. QED
    BY <2>1, <1>0, <1>8 DEF Pending
<1>10. FreedIn(L') = FreedIn(L) /\ FreedOnce(L')
  <2>1. Len(L') = Len(L) /\ \A i \in 1 .. Len(L) : L'[i].freed = L[i].freed
    BY <1>6 DEF Records
  <2>2. FreedIn(L') = FreedIn(L) /\ (FreedOnce(L) => FreedOnce(L'))
    BY <2>1, SameFreed
  <2>. QED
    BY <2>2 DEF IInv, PlaceInv
<1>11. TypeInv'
  BY <1>0, <1>1, <1>5 DEF IInv, TypeInv
<1>12. OrderInv'
  <2>1. \A u \in UsesIn(L'), x \in CommandsIn(Q') : x.op # "flush" => Ordered(u, x)
    BY <1>0, <1>1, <1>8 DEF Numbered
  <2>2. \A u \in UsesIn(L') : u.contents <= latest
    BY <1>0, <1>1, <1>8 DEF Numbered
  <2>3. Numbered(CommandsIn(Q'), UsesIn(L'), latest, access)
    BY <2>1, <2>2, <1>0 DEF Numbered
  <2>. QED
    BY <2>3, <1>0, <1>1, <1>8 DEF OrderInv
<1>13. SliceInv'
  <2>1. SlicesAgree(CommandsIn(Q), mapped, latest, physSlice) /\ Held(L, physSlice)
    BY DEF IInv, SliceInv
  <2>2. c.op # "invalidate"
    BY <1>1
  <2>3. SlicesAgree(CommandsIn(Q'), mapped, latest, physSlice)
    BY <2>1, <2>2, <1>0, SlicesDrops
  <2>4. Held(L', physSlice)
    BY <2>1, <1>2, <1>3, <1>6, RecordsHeld
  <2>. QED
    BY <2>3, <2>4, <1>1 DEF SliceInv
<1>14. PlaceInv'
  <2>1. Apart(CommandsIn(Q), FreedIn(L), RetiredSlices, physSlice, freeSlices, nextSlices, allocated)
    BY DEF IInv, PlaceInv
  <2>2. c.op # "invalidate" /\ RetiredSlices' = RetiredSlices
    BY <1>1 DEF RetiredSlices
  <2>3. Apart(CommandsIn(Q'), FreedIn(L), RetiredSlices, physSlice, freeSlices, nextSlices, allocated)
    BY <2>1, <2>2, <1>0, ApartDrops
  <2>. QED
    BY <2>2, <2>3, <1>1, <1>10 DEF PlaceInv
<1>15. MapInv'
  <2>1. \A x \in CommandsIn(Q') \cup UsesIn(L') : x \in CommandsIn(Q) \cup UsesIn(L)
    BY <1>0, <1>8
  <2>. QED
    BY <2>1, <1>0, <1>1 DEF IInv, MapInv
<1>16. ExclusiveInv'
  BY <1>1, <1>9 DEF IInv, ExclusiveInv
<1>17. ContentsInv'
  BY <1>1, <1>9 DEF IInv, ContentsInv
<1>. QED
  BY <1>11, <1>12, <1>13, <1>14, <1>15, <1>16, <1>17 DEF IInv
\* The buffer is renamed: its slice is free once the recorded command list is done.
LEMMA ExecuteRenameInv == IInv /\ ExecuteCommand /\ Current.op = "invalidate" => IInv'
<1>. SUFFICES ASSUME IInv, ExecuteCommand, Current.op = "invalidate" PROVE IInv'
  OBVIOUS
<1>. DEFINE c == Current
<1>0. /\ chunks' \in Seq(Seq(CommandRecords)) /\ Len(chunks') = Len(chunks)
      /\ InOrder(Q') /\ Drops(CommandsIn(Q), CommandsIn(Q'), c)
      /\ c \in CommandRecords /\ CommandsIn(Q) \in SUBSET CommandRecords
      /\ CommandsIn(Q') \subseteq CommandsIn(Q) /\ c \in CommandsIn(Q)
      /\ c.op # "flush" => \A x \in CommandsIn(Q') : x.op # "flush" => Ordered(c, x)
      /\ c.op # "flush" => c.contents <= latest
      /\ Numbered(CommandsIn(Q'), UsesIn(L), latest, access)
      /\ (kind.tracked => UsedUpTo(Q, executed, seqNum))'
  BY ExecuteStep
<1>1. /\ c.op = "invalidate"
      /\ UNCHANGED <<kind, calls, pc, map, access, latest, mapped, seqNum, chunk, csSeqNum,
                     flushSeqNum, freeSlices, nextSlices, allocated, executed, submitted, retired, contents>>
      /\ physSlice' = c.slice
      /\ list' = [list EXCEPT !.freed = @ \cup {physSlice}]
  BY DEF ExecuteCommand, appVars, freeVars
<1>. HIDE DEF c
<1>2. list \in ListRecords /\ list.done = 0 /\ submitted \in Seq(ListRecords) /\ physSlice \in Slices
      /\ latest \in Nat
  BY DEF IInv, TypeInv
<1>3. /\ list' \in ListRecords /\ list'.uses = list.uses /\ list'.done = list.done
      /\ list'.freed = list.freed \cup {physSlice}
  BY <1>1, <1>2 DEF ListRecords
<1>4. L \in Seq(ListRecords) /\ Frees(L, L', physSlice)
  <2>1. Frees(Append(submitted, list), Append(submitted, list'), physSlice)
    BY <1>2, <1>3, FreesLast
  <2>. QED
    BY <2>1, <1>1, <1>2 DEF L
<1>5. UsesIn(L') = UsesIn(L) /\ PendingIn(L') = PendingIn(L) /\ ListsInOrder(L')
  <2>1. SameUses(L, L') /\ ListsInOrder(L)
    BY <1>4 DEF Frees, IInv, OrderInv
  <2>. QED
    BY <2>1, SameUsesSame
<1>6. c \notin CommandsIn(Q')
  <2>1. c \in CommandsIn(Q') => c.contents < c.contents
    BY <1>0, <1>1 DEF Ordered
  <2>2. c.contents \in Nat
    BY <1>0 DEF CommandRecords
  <2>. QED
    BY <2>1, <2>2
<1>7. /\ Apart(CommandsIn(Q'), FreedIn(L) \cup {physSlice}, RetiredSlices, c.slice, freeSlices,
               nextSlices, allocated)
      /\ physSlice \notin FreedIn(L)
  <2>1. Apart(CommandsIn(Q), FreedIn(L), RetiredSlices, physSlice, freeSlices, nextSlices, allocated)
    BY DEF IInv, PlaceInv
  <2>. QED
    BY <2>1, <1>0, <1>1, <1>6, ApartExecuted
<1>8. Held(L', c.slice) /\ FreedOnce(L') /\ FreedIn(L') = FreedIn(L) \cup {physSlice}
  <2>1. Held(L, physSlice) /\ FreedOnce(L)
    BY DEF IInv, SliceInv, PlaceInv
  <2>. QED
    BY <2>1, <1>4, <1>7, FreesHeld
<1>9. Pending' = Pending
  <2>1. \A x \in CommandsIn(Q) : IsUse(x) => x \in CommandsIn(Q')
    BY <1>0, <1>1 DEF Drops, IsUse
  <2>. QED
    BY <2>1, <1>0, <1>5 DEF Pending
<1>10. TypeInv'
  <2>1. c.slice \in Slices
    BY <1>0 DEF CommandRecords
  <2>. QED
    BY <2>1, <1>0, <1>1, <1>3 DEF IInv, TypeInv
<1>11. OrderInv'
  BY <1>0, <1>1, <1>5 DEF OrderInv
<1>12. SliceInv'
  <2>1. SlicesAgree(CommandsIn(Q), mapped, latest, physSlice)
    BY DEF IInv, SliceInv
  <2>2. c.contents <= latest /\ \A x \in CommandsIn(Q') : x.op # "flush" => Ordered(c, x)
    BY <1>0, <1>1
  <2>3. SlicesAgree(CommandsIn(Q'), mapped, latest, c.slice)
    BY <2>1, <2>2, <1>0, <1>1, <1>2, SlicesExecuted
  <2>. QED
    BY <2>3, <1>1, <1>8 DEF SliceInv
<1>13. PlaceInv'
  <2>1. RetiredSlices' = RetiredSlices
    BY <1>1 DEF RetiredSlices
  <2>. QED
    BY <2>1, <1>1, <1>7, <1>8 DEF PlaceInv
<1>14. MapInv'
  BY <1>0, <1>1, <1>5 DEF IInv, MapInv
<1>15. ExclusiveInv'
  BY <1>1, <1>9 DEF IInv, ExclusiveInv
<1>16. ContentsInv'
  BY <1>1, <1>9 DEF IInv, ContentsInv
<1>. QED
  BY <1>10, <1>11, <1>12, <1>13, <1>14, <1>15, <1>16 DEF IInv

\* The recorded command list is submitted.
LEMMA ExecuteFlushInv == IInv /\ ExecuteCommand /\ Current.op = "flush" => IInv'
<1>. SUFFICES ASSUME IInv, ExecuteCommand, Current.op = "flush" PROVE IInv'
  OBVIOUS
<1>. DEFINE c == Current
<1>0. /\ chunks' \in Seq(Seq(CommandRecords)) /\ Len(chunks') = Len(chunks)
      /\ InOrder(Q') /\ Drops(CommandsIn(Q), CommandsIn(Q'), c)
      /\ CommandsIn(Q') \subseteq CommandsIn(Q) /\ c \in CommandsIn(Q)
      /\ Numbered(CommandsIn(Q'), UsesIn(L), latest, access)
      /\ (kind.tracked => UsedUpTo(Q, executed, seqNum))'
  BY ExecuteStep
<1>1. /\ c.op = "flush"
      /\ UNCHANGED <<kind, calls, pc, map, access, latest, mapped, seqNum, chunk, csSeqNum,
                     flushSeqNum, freeSlices, nextSlices, allocated, executed, physSlice, retired, contents>>
      /\ submitted' = Append(submitted, list) /\ list' = NewList
  BY DEF ExecuteCommand, appVars, freeVars
<1>. HIDE DEF c
<1>2. list \in ListRecords /\ list.done = 0 /\ submitted \in Seq(ListRecords)
      /\ \A i \in 1 .. Len(submitted) : submitted[i].done <= Len(submitted[i].uses)
  BY DEF IInv, TypeInv
<1>3. NewList \in ListRecords /\ NewList.uses = <<>> /\ NewList.freed = {} /\ NewList.done = 0
  BY DEF NewList, ListRecords
<1>4. L \in Seq(ListRecords) /\ L' = Append(L, NewList)
  BY <1>1, <1>2 DEF L
<1>5. UsesIn(L') = UsesIn(L) /\ PendingIn(L') = PendingIn(L) /\ ListsInOrder(L')
  BY <1>3, <1>4, SubmitsSame DEF IInv, OrderInv
<1>6. Held(L', physSlice) /\ FreedOnce(L') /\ FreedIn(L') = FreedIn(L)
  BY <1>3, <1>4, SubmitsHeld DEF IInv, SliceInv, PlaceInv
<1>7. c.op # "invalidate" /\ c.op \notin {"read", "write"}
  BY <1>1
<1>8. Pending' = Pending
  <2>1. \A x \in CommandsIn(Q) : IsUse(x) => x \in CommandsIn(Q')
    BY <1>0, <1>7 DEF Drops, IsUse
  <2>. QED
    BY <2>1, <1>0, <1>5 DEF Pending
<1>9. TypeInv'
  <2>1. submitted' \in Seq(ListRecords)
    BY <1>1, <1>2
  <2>2. \A i \in 1 .. Len(submitted') : submitted'[i].done <= Len(submitted'[i].uses)
    <3>1. PICK n \in Nat : n = Len(submitted)
      BY <1>2
    <3>2. Len(submitted') = n + 1 /\ submitted'[n + 1] = list
          /\ \A i \in 1 .. n : submitted'[i] = submitted[i]
      BY <1>1, <1>2, <3>1
    <3>3. list.done <= Len(list.uses)
      BY <1>2 DEF ListRecords
    <3>4. \A i \in 1 .. n + 1 : i = n + 1 \/ i \in 1 .. n
      OBVIOUS
    <3>. QED
      BY <3>1, <3>2, <3>3, <3>4, <1>2
  <2>. QED
    BY <2>1, <2>2, <1>0, <1>1, <1>3 DEF IInv, TypeInv
<1>10. OrderInv'
  BY <1>0, <1>1, <1>5 DEF OrderInv
<1>11. SliceInv'
  <2>1. SlicesAgree(CommandsIn(Q), mapped, latest, physSlice)
    BY DEF IInv, SliceInv
  <2>2. SlicesAgree(CommandsIn(Q'), mapped, latest, physSlice)
    BY <2>1, <1>0, <1>7, SlicesDrops
  <2>. QED
    BY <2>2, <1>1, <1>6 DEF SliceInv
<1>12. PlaceInv'
  <2>1. Apart(CommandsIn(Q), FreedIn(L), RetiredSlices, physSlice, freeSlices, nextSlices, allocated)
    BY DEF IInv, PlaceInv
  <2>2. RetiredSlices' = RetiredSlices
    BY <1>1 DEF RetiredSlices
  <2>3. Apart(CommandsIn(Q'), FreedIn(L), RetiredSlices, physSlice, freeSlices, nextSlices, allocated)
    BY <2>1, <1>0, <1>7, ApartDrops
  <2>. QED
    BY <2>2, <2>3, <1>1, <1>6 DEF PlaceInv
<1>13. MapInv'
  BY <1>0, <1>1, <1>5 DEF IInv, MapInv
<1>14. ExclusiveInv'
  BY <1>1, <1>8 DEF IInv, ExclusiveInv
<1>15. ContentsInv'
  BY <1>1, <1>8 DEF IInv, ContentsInv
<1>. QED
  BY <1>9, <1>10, <1>11, <1>12, <1>13, <1>14, <1>15 DEF IInv

LEMMA ExecuteCommandInv == IInv /\ ExecuteCommand => IInv'
<1>. SUFFICES ASSUME IInv, ExecuteCommand PROVE IInv'
  OBVIOUS
<1>1. Current \in CommandRecords
  BY ExecuteStep
<1>2. Current.op \in Ops
  BY <1>1 DEF CommandRecords
<1>3. CASE IsUse(Current)
  BY <1>3, ExecuteUseInv
<1>4. CASE Current.op = "invalidate"
  BY <1>4, ExecuteRenameInv
<1>5. CASE Current.op = "flush"
  BY <1>5, ExecuteFlushInv
<1>. QED
  BY <1>2, <1>3, <1>4, <1>5 DEF Ops, IsUse

-----------------------------------------------------------------------------
(* Steps of the GPU and the finisher thread                                *)

LEMMA AdvancesFirst ==
  ASSUME NEW b \in Seq(ListRecords), b # <<>>, b[1].done < Len(b[1].uses),
         \A i \in 1 .. Len(b) : b[i].done <= Len(b[i].uses),
         NEW l \in ListRecords, NEW d, d = [b EXCEPT ![1].done = @ + 1]
  PROVE  /\ d \in Seq(ListRecords) /\ Append(d, l) \in Seq(ListRecords)
         /\ Advances(Append(b, l), Append(d, l), b[1].uses[b[1].done + 1])
         /\ \A i \in 1 .. Len(d) : d[i].done <= Len(d[i].uses)
         /\ \A i \in 1 .. Len(Append(b, l)) : Append(d, l)[i].freed = Append(b, l)[i].freed
<1>1. PICK n \in Nat : n = Len(b)
  OBVIOUS
<1>2. n > 0 /\ b[1] \in ListRecords
  BY <1>1
<1>3. PICK k \in Nat : k = b[1].done
  BY <1>2 DEF ListRecords
<1>4. PICK e \in ListRecords : e = [b[1] EXCEPT !.done = k + 1]
  <2>1. PICK m \in Nat : m = k + 1
    OBVIOUS
  <2>2. [b[1] EXCEPT !.done = m] \in ListRecords
    BY <1>2 DEF ListRecords
  <2>. QED
    BY <2>1, <2>2
<1>5. e.uses = b[1].uses /\ e.freed = b[1].freed /\ e.done = k + 1
  BY <1>2, <1>4 DEF ListRecords
<1>6. d = [b EXCEPT ![1] = e]
  BY <1>3, <1>4
<1>7. d \in Seq(ListRecords) /\ Len(d) = n /\ d[1] = e /\ \A i \in 1 .. n : i # 1 => d[i] = b[i]
  BY <1>1, <1>2, <1>6
<1>8. Len(b[1].uses) \in Nat
  BY <1>2 DEF ListRecords
<1>9. k + 1 \in 1 .. Len(b[1].uses)
  BY <1>3, <1>8
<1>10. \A i \in 1 .. n : /\ d[i].uses = b[i].uses /\ d[i].freed = b[i].freed
                         /\ d[i].done = IF i = 1 THEN b[i].done + 1 ELSE b[i].done
                         /\ d[i].done <= Len(d[i].uses)
  <2>1. TAKE i \in 1 .. n
  <2>2. CASE i = 1
    BY <2>2, <1>3, <1>5, <1>7, <1>9
  <2>3. CASE i # 1
    BY <2>3, <1>1, <1>7
  <2>. QED
    BY <2>2, <2>3
<1>. DEFINE x == Append(b, l)
            y == Append(d, l)
<1>11. /\ Len(x) = n + 1 /\ x[n + 1] = l /\ \A i \in 1 .. n : x[i] = b[i]
       /\ Len(y) = n + 1 /\ y[n + 1] = l /\ \A i \in 1 .. n : y[i] = d[i]
       /\ y \in Seq(ListRecords)
  BY <1>1, <1>7
<1>. HIDE DEF x, y
<1>12. \A i \in 1 .. n + 1 : /\ y[i].uses = x[i].uses /\ y[i].freed = x[i].freed
                             /\ y[i].done = IF i = 1 THEN x[i].done + 1 ELSE x[i].done
  <2>1. TAKE i \in 1 .. n + 1
  <2>2. CASE i = n + 1
    <3>1. i # 1
      BY <2>2, <1>2
    <3>. QED
      BY <2>2, <3>1, <1>11
  <2>3. CASE i \in 1 .. n
    BY <2>3, <1>10, <1>11
  <2>. QED
    BY <2>2, <2>3
<1>13. x[1] = b[1]
  <2>1. 1 \in 1 .. n
    BY <1>2
  <2>. QED
    BY <2>1, <1>11
<1>14. Advances(x, y, b[1].uses[b[1].done + 1])
  <2>1. Len(y) = Len(x) /\ Len(x) > 0
    BY <1>11
  <2>2. x[1].done + 1 \in 1 .. Len(x[1].uses)
    BY <1>3, <1>9, <1>13
  <2>. QED
    BY <2>1, <2>2, <1>11, <1>12, <1>13 DEF Advances
<1>15. \A i \in 1 .. Len(x) : y[i].freed = x[i].freed
  BY <1>11, <1>12
<1>. QED
  BY <1>1, <1>7, <1>10, <1>11, <1>14, <1>15 DEF x, y

\* The next command that the GPU runs was recorded before all others that are pending.
LEMMA NextUseFirst ==
  ASSUME IInv, HasNextUse,
         NEW M \in Seq(ListRecords), Advances(L, M, NextUse)
  PROVE  /\ ListsInOrder(M) /\ UsesIn(M) = UsesIn(L) /\ PendingIn(M) \subseteq PendingIn(L)
         /\ \A v \in PendingIn(L) : v \in PendingIn(M) \/ v = NextUse
         /\ NextUse \in PendingIn(L) /\ NextUse \in UseRecords /\ NextUse.contents <= latest
         /\ \A v \in PendingIn(M) : Ordered(NextUse, v)
         /\ \A v \in CommandsIn(Q) : v.op # "flush" => Ordered(NextUse, v)
<1>. DEFINE u == NextUse
<1>1. Advances(L, M, u)
  OBVIOUS
<1>. HIDE DEF u
<1>2. L \in Seq(ListRecords) /\ UsesIn(L) \subseteq UseRecords /\ PendingIn(L) \subseteq UsesIn(L)
  BY ListsTyped DEF IInv
<1>3. ListsInOrder(L) /\ Numbered(CommandsIn(Q), UsesIn(L), latest, access)
  BY DEF IInv, OrderInv
<1>4. /\ ListsInOrder(M) /\ UsesIn(M) = UsesIn(L)
      /\ \A v \in PendingIn(L) : v \in PendingIn(M) \/ v = u
      /\ PendingIn(M) \subseteq PendingIn(L) /\ u \in PendingIn(L)
      /\ \A v \in PendingIn(M) : Ordered(u, v)
  BY <1>1, <1>2, <1>3, AdvancesOrder
<1>5. u \in UsesIn(L)
  BY <1>2, <1>4
<1>6. u.contents <= latest /\ \A v \in CommandsIn(Q) : v.op # "flush" => Ordered(u, v)
  BY <1>3, <1>5 DEF Numbered
<1>. QED
  BY <1>2, <1>4, <1>5, <1>6 DEF u
LEMMA GpuMoves ==
  ASSUME IInv, HasNextUse, NEW d, d = [submitted EXCEPT ![1].done = @ + 1]
  PROVE  /\ d \in Seq(ListRecords) /\ \A i \in 1 .. Len(d) : d[i].done <= Len(d[i].uses)
         /\ Append(d, list) \in Seq(ListRecords) /\ Advances(L, Append(d, list), NextUse)
         /\ \A i \in 1 .. Len(L) : Append(d, list)[i].freed = L[i].freed
<1>1. /\ submitted \in Seq(ListRecords) /\ list \in ListRecords
      /\ \A i \in 1 .. Len(submitted) : submitted[i].done <= Len(submitted[i].uses)
      /\ submitted # <<>> /\ submitted[1].done < Len(submitted[1].uses)
  BY DEF IInv, TypeInv, HasNextUse
<1>. QED
  BY <1>1, AdvancesFirst DEF L, NextUse

\* The GPU runs a command.
LEMMA GpuExecuteInv == IInv /\ GpuExecute => IInv'
<1>. SUFFICES ASSUME IInv, GpuExecute PROVE IInv'
  OBVIOUS
<1>. DEFINE u == NextUse
            M == Append(submitted', list)
<1>1. /\ HasNextUse /\ submitted' = [submitted EXCEPT ![1].done = @ + 1]
      /\ contents' = IF u.op = "write" THEN [contents EXCEPT ![u.slice] = u.contents] ELSE contents
      /\ UNCHANGED <<appVars, csVars, freeVars, execVars, retired>>
  BY DEF GpuExecute
<1>2. /\ submitted' \in Seq(ListRecords)
      /\ \A i \in 1 .. Len(submitted') : submitted'[i].done <= Len(submitted'[i].uses)
      /\ M \in Seq(ListRecords) /\ Advances(L, M, u)
      /\ \A i \in 1 .. Len(L) : M[i].freed = L[i].freed
  BY <1>1, GpuMoves
<1>3. L' = M /\ Q' = Q
  BY <1>1 DEF L, Q, csVars, execVars
<1>4. /\ ListsInOrder(M) /\ UsesIn(M) = UsesIn(L) /\ PendingIn(M) \subseteq PendingIn(L)
      /\ \A v \in PendingIn(L) : v \in PendingIn(M) \/ v = u
      /\ u \in PendingIn(L) /\ u \in UseRecords /\ u.contents <= latest
      /\ \A v \in PendingIn(M) : Ordered(u, v)
      /\ \A v \in CommandsIn(Q) : v.op # "flush" => Ordered(u, v)
  BY <1>1, <1>2, NextUseFirst
<1>5. /\ Len(M) = Len(L)
      /\ \A i \in 1 .. Len(L) : M[i].uses = L[i].uses /\ M[i].freed = L[i].freed
  BY <1>2 DEF Advances
<1>. HIDE DEF u, M
<1>6. IsUse(u) /\ u.slice \in Slices /\ u.contents \in Nat
  BY <1>4 DEF UseRecords, IsUse
<1>7. /\ u \in Pending /\ Pending' \subseteq Pending
      /\ \A v \in Pending : v \in Pending' \/ v = u
      /\ \A v \in Pending' : Ordered(u, v)
  <2>1. Pending' = {c \in CommandsIn(Q) \cup PendingIn(M) : IsUse(c)}
    BY <1>3 DEF Pending
  <2>2. \A c : IsUse(c) => c.op # "flush"
    BY DEF IsUse
  <2>. QED
    BY <2>1, <2>2, <1>4, <1>6 DEF Pending
<1>8. TypeInv'
  <2>1. contents' \in [Slices -> Nat]
    BY <1>1, <1>6 DEF IInv, TypeInv
  <2>. QED
    BY <2>1, <1>1, <1>2 DEF IInv, TypeInv, appVars, csVars, freeVars, execVars
<1>9. OrderInv'
  <2>1. ListsInOrder(L') /\ UsesIn(L') = UsesIn(L)
    BY <1>3, <1>4
  <2>. QED
    BY <2>1, <1>1, <1>3 DEF IInv, OrderInv, appVars
<1>10. SliceInv'
  <2>1. Held(M, physSlice)
    BY <1>5 DEF IInv, SliceInv, Held
  <2>. QED
    BY <2>1, <1>1, <1>3 DEF IInv, SliceInv, appVars, execVars
<1>11. PlaceInv'
  <2>1. FreedIn(M) = FreedIn(L) /\ FreedOnce(M)
    BY <1>5, SameFreed DEF IInv, PlaceInv
  <2>. QED
    BY <2>1, <1>1, <1>3 DEF IInv, PlaceInv, RetiredSlices, freeVars, execVars
<1>12. MapInv'
  <2>1. UsesIn(L') = UsesIn(L)
    BY <1>3, <1>4
  <2>. QED
    BY <2>1, <1>1, <1>3 DEF IInv, MapInv, appVars, csVars, execVars
<1>13. ExclusiveInv'
  BY <1>1, <1>7 DEF IInv, ExclusiveInv, Exclusive, appVars
<1>14. ContentsInv'
  <2>1. /\ contents \in [Slices -> Nat] /\ mapped \in Slices /\ latest \in Nat
        /\ UpToDate(Pending, contents, mapped, latest, access, map.type)
    BY DEF IInv, TypeInv, ContentsInv
  <2>2. \A x \in Pending : x.contents \in Nat /\ x.slice \in Slices
    <3>1. CommandsIn(Q) \subseteq CommandRecords /\ PendingIn(L) \subseteq UseRecords
      BY ChunksTyped, ListsTyped DEF IInv
    <3>. QED
      BY <3>1 DEF Pending, CommandRecords, UseRecords
  <2>3. UpToDate(Pending', contents', mapped, latest, access, map.type)
    <3>1. /\ u \in Pending /\ Pending' \subseteq Pending /\ \A x \in Pending : x \in Pending' \/ x = u
          /\ \A x \in Pending' : Ordered(u, x)
          /\ u.slice \in Slices /\ u.contents \in Nat /\ u.contents <= latest
      BY <1>4, <1>6, <1>7
    <3>2. contents' = IF u.op = "write" THEN [contents EXCEPT ![u.slice] = u.contents] ELSE contents
      BY <1>1
    <3>. DEFINE P == Pending
                O == Pending'
                l == contents'
                t == map.type
    <3>3. u \in P /\ O \subseteq P /\ (\A x \in P : x \in O \/ x = u) /\ \A x \in O : Ordered(u, x)
      BY <3>1
    <3>4. \A x \in P : x.contents \in Nat /\ x.slice \in Slices
      BY <2>2
    <3>5. UpToDate(P, contents, mapped, latest, access, t)
      BY <2>1
    <3>6. /\ u.op = "write" => l[u.slice] = u.contents
          /\ \A x \in Slices : l[x] = contents[x] \/ (x = u.slice /\ u.op = "write")
      BY <3>2, <3>1, <2>1
    <3>7. u.slice \in Slices /\ u.contents \in Nat /\ u.contents <= latest
      BY <3>1
    <3>8. contents \in [Slices -> Nat] /\ mapped \in Slices /\ latest \in Nat
      BY <2>1
    <3>. HIDE DEF P, O, l, t
    <3>9. UpToDate(O, l, mapped, latest, access, t)
      BY <3>3, <3>4, <3>5, <3>6, <3>7, <3>8, DoneUpToDate
    <3>. QED
      BY <3>9 DEF O, l, t
  <2>. QED
    BY <2>3, <1>1 DEF ContentsInv, appVars
<1>. QED
  BY <1>8, <1>9, <1>10, <1>11, <1>12, <1>13, <1>14 DEF IInv

LEMMA RetiresFirst ==
  ASSUME NEW b \in Seq(ListRecords), b # <<>>, b[1].done = Len(b[1].uses),
         \A i \in 1 .. Len(b) : b[i].done <= Len(b[i].uses), NEW l \in ListRecords
  PROVE  /\ Tail(b) \in Seq(ListRecords) /\ Append(Tail(b), l) \in Seq(ListRecords)
         /\ \A i \in 1 .. Len(Tail(b)) : Tail(b)[i].done <= Len(Tail(b)[i].uses)
         /\ Retires(Append(b, l), Append(Tail(b), l)) /\ Append(b, l)[1] = b[1]
<1>1. PICK n \in Nat : Len(b) = n + 1
  <2>1. Len(b) \in Nat /\ Len(b) > 0
    OBVIOUS
  <2>2. Len(b) - 1 \in Nat /\ Len(b) = (Len(b) - 1) + 1
    BY <2>1
  <2>. QED
    BY <2>2
<1>. DEFINE d == Tail(b)
            x == Append(b, l)
            y == Append(d, l)
<1>2. d \in Seq(ListRecords) /\ Len(d) = n /\ \A i \in 1 .. n : d[i] = b[i + 1]
  BY <1>1
<1>. HIDE DEF d
<1>3. /\ Len(x) = n + 2 /\ x[n + 2] = l /\ \A i \in 1 .. n + 1 : x[i] = b[i]
      /\ Len(y) = n + 1 /\ y[n + 1] = l /\ \A i \in 1 .. n : y[i] = d[i]
      /\ y \in Seq(ListRecords)
  BY <1>1, <1>2
<1>. HIDE DEF x, y
<1>4. \A i \in 1 .. n + 1 : y[i] = x[i + 1]
  <2>1. TAKE i \in 1 .. n + 1
  <2>2. CASE i = n + 1
    <3>1. i + 1 = n + 2
      BY <2>2
    <3>. QED
      BY <3>1, <2>2, <1>3
  <2>3. CASE i \in 1 .. n
    <3>1. i + 1 \in 1 .. n + 1
      BY <2>3
    <3>. QED
      BY <3>1, <2>3, <1>2, <1>3
  <2>. QED
    BY <2>2, <2>3
<1>5. 1 \in 1 .. n + 1 /\ x[1] = b[1]
  BY <1>3
<1>6. Retires(x, y)
  <2>1. Len(x) = Len(y) + 1
    BY <1>3
  <2>. QED
    BY <2>1, <1>3, <1>4, <1>5 DEF Retires
<1>7. \A i \in 1 .. Len(d) : d[i].done <= Len(d[i].uses)
  <2>1. TAKE i \in 1 .. Len(d)
  <2>2. i + 1 \in 1 .. Len(b) /\ d[i] = b[i + 1]
    BY <1>1, <1>2
  <2>. QED
    BY <2>2
<1>. QED
  BY <1>2, <1>3, <1>5, <1>6, <1>7 DEF d, x, y

\* The oldest command list is done.
LEMMA FinishListInv == IInv /\ FinishList => IInv'
<1>. SUFFICES ASSUME IInv, FinishList PROVE IInv'
  OBVIOUS
<1>. DEFINE F == submitted[1].freed
            M == Append(Tail(submitted), list)
<1>1. /\ submitted # <<>> /\ ~HasNextUse /\ retired = <<>>
      /\ submitted' = Tail(submitted) /\ retired' = <<F>>
      /\ UNCHANGED <<appVars, csVars, freeVars, execVars, contents>>
  BY DEF FinishList
<1>2. /\ submitted \in Seq(ListRecords) /\ list \in ListRecords
      /\ \A i \in 1 .. Len(submitted) : submitted[i].done <= Len(submitted[i].uses)
  BY DEF IInv, TypeInv
<1>3. submitted[1] \in ListRecords /\ submitted[1].done = Len(submitted[1].uses)
      /\ F \in SUBSET Slices
  <2>1. 1 \in 1 .. Len(submitted) /\ submitted[1] \in ListRecords
    BY <1>1, <1>2
  <2>2. submitted[1].done \in Nat /\ Len(submitted[1].uses) \in Nat /\ F \in SUBSET Slices
    BY <2>1 DEF ListRecords
  <2>3. submitted[1].done <= Len(submitted[1].uses)
    BY <2>1, <1>2
  <2>. QED
    BY <2>1, <2>2, <2>3, <1>1 DEF HasNextUse
<1>4. /\ submitted' \in Seq(ListRecords) /\ M \in Seq(ListRecords) /\ L \in Seq(ListRecords)
      /\ \A i \in 1 .. Len(submitted') : submitted'[i].done <= Len(submitted'[i].uses)
      /\ Retires(L, M) /\ L[1].freed = F
  <2>1. /\ Tail(submitted) \in Seq(ListRecords) /\ M \in Seq(ListRecords)
        /\ \A i \in 1 .. Len(Tail(submitted)) : Tail(submitted)[i].done <= Len(Tail(submitted)[i].uses)
        /\ Retires(Append(submitted, list), M) /\ Append(submitted, list)[1] = submitted[1]
    BY <1>1, <1>2, <1>3, RetiresFirst
  <2>2. L \in Seq(ListRecords)
    BY ListsTyped DEF IInv
  <2>. QED
    BY <2>1, <2>2, <1>1 DEF L
<1>5. L' = M /\ Q' = Q
  BY <1>1 DEF L, Q, csVars, execVars
<1>. HIDE DEF F, M
<1>6. ListsInOrder(M) /\ UsesIn(M) \subseteq UsesIn(L) /\ PendingIn(M) = PendingIn(L)
  <2>1. ListsInOrder(L)
    BY DEF IInv, OrderInv
  <2>. QED
    BY <2>1, <1>4, RetiresSame
<1>7. /\ Held(M, physSlice) /\ FreedOnce(M)
      /\ FreedIn(L) = FreedIn(M) \cup F /\ FreedIn(M) \cap F = {}
  <2>1. Held(L, physSlice) /\ FreedOnce(L)
    BY DEF IInv, SliceInv, PlaceInv
  <2>. QED
    BY <2>1, <1>4, RetiresHeld
<1>8. RetiredSlices = {} /\ RetiredSlices' = F
  <2>1. \A k : k \notin 1 .. 0
    OBVIOUS
  <2>2. Len(retired) = 0 /\ Len(retired') = 1 /\ retired'[1] = F /\ 1 .. 1 = {1}
    BY <1>1
  <2>. QED
    BY <2>1, <2>2 DEF RetiredSlices
<1>9. Pending' = Pending
  BY <1>5, <1>6 DEF Pending
<1>10. TypeInv'
  <2>1. retired' \in Seq(SUBSET Slices) /\ Len(retired') <= 1
    BY <1>1, <1>3
  <2>. QED
    BY <2>1, <1>1, <1>4 DEF IInv, TypeInv, appVars, csVars, freeVars, execVars
<1>11. OrderInv'
  <2>1. Numbered(CommandsIn(Q), UsesIn(L), latest, access) /\ InOrder(Q)
    BY DEF IInv, OrderInv
  <2>2. Numbered(CommandsIn(Q), UsesIn(M), latest, access)
    BY <2>1, <1>6 DEF Numbered
  <2>. QED
    BY <2>1, <2>2, <1>1, <1>5, <1>6 DEF OrderInv, appVars
<1>12. SliceInv'
  BY <1>1, <1>5, <1>7 DEF IInv, SliceInv, appVars, execVars
<1>13. PlaceInv'
  <2>1. Apart(CommandsIn(Q), FreedIn(L), RetiredSlices, physSlice, freeSlices, nextSlices, allocated)
    BY DEF IInv, PlaceInv
  <2>2. Apart(CommandsIn(Q), FreedIn(M), F, physSlice, freeSlices, nextSlices, allocated)
    BY <2>1, <1>7, <1>8 DEF Apart
  <2>. QED
    BY <2>2, <1>1, <1>5, <1>7, <1>8 DEF PlaceInv, freeVars, execVars
<1>14. MapInv'
  <2>1. \A c \in CommandsIn(Q') \cup UsesIn(L') : c \in CommandsIn(Q) \cup UsesIn(L)
    BY <1>5, <1>6
  <2>. QED
    BY <2>1, <1>1, <1>5 DEF IInv, MapInv, appVars, csVars, execVars
<1>15. ExclusiveInv'
  BY <1>1, <1>9 DEF IInv, ExclusiveInv, appVars
<1>16. ContentsInv'
  BY <1>1, <1>9 DEF IInv, ContentsInv, appVars
<1>. QED
  BY <1>10, <1>11, <1>12, <1>13, <1>14, <1>15, <1>16 DEF IInv

\* A command list that is done is reset: the slices it has freed can be used again.
LEMMA ResetListInv == IInv /\ ResetList => IInv'
<1>. SUFFICES ASSUME IInv, ResetList PROVE IInv'
  OBVIOUS
<1>1. /\ retired # <<>> /\ nextSlices' = nextSlices \cup retired[1] /\ retired' = <<>>
      /\ UNCHANGED <<appVars, csVars, freeSlices, allocated, execVars, submitted, contents>>
  BY DEF ResetList
<1>2. Q' = Q /\ L' = L /\ Pending' = Pending
  BY <1>1 DEF Q, L, Pending, csVars, execVars
<1>3. RetiredSlices = retired[1] /\ RetiredSlices' = {} /\ retired[1] \in SUBSET Slices
  <2>1. \A k : k \notin 1 .. 0
    OBVIOUS
  <2>2. retired \in Seq(SUBSET Slices) /\ Len(retired) <= 1
    BY DEF IInv, TypeInv
  <2>3. Len(retired) = 1 /\ retired[1] \in SUBSET Slices
    <3>1. PICK n \in Nat : n = Len(retired)
      BY <2>2
    <3>2. n # 0
      BY <2>2, <3>1, <1>1
    <3>. QED
      BY <2>2, <3>1, <3>2
  <2>4. 1 .. 1 = {1} /\ Len(retired') = 0
    BY <1>1
  <2>. QED
    BY <2>1, <2>3, <2>4 DEF RetiredSlices
<1>4. TypeInv'
  BY <1>1, <1>3 DEF IInv, TypeInv, appVars, csVars, execVars
<1>5. OrderInv' /\ SliceInv'
  BY <1>1, <1>2 DEF IInv, OrderInv, SliceInv, appVars, execVars
<1>6. PlaceInv'
  <2>1. Apart(CommandsIn(Q), FreedIn(L), RetiredSlices, physSlice, freeSlices, nextSlices, allocated)
    BY DEF IInv, PlaceInv
  <2>2. Apart(CommandsIn(Q), FreedIn(L), {}, physSlice, freeSlices, nextSlices', allocated)
    BY <2>1, <1>1, <1>3 DEF Apart
  <2>. QED
    BY <2>2, <1>1, <1>2, <1>3 DEF IInv, PlaceInv, execVars
<1>7. MapInv'
  BY <1>1, <1>2 DEF IInv, MapInv, appVars, csVars, execVars
<1>8. ExclusiveInv' /\ ContentsInv'
  BY <1>1, <1>2 DEF IInv, ExclusiveInv, ContentsInv, appVars
<1>. QED
  BY <1>4, <1>5, <1>6, <1>7, <1>8 DEF IInv
-----------------------------------------------------------------------------
(* The theorems                                                            *)

LEMMA OneEmpty ==
  /\ CommandsIn(<<<<>>>>) = {} /\ InOrder(<<<<>>>>) /\ \A e, n : UsedUpTo(<<<<>>>>, e, n)
  /\ UsesIn(<<NewList>>) = {} /\ PendingIn(<<NewList>>) = {} /\ FreedIn(<<NewList>>) = {}
  /\ ListsInOrder(<<NewList>>) /\ FreedOnce(<<NewList>>) /\ \A p : Held(<<NewList>>, p)
<1>1. \A k : k \notin 1 .. 0
  OBVIOUS
<1>2. \A q : Len(q) = 1 => \A i \in 1 .. Len(q) : i = 1
  OBVIOUS
<1>3. PICK q : q = <<<<>>>>
  OBVIOUS
<1>4. Len(q) = 1 /\ Len(q[1]) = 0
  BY <1>3
<1>5. \A i \in 1 .. Len(q) : \A j : j \notin 1 .. Len(q[i])
  BY <1>1, <1>2, <1>4
<1>6. CommandsIn(q) = {} /\ InOrder(q) /\ \A e, n : UsedUpTo(q, e, n)
  BY <1>5 DEF CommandsIn, InOrder, UsedUpTo
<1>7. PICK l : l = <<NewList>>
  OBVIOUS
<1>8. Len(l) = 1 /\ l[1] = NewList /\ Len(l[1].uses) = 0 /\ l[1].done = 0 /\ l[1].freed = {}
  BY <1>7 DEF NewList
<1>9. \A i \in 1 .. Len(l) : i = 1
  BY <1>2, <1>8
<1>10. \A i \in 1 .. Len(l) : \A j : j \notin 1 .. Len(l[i].uses)
  BY <1>1, <1>8, <1>9
<1>11. UsesIn(l) = {} /\ ListsInOrder(l) /\ \A p : Held(l, p)
  BY <1>10 DEF UsesIn, ListsInOrder, Held
<1>12. \A j : j \notin 0 + 1 .. 0
  OBVIOUS
<1>13. PendingIn(l) = {}
  <2>1. \A i \in 1 .. Len(l) : \A j : j \notin l[i].done + 1 .. Len(l[i].uses)
    BY <1>8, <1>9, <1>12
  <2>. QED
    BY <2>1 DEF PendingIn
<1>14. FreedIn(l) = {} /\ FreedOnce(l)
  BY <1>8, <1>9 DEF FreedIn, FreedOnce
<1>. QED
  BY <1>3, <1>6, <1>7, <1>11, <1>13, <1>14

LEMMA InitInv == Init => IInv
<1>. SUFFICES ASSUME Init PROVE IInv
  OBVIOUS
<1>1. FirstSlice \in Slices
  BY MappingAssumption DEF FirstSlice
<1>2. Q = <<<<>>>> /\ L = <<NewList>>
  BY DEF Init, Q, L
<1>3. /\ CommandsIn(Q) = {} /\ InOrder(Q) /\ \A e, n : UsedUpTo(Q, e, n)
      /\ UsesIn(L) = {} /\ PendingIn(L) = {} /\ FreedIn(L) = {}
      /\ ListsInOrder(L) /\ FreedOnce(L) /\ \A p : Held(L, p)
  BY <1>2, OneEmpty
<1>4. Pending = {}
  BY <1>3 DEF Pending
<1>5. RetiredSlices = {}
  <2>1. Len(retired) = 0 /\ \A k : k \notin 1 .. 0
    BY DEF Init
  <2>. QED
    BY <2>1 DEF RetiredSlices
<1>6. TypeInv
  <2>1. list \in ListRecords /\ list.done = 0
    BY DEF Init, NewList, ListRecords
  <2>2. map \in [type : {"none", "discard", "read", "write"}, wait : BOOLEAN, target : Nat,
                 written : BOOLEAN]
    BY DEF Init, NoMap
  <2>3. contents \in [Slices -> Nat]
    BY DEF Init
  <2>4. submitted \in Seq(ListRecords) /\ \A i \in 1 .. Len(submitted) :
          submitted[i].done <= Len(submitted[i].uses)
    BY DEF Init
  <2>5. chunk \in Seq(CommandRecords) /\ chunks \in Seq(Seq(CommandRecords)) /\ Len(chunks) = 0
        /\ retired \in Seq(SUBSET Slices) /\ Len(retired) <= 1
    BY DEF Init
  <2>. QED
    BY <1>1, <2>1, <2>2, <2>3, <2>4, <2>5 DEF Init, TypeInv
<1>7. OrderInv
  BY <1>3 DEF OrderInv, Numbered
<1>8. SliceInv
  BY <1>3 DEF Init, SliceInv, SlicesAgree, Renamed
<1>9. PlaceInv
  BY <1>3, <1>5 DEF Init, PlaceInv, Apart, RenamedTo
<1>10. MapInv
  BY <1>3 DEF Init, MapInv
<1>11. ExclusiveInv
  BY <1>4 DEF ExclusiveInv, Exclusive
<1>12. ContentsInv
  BY <1>1, <1>4 DEF Init, ContentsInv, UpToDate, Brought
<1>. QED
  BY <1>6, <1>7, <1>8, <1>9, <1>10, <1>11, <1>12 DEF IInv

LEMMA StutterInv == IInv /\ UNCHANGED vars => IInv'
<1>. SUFFICES ASSUME IInv, UNCHANGED vars PROVE IInv'
  OBVIOUS
<1>1. UNCHANGED <<kind, calls, pc, map, access, latest, mapped, seqNum, chunk, csSeqNum, flushSeqNum,
                  chunks, freeSlices, nextSlices, allocated, executed, physSlice, list, submitted, retired,
                  contents>>
  BY DEF vars, appVars, csVars, freeVars, execVars, gpuVars
<1>2. Q' = Q /\ L' = L /\ Pending' = Pending /\ RetiredSlices' = RetiredSlices
  BY <1>1 DEF Q, L, Pending, RetiredSlices
<1>3. TypeInv'
  BY <1>1 DEF IInv, TypeInv
<1>4. OrderInv' /\ SliceInv' /\ PlaceInv'
  BY <1>1, <1>2 DEF IInv, OrderInv, SliceInv, PlaceInv
<1>5. MapInv' /\ ExclusiveInv' /\ ContentsInv'
  BY <1>1, <1>2 DEF IInv, MapInv, ExclusiveInv, ContentsInv
<1>. QED
  BY <1>3, <1>4, <1>5 DEF IInv

LEMMA MapStepInv == IInv /\ MapStep => IInv'
BY ImplicitSyncInv, ProbeWritesInv, PreserveInv, NoPreserveInv, CheckInv, RecheckInv, RefuseInv,
   BusyInv, WaitForResourceInv DEF MapStep

LEMMA StepInv == IInv /\ [Next]_vars => IInv'
<1>. SUFFICES ASSUME IInv, [Next]_vars PROVE IInv'
  OBVIOUS
<1>1. ASSUME NEW op \in {"read", "write"}, Use(op) PROVE IInv'
  BY <1>1, UseInv
<1>2. CASE ChunkFull
  BY <1>2, ChunkFullInv
<1>3. CASE Flush
  BY <1>3, FlushInv
<1>4. CASE MapDiscard
  BY <1>4, MapDiscardInv
<1>5. ASSUME NEW type \in {"read", "write"}, NEW wait \in BOOLEAN, Map(type, wait) PROVE IInv'
  BY <1>5, BeginInv
<1>6. CASE MapStep
  BY <1>6, MapStepInv
<1>7. CASE Unmap
  BY <1>7, UnmapInv
<1>8. CASE CsThread
  BY <1>8, ExecuteCommandInv, FinishChunkInv DEF CsThread
<1>9. CASE GpuExecute
  BY <1>9, GpuExecuteInv
<1>10. CASE FinishList
  BY <1>10, FinishListInv
<1>11. CASE ResetList
  BY <1>11, ResetListInv
<1>12. CASE UNCHANGED vars
  BY <1>12, StutterInv
<1>. QED
  BY <1>1, <1>2, <1>3, <1>4, <1>5, <1>6, <1>7, <1>8, <1>9, <1>10, <1>11, <1>12 DEF Next

\* The invariant: commands and the uses of command lists are in program order, with the
\* slices of their time; a slice is in one place; and the contents of the slices are those
\* that pending writes have still to bring up to date (D3D11ImmediateContext::MapBuffer,
\* DxvkContext::invalidateBuffer, DxvkBuffer, DxvkCommandList).
THEOREM Invariance == Spec => []IInv
<1>1. Init => IInv
  BY InitInv
<1>2. IInv /\ [Next]_vars => IInv'
  BY StepInv
<1>. QED
  BY <1>1, <1>2, PTL DEF Spec

LEMMA PendingCommandsAre == TypeInv => PendingCommands = CommandsIn(Q)
<1>. SUFFICES ASSUME TypeInv PROVE PendingCommands = CommandsIn(Q)
  OBVIOUS
<1>0. chunks \in Seq(Seq(CommandRecords)) /\ chunk \in Seq(CommandRecords)
  BY DEF TypeInv
<1>1. PICK n \in Nat : n = Len(chunks)
  BY <1>0
<1>2. Len(Q) = n + 1 /\ Q[n + 1] = chunk /\ \A i \in 1 .. n : Q[i] = chunks[i]
  BY <1>0, <1>1 DEF Q
<1>. HIDE DEF Q
<1>3. {Q[i] : i \in 1 .. n + 1} = {chunk} \cup {chunks[i] : i \in 1 .. n}
  <2>1. \A i \in 1 .. n + 1 : i = n + 1 \/ i \in 1 .. n
    OBVIOUS
  <2>2. n + 1 \in 1 .. n + 1 /\ \A i \in 1 .. n : i \in 1 .. n + 1
    OBVIOUS
  <2>. QED
    BY <2>1, <2>2, <1>2
<1>4. PendingCommands = UNION {{c[i] : i \in 1 .. Len(c)} : c \in {Q[k] : k \in 1 .. n + 1}}
  BY <1>1, <1>3 DEF PendingCommands
<1>5. UNION {{c[i] : i \in 1 .. Len(c)} : c \in {Q[k] : k \in 1 .. n + 1}} = CommandsIn(Q)
  BY <1>2 DEF CommandsIn
<1>. QED
  BY <1>4, <1>5

LEMMA PendingUsesAre == TypeInv => PendingUses = PendingIn(L)
<1>. SUFFICES ASSUME TypeInv PROVE PendingUses = PendingIn(L)
  OBVIOUS
<1>0. submitted \in Seq(ListRecords) /\ list.done = 0
  BY DEF TypeInv
<1>1. PICK n \in Nat : n = Len(submitted)
  BY <1>0
<1>2. Len(L) = n + 1 /\ L[n + 1] = list /\ \A i \in 1 .. n : L[i] = submitted[i]
  BY <1>0, <1>1 DEF L
<1>. HIDE DEF L
<1>3. ASSUME NEW v \in PendingUses PROVE v \in PendingIn(L)
  <2>1. CASE v \in {list.uses[i] : i \in 1 .. Len(list.uses)}
    <3>1. PICK j \in 1 .. Len(list.uses) : v = list.uses[j]
      BY <2>1
    <3>2. n + 1 \in 1 .. Len(L) /\ j \in L[n + 1].done + 1 .. Len(L[n + 1].uses)
      BY <1>0, <1>2
    <3>3. v = L[n + 1].uses[j]
      BY <3>1, <1>2
    <3>. QED
      BY <3>2, <3>3, PendingMember
  <2>2. CASE \E i \in 1 .. n : \E j \in submitted[i].done + 1 .. Len(submitted[i].uses) :
               v = submitted[i].uses[j]
    <3>1. PICK i \in 1 .. n : \E j \in submitted[i].done + 1 .. Len(submitted[i].uses) :
               v = submitted[i].uses[j]
      BY <2>2
    <3>2. i \in 1 .. Len(L) /\ L[i] = submitted[i]
      BY <1>2
    <3>. QED
      BY <3>1, <3>2, PendingMember
  <2>. QED
    BY <2>1, <2>2, <1>1 DEF PendingUses
<1>4. ASSUME NEW v \in PendingIn(L) PROVE v \in PendingUses
  <2>1. PICK i \in 1 .. Len(L) : \E j \in L[i].done + 1 .. Len(L[i].uses) : v = L[i].uses[j]
    BY PendingPlace
  <2>2. i = n + 1 \/ i \in 1 .. n
    BY <1>2
  <2>3. CASE i = n + 1
    <3>1. PICK j \in 0 + 1 .. Len(list.uses) : v = list.uses[j]
      BY <2>1, <2>3, <1>0, <1>2
    <3>2. j \in 1 .. Len(list.uses)
      OBVIOUS
    <3>. QED
      BY <3>1, <3>2 DEF PendingUses
  <2>4. CASE i \in 1 .. n
    BY <2>1, <2>4, <1>1, <1>2 DEF PendingUses
  <2>. QED
    BY <2>2, <2>3, <2>4
<1>. QED
  BY <1>3, <1>4
\* A command in PendingCommands or PendingUses that uses the buffer is one of Pending.
LEMMA PendingIs ==
  TypeInv => \A c \in PendingCommands \cup PendingUses : IsUse(c) => c \in Pending
BY PendingCommandsAre, PendingUsesAre DEF Pending

\* While the application may write the memory that MapBuffer has returned, no command that
\* it has recorded and that the GPU has not done accesses it; while it may read, none
\* writes it.
THEOREM MappedStaysExclusive == Spec => []MappedExclusive
<1>1. IInv => MappedExclusive
  <2>1. SUFFICES ASSUME IInv, NEW c \in PendingCommands \cup PendingUses, IsUse(c), c.slice = mapped
                 PROVE  access # "write" /\ (access = "read" => c.op = "read")
    BY DEF MappedExclusive, IsUse
  <2>2. c \in Pending
    BY <2>1, PendingIs DEF IInv
  <2>. QED
    BY <2>1, <2>2 DEF IInv, ExclusiveInv, Exclusive
<1>. QED
  BY <1>1, Invariance, PTL

\* A map that keeps the contents, by waiting (WaitForResource) or by a copy (MapBuffer's
\* discard of a small buffer), shows the result of every command and write before it.
THEOREM MapsSeeLatest == Spec => []MapSeesLatest
<1>1. IInv => MapSeesLatest
  <2>1. SUFFICES ASSUME IInv, access # "none", map.type # "discard" PROVE contents[mapped] = latest
    BY DEF MapSeesLatest
  <2>2. Brought(Pending, contents, mapped, latest)
    BY <2>1 DEF IInv, ContentsInv, UpToDate
  <2>3. access \in {"read", "write"}
    BY <2>1 DEF IInv, TypeInv
  <2>4. \A w \in Pending : w.slice = mapped => w.op # "write"
    BY <2>3, <2>1 DEF IInv, ExclusiveInv, Exclusive
  <2>. QED
    BY <2>2, <2>4 DEF Brought
<1>. QED
  BY <1>1, Invariance, PTL

\* A command that reads finds what was written last before it was recorded, whatever the
\* application has done with the buffer, renamed or waited for, since.
THEOREM GpuReadsAreInOrder == Spec => []GpuReadsInOrder
<1>1. IInv => GpuReadsInOrder
  <2>1. SUFFICES ASSUME IInv, HasNextUse, NextUse.op = "read"
                 PROVE  contents[NextUse.slice] = NextUse.contents
    BY DEF GpuReadsInOrder
  <2>2. PICK d : d = [submitted EXCEPT ![1].done = @ + 1]
    OBVIOUS
  <2>3. PICK M \in Seq(ListRecords) : M = Append(d, list) /\ Advances(L, M, NextUse)
    BY <2>1, <2>2, GpuMoves
  <2>. DEFINE u == NextUse
  <2>4. /\ u \in PendingIn(L) /\ u \in UseRecords
        /\ \A v \in PendingIn(L) : v \in PendingIn(M) \/ v = u
        /\ \A v \in PendingIn(M) : Ordered(u, v)
        /\ \A v \in CommandsIn(Q) : v.op # "flush" => Ordered(u, v)
    BY <2>1, <2>3, NextUseFirst
  <2>5. u.op = "read"
    BY <2>1
  <2>. HIDE DEF u
  <2>6. u \in Pending
    BY <2>4, <2>5 DEF Pending, IsUse
  <2>7. Brought(Pending, contents, u.slice, u.contents)
    BY <2>1, <2>5, <2>6 DEF IInv, ContentsInv, UpToDate
  <2>8. ASSUME NEW w \in Pending, w.op = "write" PROVE w.contents # u.contents
    <3>1. w # u /\ w.op # "flush"
      BY <2>5, <2>8
    <3>2. Ordered(u, w)
      BY <3>1, <2>4 DEF Pending
    <3>3. u.contents < w.contents
      BY <3>2, <2>8 DEF Ordered
    <3>4. u.contents \in Nat
      BY <2>4 DEF UseRecords
    <3>. QED
      BY <3>3, <3>4
  <2>9. contents[u.slice] = u.contents
    BY <2>7, <2>8 DEF Brought
  <2>. QED
    BY <2>9 DEF u
<1>. QED
  BY <1>1, Invariance, PTL

\* Where a slice is held.
LEMMA HoldersAre ==
  ASSUME TypeInv, NEW s
  PROVE  /\ (s = physSlice <=> <<"physSlice", 0>> \in Holders(s))
         /\ (s \in freeSlices <=> <<"freeSlices", 0>> \in Holders(s))
         /\ (s \in nextSlices <=> <<"nextSlices", 0>> \in Holders(s))
         /\ (s \in RetiredSlices <=> <<"retired", 0>> \in Holders(s))
         /\ \A c \in CommandsIn(Q) :
              c.op = "invalidate" /\ c.slice = s => <<"command", c.contents>> \in Holders(s)
         /\ \A i \in 1 .. Len(L) : s \in L[i].freed => <<"list", i>> \in Holders(s)
         /\ \A h \in Holders(s) :
              \/ h \in {<<"physSlice", 0>>, <<"freeSlices", 0>>, <<"nextSlices", 0>>, <<"retired", 0>>}
              \/ \E c \in CommandsIn(Q) : /\ c.op = "invalidate" /\ c.slice = s
                                         /\ h = <<"command", c.contents>>
              \/ \E i \in 1 .. Len(L) : s \in L[i].freed /\ h = <<"list", i>>
<1>. DEFINE A == {<<q, 0>> : q \in {x \in DOMAIN Holds : s \in Holds[x]}}
            B == {<<"command", c.contents>> :
                    c \in {x \in CommandsIn(Q) : x.op = "invalidate" /\ x.slice = s}}
            D == {<<"list", i>> : i \in {j \in 1 .. Len(L) : s \in L[j].freed}}
<1>1. Holders(s) = A \cup B \cup D
  <2>1. PendingCommands = CommandsIn(Q)
    BY PendingCommandsAre
  <2>2. Len(L) = Len(submitted) + 1
    BY DEF TypeInv, L
  <2>3. Append(submitted, list) = L
    BY DEF L
  <2>. QED
    BY <2>1, <2>2, <2>3 DEF Holders
<1>2. /\ DOMAIN Holds = {"physSlice", "freeSlices", "nextSlices", "retired"}
      /\ Holds["physSlice"] = {physSlice} /\ Holds["freeSlices"] = freeSlices
      /\ Holds["nextSlices"] = nextSlices /\ Holds["retired"] = RetiredSlices
  BY DEF Holds, RetiredSlices
<1>3. \A h \in A : h \in {<<"physSlice", 0>>, <<"freeSlices", 0>>, <<"nextSlices", 0>>, <<"retired", 0>>}
  BY <1>2
<1>4. \A q \in DOMAIN Holds : s \in Holds[q] <=> <<q, 0>> \in A
  OBVIOUS
<1>5. \A h \in B \cup D : h[1] \in {"command", "list"}
  OBVIOUS
<1>6. \A q \in DOMAIN Holds : <<q, 0>> \in Holders(s) <=> <<q, 0>> \in A
  BY <1>1, <1>2, <1>5
<1>7. /\ (s = physSlice <=> <<"physSlice", 0>> \in Holders(s))
      /\ (s \in freeSlices <=> <<"freeSlices", 0>> \in Holders(s))
      /\ (s \in nextSlices <=> <<"nextSlices", 0>> \in Holders(s))
      /\ (s \in RetiredSlices <=> <<"retired", 0>> \in Holders(s))
  BY <1>2, <1>4, <1>6
<1>8. /\ \A c \in CommandsIn(Q) : c.op = "invalidate" /\ c.slice = s => <<"command", c.contents>> \in B
      /\ \A h \in B : \E c \in CommandsIn(Q) : /\ c.op = "invalidate" /\ c.slice = s
                                             /\ h = <<"command", c.contents>>
  OBVIOUS
<1>9. /\ \A i \in 1 .. Len(L) : s \in L[i].freed => <<"list", i>> \in D
      /\ \A h \in D : \E i \in 1 .. Len(L) : s \in L[i].freed /\ h = <<"list", i>>
  OBVIOUS
<1>. HIDE DEF A, B, D
<1>. QED
  BY <1>1, <1>3, <1>7, <1>8, <1>9

\* A slice of a backing buffer has one holder, and a slice that is of none has none.
LEMMA OneHolder ==
  ASSUME TypeInv, PlaceInv, NEW s \in Slices
  PROVE  Cardinality(Holders(s)) = IF s \in allocated THEN 1 ELSE 0
<1>1. /\ Apart(CommandsIn(Q), FreedIn(L), RetiredSlices, physSlice, freeSlices, nextSlices, allocated)
      /\ FreedOnce(L)
  BY DEF PlaceInv
<1>2. /\ \A c \in CommandsIn(Q) : c.op = "invalidate" => c.slice \in RenamedTo(CommandsIn(Q))
      /\ \A i \in 1 .. Len(L) : L[i].freed \subseteq FreedIn(L)
  BY DEF RenamedTo, FreedIn
<1>3. \A c, d \in CommandsIn(Q) :
        c.op = "invalidate" /\ d.op = "invalidate" /\ c.slice = d.slice => c = d
  BY <1>1 DEF Apart
<1>4. \A i, k \in 1 .. Len(L) : s \in L[i].freed /\ s \in L[k].freed => i = k
  BY <1>1 DEF FreedOnce
<1>5. CASE s \notin allocated
  <2>1. /\ s # physSlice /\ s \notin freeSlices /\ s \notin nextSlices /\ s \notin RetiredSlices
        /\ s \notin RenamedTo(CommandsIn(Q)) /\ s \notin FreedIn(L)
    BY <1>1, <1>5 DEF Apart
  <2>2. Holders(s) = {}
    BY <2>1, <1>2, HoldersAre
  <2>. QED
    BY <2>2, <1>5, FS_EmptySet
<1>6. CASE s \in allocated
  <2>1. \E h \in Holders(s) : \A g \in Holders(s) : g = h
    <3>1. CASE s = physSlice
      <4>1. /\ s \notin freeSlices /\ s \notin nextSlices /\ s \notin RetiredSlices
            /\ s \notin RenamedTo(CommandsIn(Q)) /\ s \notin FreedIn(L)
        BY <1>1, <3>1 DEF Apart
      <4>. QED
        BY <3>1, <4>1, <1>2, HoldersAre
    <3>2. CASE s \in freeSlices
      <4>1. /\ s # physSlice /\ s \notin nextSlices /\ s \notin RetiredSlices
            /\ s \notin RenamedTo(CommandsIn(Q)) /\ s \notin FreedIn(L)
        BY <1>1, <3>2 DEF Apart
      <4>. QED
        BY <3>2, <4>1, <1>2, HoldersAre
    <3>3. CASE s \in nextSlices
      <4>1. /\ s # physSlice /\ s \notin freeSlices /\ s \notin RetiredSlices
            /\ s \notin RenamedTo(CommandsIn(Q)) /\ s \notin FreedIn(L)
        BY <1>1, <3>3 DEF Apart
      <4>. QED
        BY <3>3, <4>1, <1>2, HoldersAre
    <3>4. CASE s \in RetiredSlices
      <4>1. /\ s # physSlice /\ s \notin freeSlices /\ s \notin nextSlices
            /\ s \notin RenamedTo(CommandsIn(Q)) /\ s \notin FreedIn(L)
        BY <1>1, <3>4 DEF Apart
      <4>. QED
        BY <3>4, <4>1, <1>2, HoldersAre
    <3>5. CASE s \in RenamedTo(CommandsIn(Q))
      <4>1. /\ s # physSlice /\ s \notin freeSlices /\ s \notin nextSlices
            /\ s \notin RetiredSlices /\ s \notin FreedIn(L)
        BY <1>1, <3>5 DEF Apart
      <4>2. PICK c \in CommandsIn(Q) : c.op = "invalidate" /\ c.slice = s
        BY <3>5 DEF RenamedTo
      <4>3. <<"command", c.contents>> \in Holders(s)
        BY <4>2, HoldersAre
      <4>4. \A g \in Holders(s) : g = <<"command", c.contents>>
        BY <4>1, <4>2, <1>2, <1>3, HoldersAre
      <4>. QED
        BY <4>3, <4>4
    <3>6. CASE s \in FreedIn(L)
      <4>1. /\ s # physSlice /\ s \notin freeSlices /\ s \notin nextSlices
            /\ s \notin RetiredSlices /\ s \notin RenamedTo(CommandsIn(Q))
        BY <1>1, <3>6 DEF Apart
      <4>2. PICK i \in 1 .. Len(L) : s \in L[i].freed
        BY <3>6 DEF FreedIn
      <4>3. <<"list", i>> \in Holders(s)
        BY <4>2, HoldersAre
      <4>4. \A g \in Holders(s) : g = <<"list", i>>
        BY <4>1, <4>2, <1>2, <1>4, HoldersAre
      <4>. QED
        BY <4>3, <4>4
    <3>. QED
      BY <1>1, <1>6, <3>1, <3>2, <3>3, <3>4, <3>5, <3>6 DEF Apart
  <2>2. PICK h \in Holders(s) : \A g \in Holders(s) : g = h
    BY <2>1
  <2>3. Holders(s) = {h}
    BY <2>2
  <2>. QED
    BY <2>3, <1>6, FS_Singleton
<1>. QED
  BY <1>5, <1>6

\* A slice of a backing buffer is in exactly one place: in use, on its way into use or out of
\* it, or free (DxvkBuffer::allocSlice, freeSlice); none is lost and none given out twice.
\* The one the application has mapped is in use or will be.
THEOREM SlicesAreConserved == Spec => []SlicesConserved
<1>1. IInv => SlicesConserved
  <2>1. SUFFICES ASSUME IInv PROVE SlicesConserved
    OBVIOUS
  <2>2. TypeInv /\ PlaceInv
    BY <2>1 DEF IInv
  <2>3. TypeOK
    <3>1. contents \in [Slices -> 0 .. latest]
      <4>1. contents \in [Slices -> Nat] /\ latest \in Nat
        BY <2>2 DEF TypeInv
      <4>2. \A s \in Slices : contents[s] <= latest
        BY <2>1 DEF IInv, ContentsInv, UpToDate
      <4>. QED
        BY <4>1, <4>2
    <3>2. flushSeqNum \in Nat
      BY <2>2 DEF TypeInv
    <3>. QED
      BY <2>2, <3>1, <3>2 DEF TypeInv, TypeOK
  <2>4. \E h \in Holders(mapped) : h[1] \in {"physSlice", "command"}
    <3>1. Renamed(mapped, latest + 1, CommandsIn(Q), physSlice)
      BY <2>1 DEF IInv, SliceInv, SlicesAgree
    <3>2. CASE mapped = physSlice
      BY <2>2, <3>2, HoldersAre
    <3>3. CASE \E c \in CommandsIn(Q) : c.op = "invalidate" /\ c.slice = mapped
      <4>1. PICK c \in CommandsIn(Q) : c.op = "invalidate" /\ c.slice = mapped
        BY <3>3
      <4>2. <<"command", c.contents>> \in Holders(mapped)
        BY <4>1, <2>2, HoldersAre
      <4>3. <<"command", c.contents>>[1] = "command"
        OBVIOUS
      <4>. QED
        BY <4>2, <4>3
    <3>. QED
      BY <3>1, <3>2, <3>3 DEF Renamed
  <2>. QED
    BY <2>2, <2>3, <2>4, OneHolder DEF SlicesConserved
<1>. QED
  BY <1>1, Invariance, PTL

=============================================================================
